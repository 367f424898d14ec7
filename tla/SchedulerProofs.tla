--------------------------- MODULE SchedulerProofs ---------------------------
(***************************************************************************)
(* The theorems about the two schedulers: the one of Secure Partitions     *)
(* (SpmSched), for any number of partitions, any call graph and any use of *)
(* the lock, and the guest monitor (Monitor), for any number of guests,    *)
(* any launch policy, restart limit and window, and a tick counter of any  *)
(* width that a window fits in.                                            *)
(***************************************************************************)
EXTENDS SpmSched, Monitor, Integers, TLAPS

-----------------------------------------------------------------------------
(* The inductive invariant of the scheduler of Secure Partitions, for any
   number of partitions, any call graph and any use of the NVM lock: it holds
   at boot and every gated call, fault and recovery keeps it. *)

-----------------------------------------------------------------------------
(* Queues *)

\* Appending an element that is not linked yet (runqueue_enqueue and the tail of
\* wt_mutex_acquire_queued) keeps a queue simple and adds exactly it.
LEMMA AppendFacts ==
    ASSUME NEW q \in Seq(Sps), NEW p \in Sps, Simple(q), ~On(q, p)
    PROVE  /\ Append(q, p) \in Seq(Sps)
           /\ Simple(Append(q, p))
           /\ \A x \in Clients : On(Append(q, p), x) <=> On(q, x) \/ x = p
BY DEF Simple, On, Sps

\* Unlinking a node (runqueue_unlink, wt_mutex_remove_waiter) keeps a queue
\* simple and removes exactly it.
LEMMA WithoutFacts ==
    ASSUME NEW q \in Seq(Sps), NEW p \in Clients, Simple(q)
    PROVE  /\ Without(q, p) \in Seq(Sps)
           /\ Simple(Without(q, p))
           /\ \A x \in Clients : On(Without(q, p), x) <=> On(q, x) /\ x # p
<1>1. CASE ~On(q, p)
  BY <1>1, Zenon DEF Without, On
<1>2. CASE On(q, p)
  <2> DEFINE First(i) == q[i] = p /\ \A j \in 1 .. i - 1 : q[j] # p
             i == CHOOSE i \in 1 .. Len(q) : First(i)
  <2>1. \E k \in 1 .. Len(q) : First(k)
    BY <1>2 DEF On, Simple
  <2>2. i \in 1 .. Len(q) /\ q[i] = p
    BY <2>1, Zenon
  <2>3. Without(q, p) = [j \in 1 .. Len(q) - 1 |-> IF j < i THEN q[j] ELSE q[j + 1]]
    BY <1>2, Zenon DEF Without
  <2> HIDE DEF i
  <2>4. Without(q, p) \in Seq(Sps) /\ Len(Without(q, p)) = Len(q) - 1
    BY <2>2, <2>3
  <2>5. \A j \in 1 .. Len(q) - 1 :
           Without(q, p)[j] = IF j < i THEN q[j] ELSE q[j + 1]
    BY <2>3, Zenon
  <2> DEFINE Source(j) == IF j < i THEN j ELSE j + 1
  <2>a. ASSUME NEW j \in 1 .. Len(Without(q, p))
        PROVE  Source(j) \in 1 .. Len(q) /\ Source(j) # i /\ Without(q, p)[j] = q[Source(j)]
    BY <2>2, <2>4, <2>5
  <2>6. Simple(Without(q, p))
    <3>1. ASSUME NEW j \in 1 .. Len(Without(q, p)), NEW k \in 1 .. Len(Without(q, p)),
                 Without(q, p)[j] = Without(q, p)[k]
          PROVE  j = k
      <4>1. Source(j) = Source(k)
        BY <2>a, <3>1, Zenon DEF Simple
      <4> QED BY <2>2, <2>4, <4>1
    <3> QED BY <3>1, Zenon DEF Simple
  <2>7. ASSUME NEW x \in Clients
        PROVE  On(Without(q, p), x) <=> On(q, x) /\ x # p
    <3>1. ASSUME On(Without(q, p), x) PROVE On(q, x) /\ x # p
      <4>1. PICK j \in 1 .. Len(Without(q, p)) : Without(q, p)[j] = x
        BY <3>1, Zenon DEF On
      <4> HIDE DEF Source
      <4>2. Source(j) \in 1 .. Len(q) /\ Source(j) # i /\ q[Source(j)] = x
        BY <2>a, <4>1, Zenon
      <4>3. q[Source(j)] # q[i]
        BY <2>2, <4>2, Zenon DEF Simple
      <4> QED BY <2>2, <4>2, <4>3, Zenon DEF On
    <3>2. ASSUME On(q, x), x # p PROVE On(Without(q, p), x)
      <4>1. PICK k \in 1 .. Len(q) : q[k] = x
        BY <3>2, Zenon DEF On
      <4>2. CASE k < i
        BY <2>2, <2>4, <2>5, <4>1, <4>2 DEF On
      <4>3. CASE k > i
        <5>1. k - 1 \in 1 .. Len(q) - 1 /\ Without(q, p)[k - 1] = x
          BY <2>2, <2>5, <4>1, <4>3
        <5>2. QED BY <5>1, <2>4, Zenon DEF On
      <4>4. QED BY <2>2, <3>2, <4>1, <4>2, <4>3
    <3>3. QED BY <3>1, <3>2, Zenon
  <2>8. QED BY <2>4, <2>6, <2>7, Zenon
<1>3. QED BY <1>1, <1>2, Zenon

\* Taking the first waiter (wt_mutex_release) keeps a queue simple.
LEMMA TailFacts ==
    ASSUME NEW q \in Seq(Sps), Simple(q), q # <<>>
    PROVE  /\ Head(q) \in Sps /\ Tail(q) \in Seq(Sps)
           /\ Simple(Tail(q))
           /\ \A x \in Clients : On(Tail(q), x) <=> On(q, x) /\ x # Head(q)
<1>1. Head(q) \in Sps /\ Tail(q) \in Seq(Sps) /\ Len(Tail(q)) = Len(q) - 1
      /\ Len(q) > 0 /\ Head(q) = q[1]
  OBVIOUS
<1>2. \A j \in 1 .. Len(q) - 1 : Tail(q)[j] = q[j + 1]
  OBVIOUS
<1>3. Simple(Tail(q))
  BY <1>1, <1>2 DEF Simple
<1>4. ASSUME NEW x \in Clients
      PROVE  On(Tail(q), x) <=> On(q, x) /\ x # Head(q)
  <2>1. ASSUME On(Tail(q), x) PROVE On(q, x) /\ x # Head(q)
    BY <1>1, <1>2, <2>1 DEF On, Simple
  <2>2. ASSUME On(q, x), x # Head(q) PROVE On(Tail(q), x)
    <3>1. PICK k \in 1 .. Len(q) : q[k] = x
      BY <2>2, Zenon DEF On
    <3>2. k - 1 \in 1 .. Len(q) - 1 /\ Tail(q)[k - 1] = x
      BY <1>1, <1>2, <2>2, <3>1
    <3>3. QED BY <1>1, <3>2, Zenon DEF On
  <2>3. QED BY <2>1, <2>2, Zenon
<1>5. QED BY <1>1, <1>3, <1>4, Zenon

-----------------------------------------------------------------------------
(* Coroutines *)

\* The run queue of c links exactly its runnable coroutines, once each.
LinkedOK(c) ==
    /\ c \in Coroutines
    /\ Simple(c.runq)
    /\ \A p \in Sps : c.state[p] = "RUNNABLE" <=> On(c.runq, p)

\* The coroutines after p's state became new and its node was unlinked.
Unlinked(c, p, new, l) ==
    Coroutine([c.state EXCEPT ![p] = new], Without(c.runq, p), l)

\* What wt_co_run, wt_co_mark_faulted and wt_co_reinit have in common: p leaves
\* the run queue as its state leaves RUNNABLE, everyone else is as before.
LEMMA UnlinkedFacts ==
    ASSUME NEW c, LinkedOK(c), NEW p \in Sps, NEW new \in CoStates \ {"RUNNABLE"},
           NEW l \in SUBSET c.latched
    PROVE  /\ LinkedOK(Unlinked(c, p, new, l))
           /\ \A q \in Sps : Unlinked(c, p, new, l).state[q] =
                 IF q = p THEN new ELSE c.state[q]
           /\ Unlinked(c, p, new, l).latched = l
<1> DEFINE d == Unlinked(c, p, new, l)
<1>1. /\ c.state \in [Sps -> CoStates] /\ c.runq \in Seq(Sps)
      /\ c.latched \in SUBSET Sps
  BY Zenon DEF LinkedOK, Coroutines
<1>2. /\ d.state = [c.state EXCEPT ![p] = new] /\ d.runq = Without(c.runq, p)
      /\ d.latched = l
  BY Zenon DEF Coroutine, Unlinked
<1>3. /\ Without(c.runq, p) \in Seq(Sps) /\ Simple(Without(c.runq, p))
      /\ \A x \in Sps : On(Without(c.runq, p), x) <=> On(c.runq, x) /\ x # p
  BY <1>1, WithoutFacts, Zenon DEF LinkedOK, Clients
<1>4. \A q \in Sps : d.state[q] = IF q = p THEN new ELSE c.state[q]
  BY <1>1, <1>2, Zenon
<1>5. d \in Coroutines
  BY <1>1, <1>2, <1>3, Zenon DEF Coroutine, Coroutines, Unlinked
<1> HIDE DEF d
<1>6. LinkedOK(d) /\ d.latched = l
  BY <1>2, <1>3, <1>4, <1>5, Zenon DEF LinkedOK
<1>7. QED
  BY <1>4, <1>6, Zenon DEF d

\* wt_co_mark_faulted: p is dead, everyone else is as before.
LEMMA MarkedFacts ==
    ASSUME NEW c, LinkedOK(c), NEW p \in Sps
    PROVE  /\ LinkedOK(Marked(c, p)) /\ Marked(c, p).latched = c.latched
           /\ \A q \in Sps : Marked(c, p).state[q] =
                 IF q = p THEN "FAULTED" ELSE c.state[q]
<1>1. Marked(c, p) = Unlinked(c, p, "FAULTED", c.latched)
  BY Zenon DEF Marked, Unlinked
<1>2. "FAULTED" \in CoStates \ {"RUNNABLE"} /\ c.latched \in SUBSET c.latched
  BY Zenon DEF CoStates
<1>3. QED BY <1>1, <1>2, UnlinkedFacts

\* wt_co_reinit: p sleeps on a fresh stack, everyone else is as before.
LEMMA RearmedFacts ==
    ASSUME NEW c, LinkedOK(c), NEW p \in Sps
    PROVE  /\ LinkedOK(Rearmed(c, p)) /\ Rearmed(c, p).latched \subseteq c.latched
           /\ \A q \in Sps : Rearmed(c, p).state[q] =
                 IF q = p THEN "BLOCKED" ELSE c.state[q]
<1>1. Rearmed(c, p) = Unlinked(c, p, "BLOCKED", c.latched \ {p})
  BY Zenon DEF Rearmed, Unlinked
<1>2. "BLOCKED" \in CoStates \ {"RUNNABLE"} /\ c.latched \ {p} \in SUBSET c.latched
  BY Zenon DEF CoStates
<1>3. QED BY <1>1, <1>2, UnlinkedFacts

\* wt_co_wake makes a sleeping coroutine runnable and nothing else, and latches
\* nothing when its target sleeps or is dead.
LEMMA WokenFacts ==
    ASSUME NEW c, LinkedOK(c), NEW p \in Clients,
           p # None => c.state[p] \in {"BLOCKED", "FAULTED"}
    PROVE  /\ LinkedOK(Woken(c, p))
           /\ \A q \in Sps : Woken(c, p).state[q] =
                 IF q = p /\ c.state[q] = "BLOCKED" THEN "RUNNABLE" ELSE c.state[q]
           /\ Woken(c, p).latched \subseteq c.latched
<1>1. /\ c.state \in [Sps -> CoStates] /\ c.runq \in Seq(Sps)
      /\ c.latched \in SUBSET Sps
  BY Zenon DEF LinkedOK, Coroutines
<1>2. CASE p = None \/ c.state[p] # "BLOCKED"
  <2>1. Woken(c, p) = c
    BY <1>2, Zenon DEF Woken
  <2>2. \A q \in Sps : ~(q = p /\ c.state[q] = "BLOCKED")
    BY <1>2 DEF None, Sps
  <2>3. QED BY <2>1, <2>2, Zenon
<1>3. CASE p # None /\ c.state[p] = "BLOCKED"
  <2>1. p \in Sps
    BY <1>3, Zenon DEF Clients
  <2> DEFINE d == Coroutine([c.state EXCEPT ![p] = "RUNNABLE"], Append(c.runq, p),
                            c.latched \ {p})
  <2>2. Woken(c, p) = d
    BY <1>3, Zenon DEF Woken
  <2>3. /\ d.state = [c.state EXCEPT ![p] = "RUNNABLE"] /\ d.runq = Append(c.runq, p)
        /\ d.latched = c.latched \ {p}
    BY Zenon DEF Coroutine
  <2>4. ~On(c.runq, p)
    BY <1>3, <2>1, Zenon DEF LinkedOK
  <2>5. /\ Append(c.runq, p) \in Seq(Sps) /\ Simple(Append(c.runq, p))
        /\ \A x \in Sps : On(Append(c.runq, p), x) <=> On(c.runq, x) \/ x = p
    BY <1>1, <2>1, <2>4, AppendFacts, Zenon DEF LinkedOK, Clients
  <2>6. \A q \in Sps : d.state[q] = IF q = p THEN "RUNNABLE" ELSE c.state[q]
    BY <1>1, <2>1, <2>3, Zenon
  <2>7. d \in Coroutines
    BY <1>1, <2>1, <2>3, <2>5, Zenon DEF Coroutine, Coroutines, CoStates
  <2> HIDE DEF d
  <2>8. LinkedOK(d)
    BY <2>3, <2>5, <2>6, <2>7, Zenon DEF LinkedOK
  <2>9. QED BY <1>3, <2>1, <2>2, <2>3, <2>6, <2>8, Zenon
<1>4. QED BY <1>2, <1>3, Zenon

\* wt_spm_run_co(p) on a partition that is not dead: p runs, everyone else is as
\* before.
LEMMA RunCoFacts ==
    ASSUME LinkedOK(co), NEW p \in Sps, co.state[p] # "FAULTED", RunCo(p),
           co.latched = {}
    PROVE  /\ LinkedOK(co') /\ current' = p /\ co'.latched = {}
           /\ \A q \in Sps : co'.state[q] = IF q = p THEN "RUNNING" ELSE co.state[q]
<1> DEFINE c == IF co.state[p] = "BLOCKED" THEN Woken(co, p) ELSE co
<1>1. /\ LinkedOK(c) /\ c.latched = {}
      /\ \A q \in Sps : q # p => c.state[q] = co.state[q]
  BY WokenFacts DEF Clients
<1>2. co' = Switched(c, p) /\ current' = p
  BY Zenon DEF RunCo
<1> HIDE DEF c
<1>3. co' = Unlinked(c, p, "RUNNING", c.latched)
  BY <1>2, Zenon DEF Switched, Unlinked
<1>4. LinkedOK(co') /\ co'.latched = c.latched
      /\ \A q \in Sps : co'.state[q] = IF q = p THEN "RUNNING" ELSE c.state[q]
  <2>1. "RUNNING" \in CoStates \ {"RUNNABLE"} /\ c.latched \in SUBSET c.latched
    BY Zenon DEF CoStates
  <2>2. QED BY <1>1, <1>3, <2>1, UnlinkedFacts
<1>5. QED BY <1>1, <1>2, <1>4, Zenon

\* wt_co_block: the running p sleeps, everyone else is as before.
LEMMA BlockFacts ==
    ASSUME LinkedOK(co), NEW p \in Sps, co.state[p] = "RUNNING", Block(p)
    PROVE  /\ LinkedOK(co') /\ current' = None /\ co'.latched = co.latched
           /\ \A q \in Sps : co'.state[q] = IF q = p THEN "BLOCKED" ELSE co.state[q]
<1>1. /\ co.state \in [Sps -> CoStates] /\ co.runq \in Seq(Sps)
      /\ co.latched \in SUBSET Sps
  BY Zenon DEF LinkedOK, Coroutines
<1>2. /\ co'.state = [co.state EXCEPT ![p] = "BLOCKED"] /\ co'.runq = co.runq
      /\ co'.latched = co.latched /\ current' = None
  BY Zenon DEF Block, Coroutine
<1>3. \A q \in Sps : co'.state[q] = IF q = p THEN "BLOCKED" ELSE co.state[q]
  BY <1>1, <1>2, Zenon
<1>4. co' \in Coroutines
  BY <1>1, <1>2, Zenon DEF Block, Coroutine, Coroutines, CoStates
<1>5. QED BY <1>2, <1>3, <1>4, Zenon DEF LinkedOK

-----------------------------------------------------------------------------
(* The NVM lock *)

\* The lock's own consistency: see WaitqOK.
LockOK(m) ==
    /\ m \in Mutex
    /\ m.holder = None => m.waitq = <<>>
    /\ ~On(m.waitq, m.holder)
    /\ Simple(m.waitq)

\* Nobody is linked in an empty queue.
LEMMA EmptyFacts == Simple(<<>>) /\ \A x \in Clients : ~On(<<>>, x)
BY DEF Simple, On

\* wt_mutex_release hands the lock to the first waiter and forgets nobody.
LEMMA HandedOverFacts ==
    ASSUME NEW m, LockOK(m)
    PROVE  /\ LockOK(HandedOver(m))
           /\ Heir(m) \in Clients /\ HandedOver(m).holder = Heir(m)
           /\ Heir(m) # None => On(m.waitq, Heir(m))
           /\ \A x \in Clients : On(HandedOver(m).waitq, x) => On(m.waitq, x)
<1>1. m.waitq \in Seq(Sps) /\ Simple(m.waitq)
  BY Zenon DEF LockOK, Mutex
<1>2. CASE m.waitq = <<>>
  <2>1. /\ HandedOver(m) = Mutexed(None, m.waitq) /\ Heir(m) = None
    BY <1>2, Zenon DEF HandedOver, Heir
  <2>2. HandedOver(m).holder = None /\ HandedOver(m).waitq = <<>>
        /\ HandedOver(m) \in Mutex /\ None \in Clients
    BY <1>1, <1>2, <2>1 DEF Mutexed, Mutex, Clients
  <2>3. QED BY <1>2, <2>1, <2>2, EmptyFacts, Zenon DEF LockOK
<1>3. CASE m.waitq # <<>>
  <2>1. /\ HandedOver(m) = Mutexed(Head(m.waitq), Tail(m.waitq))
        /\ Heir(m) = Head(m.waitq)
    BY <1>3, Zenon DEF HandedOver, Heir
  <2>2. /\ Head(m.waitq) \in Sps /\ Tail(m.waitq) \in Seq(Sps)
        /\ Simple(Tail(m.waitq))
        /\ \A x \in Clients : On(Tail(m.waitq), x) <=> On(m.waitq, x) /\ x # Head(m.waitq)
    BY <1>1, <1>3, TailFacts, Zenon
  <2>3. On(m.waitq, Head(m.waitq))
    BY <1>1, <1>3 DEF On
  <2>4. /\ HandedOver(m).holder = Head(m.waitq) /\ HandedOver(m).waitq = Tail(m.waitq)
        /\ HandedOver(m) \in Mutex /\ Head(m.waitq) \in Clients /\ Head(m.waitq) # None
    BY <2>1, <2>2 DEF Mutexed, Mutex, Clients, Sps, None
  <2>5. QED BY <2>1, <2>2, <2>3, <2>4, Zenon DEF LockOK
<1>4. QED BY <1>2, <1>3, Zenon

\* Removing a waiter that is not the holder.
LEMMA WaiterRemovedFacts ==
    ASSUME NEW m, LockOK(m), NEW p \in Sps, m.holder # p,
           NEW n, n = Mutexed(m.holder, Without(m.waitq, p))
    PROVE  /\ LockOK(n) /\ n.holder = m.holder
           /\ \A x \in Clients : On(n.waitq, x) <=> On(m.waitq, x) /\ x # p
<1>1. m.holder \in Clients /\ m.waitq \in Seq(Sps) /\ Simple(m.waitq)
  BY Zenon DEF LockOK, Mutex
<1>2. /\ Without(m.waitq, p) \in Seq(Sps) /\ Simple(Without(m.waitq, p))
      /\ \A x \in Clients : On(Without(m.waitq, p), x) <=> On(m.waitq, x) /\ x # p
  BY <1>1, WithoutFacts, Zenon DEF Clients
<1>3. /\ n.holder = m.holder /\ n.waitq = Without(m.waitq, p) /\ n \in Mutex
  BY <1>1, <1>2, Zenon DEF Mutexed, Mutex
<1>4. m.waitq = <<>> => Without(m.waitq, p) = <<>>
  BY DEF Without, On
<1>5. QED BY <1>1, <1>2, <1>3, <1>4, Zenon DEF LockOK

\* wt_hsm_release_locks: the dead partition neither holds the lock nor queues.
LEMMA LocksReleasedFacts ==
    ASSUME LockOK(mutex), NEW p \in Sps
    PROVE  /\ LockOK(LocksReleased(p))
           /\ LocksReleased(p).holder =
                 IF mutex.holder = p THEN Heir(mutex) ELSE mutex.holder
           /\ LocksReleased(p).holder # p
           /\ \A x \in Clients : On(LocksReleased(p).waitq, x) =>
                 On(mutex.waitq, x) /\ x # p
<1> DEFINE m == IF mutex.holder = p THEN HandedOver(mutex) ELSE mutex
<1>1. /\ LockOK(m) /\ m.holder # p
      /\ m.holder = IF mutex.holder = p THEN Heir(mutex) ELSE mutex.holder
      /\ \A x \in Clients : On(m.waitq, x) => On(mutex.waitq, x)
  <2>1. CASE mutex.holder = p
    <3>1. Heir(mutex) # p
      BY <2>1, HandedOverFacts DEF LockOK, Sps, None
    <3>2. QED BY <2>1, <3>1, HandedOverFacts, Zenon
  <2>2. CASE mutex.holder # p
    BY <2>2, Zenon
  <2>3. QED BY <2>1, <2>2, Zenon
<1>2. LocksReleased(p) = Mutexed(m.holder, Without(m.waitq, p))
  BY Zenon DEF LocksReleased
<1> HIDE DEF m
<1>3. /\ LockOK(LocksReleased(p)) /\ LocksReleased(p).holder = m.holder
      /\ \A x \in Clients : On(LocksReleased(p).waitq, x) <=> On(m.waitq, x) /\ x # p
  BY <1>1, <1>2, WaiterRemovedFacts, Zenon
<1>4. QED BY <1>1, <1>3, Zenon

-----------------------------------------------------------------------------
(* The inductive invariant of scheduling *)

\* The types of everything but the coroutines and the lock.
RestOK ==
    /\ disp \in Dispatch /\ current \in Clients
    /\ kind \in [Sps -> {"NONE", "SIG", "MSG", "LOCK"}]
    /\ queued \in [Sps -> SUBSET Clients] /\ active \in [Sps -> SUBSET Clients]
    /\ done \subseteq Clients
    /\ pending \subseteq Sps /\ inside \subseteq Sps
    /\ restarts \in [Sps -> 0 .. RestartLimit]

\* One coroutine runs, and only inside a dispatch; a dispatch has a target.
RunningOK ==
    /\ \A p \in Sps : co.state[p] = "RUNNING" <=> current = p
    /\ current # None => disp.at \in {"first", "scan"}
    /\ disp.at \in {"settle", "first", "resettle", "scan"} => disp.target \in Sps

\* Who queues for the lock is not about to run, so a hand-over always wakes its
\* heir and never latches.
WaitersOK ==
    /\ co.latched = {}
    /\ \A p \in Sps : On(mutex.waitq, p) => co.state[p] # "RUNNABLE"

\* A dead partition is not inside its critical section any more.
LiveInside == \A p \in pending : p \notin inside

Core == /\ RunningOK /\ DeadIsPending /\ HeirAwake /\ WaitersOK
        /\ Exclusion /\ LiveInside

SchedInv == LinkedOK(co) /\ LockOK(mutex) /\ RestOK /\ Core

\* The dispatch loop's position after a move to a.
LEMMA AtType ==
    ASSUME disp \in Dispatch,
           NEW a \in {"idle", "failed", "halted", "settle", "first", "resettle", "scan"}
    PROVE  At(a) \in Dispatch /\ At(a).at = a /\ At(a).target = disp.target
           /\ At(a).next = 1 /\ At(a).progressed = FALSE
BY SchedConstants DEF At, Dispatch

\* The bootstrap, or the guest, is no partition.
LEMMA NotNone == None \notin Sps /\ Sps \subseteq Clients /\ None \in Clients
BY DEF None, Sps, Clients

\* The facts about the partition that executes.
LEMMA RunningFacts ==
    ASSUME SchedInv, NEW p \in Sps, current = p
    PROVE  /\ co.state[p] = "RUNNING" /\ p \notin pending
           /\ disp.at \in {"first", "scan"}
           /\ \A q \in Sps : q # p => co.state[q] # "RUNNING"
BY NotNone, Zenon DEF SchedInv, Core, RunningOK, DeadIsPending

\* The scheduler after wt_co_init, with every partition created asleep.
LEMMA InitSched == Init => SchedInv
<1> SUFFICES ASSUME Init PROVE SchedInv
  BY Zenon
<1>1. /\ co.state = [p \in Sps |-> "BLOCKED"] /\ co.runq = <<>> /\ co.latched = {}
      /\ mutex.holder = None /\ mutex.waitq = <<>>
      /\ disp.at = "idle" /\ current = None /\ pending = {} /\ inside = {}
  BY Zenon DEF Init
<1>2. LinkedOK(co)
  BY <1>1, EmptyFacts DEF Init, LinkedOK, Coroutines, CoStates, Clients
<1>3. LockOK(mutex)
  BY <1>1, EmptyFacts DEF Init, LockOK, Mutex, Clients
<1>4. RestOK
  BY SchedConstants DEF Init, RestOK, Dispatch, Clients
<1>5. Core
  BY <1>1, NotNone, EmptyFacts, Zenon DEF Core, RunningOK, DeadIsPending, HeirAwake,
     WaitersOK, Exclusion, LiveInside
<1>6. QED BY <1>2, <1>3, <1>4, <1>5, Zenon DEF SchedInv

\* A step of the running partition that leaves the coroutines and the lock alone.
LEMMA QuietStep ==
    ASSUME SchedInv, RestOK', co' = co, mutex' = mutex, current' = current,
           disp' = disp, pending' = pending, inside' = inside,
           NEW p \in Sps, current = p,
           \A q \in Sps : q # p => kind'[q] = kind[q]
    PROVE  SchedInv'
<1>1. co.state[p] = "RUNNING"
  BY RunningFacts, Zenon
<1>2. HeirAwake'
  BY <1>1, Zenon DEF SchedInv, Core, HeirAwake
<1>3. Core'
  BY <1>2, Zenon DEF SchedInv, Core, RunningOK, DeadIsPending, WaitersOK, Exclusion, LiveInside
<1>4. QED BY <1>3, Zenon DEF SchedInv

\* A step in which the running partition p goes to sleep.
LEMMA SleepStep ==
    ASSUME SchedInv, RestOK', NEW p \in Sps, current = p, Block(p),
           LockOK(mutex'), mutex'.holder = mutex.holder,
           \A q \in Sps : q # p => (On(mutex'.waitq, q) <=> On(mutex.waitq, q)),
           disp' = disp, pending' = pending, inside' = inside,
           \A q \in Sps : q # p => kind'[q] = kind[q],
           kind'[p] = "LOCK" => mutex.holder # p
    PROVE  SchedInv'
<1>1. /\ co.state[p] = "RUNNING" /\ p \notin pending /\ disp.at \in {"first", "scan"}
      /\ \A q \in Sps : q # p => co.state[q] # "RUNNING"
  BY RunningFacts, Zenon
<1>2. /\ LinkedOK(co') /\ current' = None /\ co'.latched = co.latched
      /\ \A q \in Sps : co'.state[q] = IF q = p THEN "BLOCKED" ELSE co.state[q]
  BY <1>1, BlockFacts, Zenon DEF SchedInv
<1>3. RunningOK' /\ DeadIsPending'
  BY <1>1, <1>2, NotNone DEF SchedInv, Core, RunningOK, DeadIsPending
<1>4. HeirAwake' /\ WaitersOK' /\ Exclusion' /\ LiveInside'
  BY <1>1, <1>2 DEF SchedInv, Core, HeirAwake, WaitersOK, Exclusion, LiveInside
<1>5. QED BY <1>2, <1>3, <1>4, Zenon DEF SchedInv, Core

\* A step of the dispatch loop that only moves the loop on.
LEMMA LoopStep ==
    ASSUME SchedInv, RestOK', co' = co, mutex' = mutex, current' = current,
           current = None, disp.at # "halted",
           disp'.at \in {"settle", "first", "resettle", "scan"} => disp'.target \in Sps,
           kind' = kind, pending' = pending, inside' = inside
    PROVE  SchedInv'
<1>1. RunningOK'
  BY Zenon DEF SchedInv, Core, RunningOK
<1>2. DeadIsPending'
  BY Zenon DEF SchedInv, Core, DeadIsPending
<1>3. Core'
  BY <1>1, <1>2, Zenon DEF SchedInv, Core, HeirAwake, WaitersOK, Exclusion, LiveInside
<1>4. QED BY <1>3, Zenon DEF SchedInv

\* The gated calls of a partition that neither touch the lock nor block.
LEMMA ServeStep ==
    ASSUME SchedInv, NEW p \in Sps,
           \/ WaitReady(p) \/ CallFinish(p)
           \/ \E c \in Clients : Get(p, c) \/ Reply(p, c)
    PROVE  SchedInv'
<1>1. RestOK' /\ current = p /\ (\A q \in Sps : q # p => kind'[q] = kind[q])
  BY DEF SchedInv, RestOK, reqVars, WaitReady, CallFinish, Get, Reply
<1>2. /\ co' = co /\ mutex' = mutex /\ current' = current
      /\ disp' = disp /\ pending' = pending /\ inside' = inside
  BY Zenon DEF WaitReady, CallFinish, Get, Reply
<1>3. QED BY <1>1, <1>2, QuietStep, Zenon

\* The gated calls that block, the lock's excepted.
LEMMA YieldStep ==
    ASSUME SchedInv, NEW p \in Sps,
           WaitBlocks(p) \/ CallStill(p) \/ \E q \in Sps : Call(p, q)
    PROVE  SchedInv'
<1>1. /\ Block(p) /\ current = p /\ mutex' = mutex
      /\ disp' = disp /\ pending' = pending /\ inside' = inside
  BY Zenon DEF WaitBlocks, CallStill, Call
<1>2. RestOK' /\ kind'[p] # "LOCK" /\ (\A q \in Sps : q # p => kind'[q] = kind[q])
  <2>1. current' = None
    BY <1>1, Zenon DEF Block
  <2>2. QED BY <2>1, NotNone DEF SchedInv, RestOK, reqVars, WaitBlocks, CallStill, Call
<1>3. LockOK(mutex')
  BY <1>1, Zenon DEF SchedInv
<1>4. QED BY <1>1, <1>2, <1>3, SleepStep, Zenon

\* wt_mutex_acquire_queued that is granted.
LEMMA LockTakeStep ==
    ASSUME SchedInv, NEW p \in Sps, LockTake(p) PROVE SchedInv'
<1>1. /\ co.state[p] = "RUNNING" /\ p \notin pending
  BY RunningFacts, Zenon DEF LockTake
<1>2. /\ co' = co /\ current' = current /\ disp' = disp /\ pending' = pending
      /\ inside' = inside \cup {p} /\ kind' = [kind EXCEPT ![p] = "NONE"]
      /\ mutex.holder \in {None, p}
  BY Zenon DEF LockTake
<1>3. mutex'.holder = p /\ mutex'.waitq = mutex.waitq
  BY Zenon DEF LockTake, Mutexed
<1>4. mutex.holder = None \/ mutex' = mutex
  BY <1>2, Zenon DEF LockTake, Mutexed, SchedInv, LockOK, Mutex
<1>5. LockOK(mutex')
  <2>1. mutex' \in Mutex
    BY NotNone, Zenon DEF LockTake, Mutexed, Mutex, SchedInv, LockOK
  <2>2. QED
    BY <1>3, <1>4, <2>1, EmptyFacts, NotNone, Zenon DEF SchedInv, LockOK
<1>6. RestOK'
  BY Zenon DEF LockTake, SchedInv, RestOK, reqVars
<1>7. HeirAwake' /\ Exclusion' /\ LiveInside'
  BY <1>1, <1>2, <1>3, NotNone
     DEF SchedInv, Core, HeirAwake, Exclusion, LiveInside, RestOK
<1>8. RunningOK' /\ DeadIsPending' /\ WaitersOK'
  BY <1>2, <1>3, Zenon DEF SchedInv, Core, RunningOK, DeadIsPending, WaitersOK
<1>9. QED BY <1>2, <1>5, <1>6, <1>7, <1>8, Zenon DEF SchedInv, Core

\* wt_mutex_acquire_queued that has to wait.
LEMMA LockBlocksStep ==
    ASSUME SchedInv, NEW p \in Sps, LockBlocks(p) PROVE SchedInv'
<1>1. /\ mutex.holder # p /\ mutex.holder # None /\ mutex.holder \in Clients
      /\ mutex.waitq \in Seq(Sps) /\ Simple(mutex.waitq)
      /\ ~On(mutex.waitq, mutex.holder)
  BY Zenon DEF LockBlocks, SchedInv, LockOK, Mutex
<1> DEFINE w == Enqueued(mutex.waitq, p)
<1>2. /\ w \in Seq(Sps) /\ Simple(w)
      /\ \A x \in Clients : On(w, x) <=> On(mutex.waitq, x) \/ x = p
  BY <1>1, AppendFacts, Zenon DEF Enqueued
<1>3. mutex' = Mutexed(mutex.holder, w)
  BY Zenon DEF LockBlocks
<1> HIDE DEF w
<1>4. mutex'.holder = mutex.holder /\ mutex'.waitq = w /\ mutex' \in Mutex
  BY <1>1, <1>2, <1>3, Zenon DEF Mutexed, Mutex
<1>5. LockOK(mutex')
  BY <1>1, <1>2, <1>4, Zenon DEF LockOK
<1>6. /\ current = p /\ Block(p) /\ disp' = disp /\ pending' = pending
      /\ inside' = inside
  BY Zenon DEF LockBlocks
<1>7. RestOK' /\ (\A q \in Sps : q # p => kind'[q] = kind[q])
  <2>1. current' = None
    BY <1>6, Zenon DEF Block
  <2>2. QED BY <2>1, NotNone, Zenon DEF LockBlocks, SchedInv, RestOK, reqVars
<1>8. \A q \in Sps : q # p => (On(mutex'.waitq, q) <=> On(mutex.waitq, q))
  BY <1>2, <1>4, NotNone, Zenon
<1>9. QED BY <1>1, <1>4, <1>5, <1>6, <1>7, <1>8, SleepStep, Zenon

\* wt_mutex_release: the heir is asleep or dead, so it is woken or left alone.
LEMMA LockReleaseStep ==
    ASSUME SchedInv, NEW p \in Sps, LockRelease(p) PROVE SchedInv'
<1> DEFINE h == Heir(mutex)
<1>1. /\ co.state[p] = "RUNNING" /\ p \notin pending /\ mutex.holder = p
      /\ \A q \in Sps : q # p => co.state[q] # "RUNNING"
  BY RunningFacts, Zenon DEF LockRelease
<1>2. /\ LockOK(mutex') /\ h \in Clients /\ mutex'.holder = h
      /\ h # None => On(mutex.waitq, h)
      /\ \A x \in Clients : On(mutex'.waitq, x) => On(mutex.waitq, x)
  BY HandedOverFacts, Zenon DEF LockRelease, SchedInv
<1>3. h # None => h \in Sps /\ h # p /\ co.state[h] \in {"BLOCKED", "FAULTED"}
  BY <1>1, <1>2 DEF Clients, SchedInv, LockOK, LinkedOK, Coroutines, CoStates, Core, WaitersOK
<1>4. /\ LinkedOK(co') /\ co'.latched = {}
      /\ \A q \in Sps : co'.state[q] =
            IF q = h /\ co.state[q] = "BLOCKED" THEN "RUNNABLE" ELSE co.state[q]
  BY <1>2, <1>3, WokenFacts DEF LockRelease, SchedInv, Core, WaitersOK
<1>5. /\ current' = current /\ disp' = disp /\ pending' = pending /\ kind' = kind
      /\ inside' = inside \ {p}
  BY Zenon DEF LockRelease
<1> HIDE DEF h
<1>6. RunningOK' /\ DeadIsPending'
  BY <1>4, <1>5 DEF SchedInv, Core, RunningOK, DeadIsPending
<1>7. HeirAwake'
  BY <1>2, <1>4, <1>5, Zenon DEF SchedInv, Core, HeirAwake
<1>8. WaitersOK'
  BY <1>2, <1>4, NotNone, Zenon DEF SchedInv, Core, WaitersOK, LockOK
<1>9. Exclusion' /\ LiveInside'
  BY <1>1, <1>5, Zenon DEF SchedInv, Core, Exclusion, LiveInside
<1>10. RestOK'
  BY <1>5, Zenon DEF LockRelease, SchedInv, RestOK, reqVars
<1>11. QED BY <1>2, <1>4, <1>6, <1>7, <1>8, <1>9, <1>10, Zenon DEF SchedInv, Core

\* wt_spm_sp_fault
LEMMA FaultStep ==
    ASSUME SchedInv, NEW p \in Sps, Fault(p) PROVE SchedInv'
<1>1. /\ co.state[p] = "RUNNING" /\ disp.at \in {"first", "scan"}
      /\ \A q \in Sps : q # p => co.state[q] # "RUNNING"
  BY RunningFacts, Zenon DEF Fault
<1>2. /\ LinkedOK(co') /\ co'.latched = co.latched
      /\ \A q \in Sps : co'.state[q] = IF q = p THEN "FAULTED" ELSE co.state[q]
  BY MarkedFacts DEF Fault, SchedInv
<1>3. /\ current' = None /\ disp' = disp /\ kind' = kind /\ mutex' = mutex
      /\ pending' = pending \cup {p} /\ inside' = inside \ {p}
  BY Zenon DEF Fault
<1>4. RunningOK' /\ DeadIsPending'
  BY <1>1, <1>2, <1>3, NotNone DEF SchedInv, Core, RunningOK, DeadIsPending
<1>5. HeirAwake' /\ WaitersOK' /\ Exclusion' /\ LiveInside'
  BY <1>1, <1>2, <1>3
     DEF SchedInv, Core, HeirAwake, WaitersOK, Exclusion, LiveInside
<1>6. RestOK'
  BY <1>3, NotNone, Zenon DEF Fault, SchedInv, RestOK, reqVars
<1>7. QED BY <1>2, <1>3, <1>4, <1>5, <1>6, Zenon DEF SchedInv, Core

\* The lock and the coroutines after wt_hsm_release_locks for the dead p: the
\* heir, if any, is awake or dead itself.
LEMMA ReleasedFacts ==
    ASSUME SchedInv, NEW p \in Sps, Recovers(p)
    PROVE  /\ LinkedOK(CoReleased(p)) /\ CoReleased(p).latched = {}
           /\ \A q \in Sps : CoReleased(p).state[q] =
                 IF q = LocksReleased(p).holder /\ mutex.holder = p /\ co.state[q] = "BLOCKED"
                 THEN "RUNNABLE" ELSE co.state[q]
<1>1. CASE mutex.holder # p
  BY <1>1, Zenon DEF CoReleased, SchedInv, Core, WaitersOK
<1>2. CASE mutex.holder = p
  <2> DEFINE h == Heir(mutex)
  <2>1. h \in Clients /\ (h # None => On(mutex.waitq, h))
    BY HandedOverFacts, Zenon DEF SchedInv
  <2>2. h # None => h \in Sps /\ co.state[h] \in {"BLOCKED", "FAULTED"}
    BY <2>1, NotNone, Zenon DEF Recovers, Settling, Clients, SchedInv, LinkedOK, Coroutines,
       CoStates, Core, WaitersOK, RunningOK
  <2>3. CoReleased(p) = Woken(co, h) /\ LocksReleased(p).holder = h
    BY <1>2, LocksReleasedFacts, Zenon DEF CoReleased, SchedInv
  <2> HIDE DEF h
  <2>4. LinkedOK(co) /\ co.latched = {}
    BY Zenon DEF SchedInv, Core, WaitersOK
  <2>5. QED BY <1>2, <2>1, <2>2, <2>3, <2>4, WokenFacts
<1>3. QED BY <1>1, <1>2, Zenon

\* What RestOK needs of wt_ffm_partition_restarted.
LEMMA FailMessagesType ==
    ASSUME RestOK, NEW p \in Sps, FailMessages(p)
    PROVE  /\ queued' \in [Sps -> SUBSET Clients] /\ active' \in [Sps -> SUBSET Clients]
           /\ done' \subseteq Clients
BY Zenon DEF RestOK, FailMessages

\* wt_sp_recovery_run that restarts the partition.
LEMMA RecoverStep ==
    ASSUME SchedInv, NEW p \in Sps, NEW over \in BOOLEAN, Recover(p, over)
    PROVE  SchedInv'
<1> DEFINE r == CoReleased(p)
           m == LocksReleased(p)
<1>1. /\ Recovers(p) /\ mutex' = m /\ co' = Rearmed(r, p) /\ pending' = pending \ {p}
      /\ kind' = [kind EXCEPT ![p] = "NONE"] /\ current' = current /\ disp' = disp
      /\ inside' = inside
  BY Zenon DEF Recover
<1>2. /\ p \in pending /\ current = None /\ disp.at \in {"settle", "resettle"}
      /\ p \notin inside /\ co.state[p] = "FAULTED"
  BY <1>1, Zenon DEF Recovers, Settling, SchedInv, Core, LiveInside, DeadIsPending
<1>3. /\ LinkedOK(r) /\ r.latched = {}
      /\ \A q \in Sps : r.state[q] =
            IF q = m.holder /\ mutex.holder = p /\ co.state[q] = "BLOCKED"
            THEN "RUNNABLE" ELSE co.state[q]
  BY <1>1, ReleasedFacts, Zenon
<1>4. /\ LockOK(m) /\ m.holder # p
      /\ m.holder = IF mutex.holder = p THEN Heir(mutex) ELSE mutex.holder
      /\ \A x \in Clients : On(m.waitq, x) => On(mutex.waitq, x) /\ x # p
  BY LocksReleasedFacts, Zenon DEF SchedInv
<1> HIDE DEF r, m
<1>5. /\ LinkedOK(co') /\ co'.latched = {}
      /\ \A q \in Sps : co'.state[q] = IF q = p THEN "BLOCKED" ELSE r.state[q]
  BY <1>1, <1>3, RearmedFacts
<1>6. RunningOK /\ DeadIsPending /\ HeirAwake /\ WaitersOK /\ Exclusion /\ LiveInside
      /\ LockOK(mutex) /\ kind \in [Sps -> {"NONE", "SIG", "MSG", "LOCK"}]
  BY Zenon DEF SchedInv, Core, RestOK
<1>7. RunningOK' /\ DeadIsPending'
  <2>1. RunningOK'
    BY <1>1, <1>2, <1>3, <1>5, <1>6, NotNone DEF RunningOK
  <2>2. DeadIsPending'
    BY <1>1, <1>2, <1>3, <1>5, <1>6 DEF DeadIsPending
  <2>3. QED BY <2>1, <2>2, Zenon
<1>8. HeirAwake' /\ WaitersOK'
  <2>1. HeirAwake'
    BY <1>1, <1>3, <1>4, <1>5, <1>6 DEF HeirAwake
  <2>2. WaitersOK'
    BY <1>1, <1>3, <1>4, <1>5, <1>6, NotNone DEF WaitersOK, LockOK
  <2>3. QED BY <2>1, <2>2, Zenon
<1>9. Exclusion' /\ LiveInside'
  BY <1>1, <1>2, <1>4, <1>6, Zenon DEF Exclusion, LiveInside
<1>10. RestOK'
  <2>1. restarts' \in [Sps -> 0 .. RestartLimit]
    BY SchedConstants DEF Recover, InBudget, Counted, SchedInv, RestOK
  <2>2. QED BY <1>1, <2>1, FailMessagesType, Zenon DEF Recover, SchedInv, RestOK
<1>11. QED BY <1>1, <1>4, <1>5, <1>7, <1>8, <1>9, <1>10, Zenon DEF SchedInv, Core

\* wt_sp_recovery_run that gives the partition, and the platform, up.
LEMMA EscalateStep ==
    ASSUME SchedInv, NEW p \in Sps, Escalate(p) PROVE SchedInv'
<1> DEFINE m == LocksReleased(p)
<1>1. /\ Recovers(p) /\ mutex' = m /\ co' = CoReleased(p) /\ pending' = pending \ {p}
      /\ kind' = kind /\ current' = current /\ disp' = At("halted") /\ inside' = inside
  BY Zenon DEF Escalate
<1>2. /\ p \in pending /\ current = None /\ p \notin inside /\ disp \in Dispatch
  BY <1>1, Zenon DEF Recovers, Settling, SchedInv, Core, LiveInside, RestOK
<1>3. /\ LinkedOK(co') /\ co'.latched = {}
      /\ \A q \in Sps : co'.state[q] =
            IF q = m.holder /\ mutex.holder = p /\ co.state[q] = "BLOCKED"
            THEN "RUNNABLE" ELSE co.state[q]
  BY <1>1, ReleasedFacts, Zenon
<1>4. /\ LockOK(m) /\ m.holder # p
      /\ m.holder = IF mutex.holder = p THEN Heir(mutex) ELSE mutex.holder
      /\ \A x \in Clients : On(m.waitq, x) => On(mutex.waitq, x) /\ x # p
  BY LocksReleasedFacts, Zenon DEF SchedInv
<1> HIDE DEF m
<1>5. disp' \in Dispatch /\ disp'.at = "halted"
  BY <1>1, <1>2, AtType, Zenon
<1>6. RunningOK /\ DeadIsPending /\ HeirAwake /\ WaitersOK /\ Exclusion /\ LiveInside
      /\ LockOK(mutex)
  BY Zenon DEF SchedInv, Core
<1>7. RunningOK' /\ DeadIsPending'
  <2>1. RunningOK'
    BY <1>1, <1>2, <1>3, <1>5, <1>6 DEF RunningOK
  <2>2. DeadIsPending'
    BY <1>1, <1>3, <1>5, <1>6, Zenon DEF DeadIsPending
  <2>3. QED BY <2>1, <2>2, Zenon
<1>8. HeirAwake' /\ WaitersOK'
  <2>1. HeirAwake'
    BY <1>1, <1>3, <1>4, <1>6, Zenon DEF HeirAwake
  <2>2. WaitersOK'
    BY <1>1, <1>3, <1>4, <1>6, NotNone, Zenon DEF WaitersOK, LockOK
  <2>3. QED BY <2>1, <2>2, Zenon
<1>9. Exclusion' /\ LiveInside'
  BY <1>1, <1>2, <1>4, <1>6, Zenon DEF Exclusion, LiveInside
<1>10. RestOK'
  <2>1. RestOK /\ FailMessages(p) /\ restarts' = restarts
    BY Zenon DEF Escalate, SchedInv
  <2>2. QED BY <1>1, <1>5, <2>1, FailMessagesType, Zenon DEF RestOK
<1>11. QED BY <1>1, <1>3, <1>4, <1>7, <1>8, <1>9, <1>10, Zenon DEF SchedInv, Core

-----------------------------------------------------------------------------
(* The theorems about the scheduler of Secure Partitions: the dispatch loop
   keeps the scheduling invariant, and a partition blocked in a call has a
   server that will answer it, through restarts and dispatches. *)

-----------------------------------------------------------------------------
(* The dispatch loop *)

\* wt_spm_run_co inside the loop.
LEMMA RunStep ==
    ASSUME SchedInv, RestOK', NEW p \in Sps, RunCo(p), co.state[p] # "FAULTED",
           current = None, disp'.at \in {"first", "scan"}, disp'.target \in Sps,
           disp.at # "halted",
           mutex' = mutex, kind' = kind, pending' = pending, inside' = inside
    PROVE  SchedInv'
<1>1. /\ LinkedOK(co') /\ current' = p /\ co'.latched = {}
      /\ \A q \in Sps : co'.state[q] = IF q = p THEN "RUNNING" ELSE co.state[q]
  BY RunCoFacts, Zenon DEF SchedInv, Core, WaitersOK
<1>2. RunningOK /\ DeadIsPending /\ HeirAwake /\ WaitersOK /\ Exclusion /\ LiveInside
      /\ LockOK(mutex)
  BY Zenon DEF SchedInv, Core
<1>3. RunningOK' /\ DeadIsPending'
  BY <1>1, <1>2, NotNone DEF RunningOK, DeadIsPending
<1>4. HeirAwake' /\ WaitersOK' /\ Exclusion' /\ LiveInside'
  BY <1>1, <1>2 DEF HeirAwake, WaitersOK, Exclusion, LiveInside
<1>5. QED BY <1>1, <1>2, <1>3, <1>4, Zenon DEF SchedInv, Core

\* A dispatch that returns, successfully or not.
LEMMA ReturnStep ==
    ASSUME SchedInv, NEW a \in {"idle", "failed"}, Return(a),
           current = None, disp.at \in {"settle", "scan"},
           UNCHANGED <<co, current, kind, mutex, pending, restarts, inside>>
    PROVE  SchedInv'
<1>1. disp' \in Dispatch /\ disp'.at = a
  BY AtType, Zenon DEF Return, SchedInv, RestOK
<1>2. RestOK'
  BY <1>1, Zenon DEF Return, SchedInv, RestOK
<1>3. QED BY <1>1, <1>2, LoopStep, Zenon

\* The steps of wt_spm_sched_dispatch, recovery excepted.
LEMMA DispatchStep ==
    ASSUME SchedInv,
           \/ Settled \/ FirstRan \/ PassStart \/ PassEnd \/ GiveUp \/ Quiesced
           \/ \E p \in Sps : ScanRun(p) \/ Post(p)
    PROVE  SchedInv'
<1>1. disp \in Dispatch
  BY Zenon DEF SchedInv, RestOK
<1>2. disp.at \in {"settle", "first", "resettle", "scan"} => disp.target \in Sps
  BY Zenon DEF SchedInv, Core, RunningOK
<1>3. CASE Settled
  <2>1. current = None /\ disp.at = "settle" /\ disp.target \in Sps
    BY <1>2, <1>3, Zenon DEF Settled, Settling
  <2>2. CASE co.state[disp.target] = "FAULTED"
    BY <1>3, <2>1, <2>2, ReturnStep, Zenon DEF Settled
  <2>3. CASE co.state[disp.target] # "FAULTED"
    <3>1. /\ RunCo(disp.target) /\ disp' = At("first")
          /\ UNCHANGED <<queued, active, done, kind, mutex, pending, restarts, inside>>
      BY <1>3, <2>3, Zenon DEF Settled, reqVars
    <3>2. disp' \in Dispatch /\ disp'.at = "first" /\ disp'.target \in Sps
      BY <1>1, <2>1, <3>1, AtType, Zenon
    <3>3. RestOK'
      BY <2>1, <3>1, <3>2, NotNone, Zenon DEF RunCo, SchedInv, RestOK
    <3>4. QED BY <2>1, <2>3, <3>1, <3>2, <3>3, RunStep, Zenon
  <2>4. QED BY <2>2, <2>3, Zenon
<1>4. CASE FirstRan \/ PassStart
  <2>1. PICK a \in {"resettle", "scan"} : disp' = At(a)
    BY <1>4, Zenon DEF FirstRan, PassStart
  <2>2. /\ current = None /\ disp.at \in {"first", "resettle"}
        /\ UNCHANGED <<co, current, kind, mutex, queued, active, done, pending,
                       restarts, inside>>
    BY <1>4, Zenon DEF FirstRan, PassStart, Settling, reqVars
  <2>3. disp' \in Dispatch /\ disp'.at = a /\ disp'.target \in Sps
    BY <1>1, <1>2, <2>1, <2>2, AtType, Zenon
  <2>4. RestOK'
    BY <2>2, <2>3, Zenon DEF SchedInv, RestOK
  <2>5. QED BY <2>2, <2>3, <2>4, LoopStep, Zenon
<1>5. CASE PassEnd
  <2>1. /\ current = None /\ disp.at = "scan" /\ disp.passes < PassLimit
        /\ UNCHANGED <<co, current, kind, mutex, queued, active, done, pending,
                       restarts, inside>>
    BY <1>5, Zenon DEF PassEnd, ScanDone, reqVars
  <2>2. disp' \in Dispatch /\ disp'.at = "resettle" /\ disp'.target = disp.target
    BY <1>1, <1>5, <2>1, SchedConstants DEF PassEnd, NextPass, Dispatch
  <2>3. RestOK'
    BY <2>1, <2>2, Zenon DEF SchedInv, RestOK
  <2>4. QED BY <1>2, <2>1, <2>2, <2>3, LoopStep, Zenon
<1>6. CASE GiveUp \/ Quiesced
  <2>1. /\ current = None /\ disp.at = "scan"
        /\ UNCHANGED <<co, current, kind, mutex, pending, restarts, inside>>
    BY <1>6, Zenon DEF GiveUp, Quiesced, ScanDone
  <2>2. CASE \E a \in {"idle", "failed"} : Return(a)
    BY <2>1, <2>2, ReturnStep, Zenon
  <2>3. CASE disp' = At("halted") /\ UNCHANGED reqVars
    <3>1. disp' \in Dispatch /\ disp'.at = "halted"
      BY <1>1, <2>3, AtType, Zenon
    <3>2. RestOK'
      BY <2>1, <2>3, <3>1, Zenon DEF SchedInv, RestOK, reqVars
    <3>3. QED BY <2>1, <3>1, <3>2, LoopStep, Zenon
  <2>4. QED BY <1>6, <2>2, <2>3, Zenon DEF GiveUp, Quiesced
<1>7. ASSUME NEW p \in Sps, ScanRun(p) PROVE SchedInv'
  <2>1. /\ current = None /\ disp.at = "scan" /\ RunCo(p) /\ co.state[p] # "FAULTED"
        /\ UNCHANGED <<queued, active, done, kind, mutex, pending, restarts, inside>>
    BY <1>7, Zenon DEF ScanRun, Runnable, reqVars
  <2>2. disp' \in Dispatch /\ disp'.at = "scan" /\ disp'.target = disp.target
    BY <1>1, <1>7, SchedConstants DEF ScanRun, Dispatch, Sps
  <2>3. RestOK'
    BY <2>1, <2>2, NotNone, Zenon DEF RunCo, SchedInv, RestOK
  <2>4. QED BY <1>2, <2>1, <2>2, <2>3, RunStep, Zenon
<1>8. ASSUME NEW p \in Sps, Post(p) PROVE SchedInv'
  <2>1. /\ disp.at \in {"idle", "failed"} /\ current = None
        /\ UNCHANGED <<co, current, kind, mutex, active, done, pending, restarts, inside>>
    BY <1>8, Zenon DEF Post, SchedInv, Core, RunningOK
  <2>2. disp' \in Dispatch /\ disp'.at = "settle" /\ disp'.target = p
    BY <1>8, NotNone, SchedConstants DEF Post, Dispatch
  <2>3. RestOK'
    BY <1>8, <2>1, <2>2, NotNone DEF Post, SchedInv, RestOK
  <2>4. QED BY <2>1, <2>2, <2>3, LoopStep, Zenon
<1>9. QED BY <1>3, <1>4, <1>5, <1>6, <1>7, <1>8, Zenon

\* Every step of the dispatch loop and of the partitions keeps SchedInv.
LEMMA NextSched == SchedInv /\ [Next]_vars => SchedInv'
<1> SUFFICES ASSUME SchedInv, [Next]_vars PROVE SchedInv'
  BY Zenon
<1>1. CASE UNCHANGED vars
  BY <1>1, Zenon DEF vars, reqVars, SchedInv, RestOK, Core, RunningOK, DeadIsPending,
     HeirAwake, WaitersOK, Exclusion, LiveInside
<1>2. CASE Loop
  BY <1>2, DispatchStep, RecoverStep, EscalateStep, Zenon DEF Loop
<1>3. CASE Halted
  BY <1>1, <1>3, Zenon DEF Halted
<1>4. ASSUME NEW p \in Sps, Post(p) PROVE SchedInv'
  BY <1>4, DispatchStep, Zenon
<1>5. ASSUME NEW p \in Sps, PartitionStep(p) PROVE SchedInv'
  BY <1>5, ServeStep, YieldStep, LockTakeStep, LockBlocksStep, LockReleaseStep,
     FaultStep, Zenon DEF PartitionStep, Yields
<1>6. QED BY <1>1, <1>2, <1>3, <1>4, <1>5, Zenon DEF Next

\* The inductive invariant of scheduling, recovery and the lock holds always.
THEOREM SchedSafe == Spec => []SchedInv
BY InitSched, NextSched, PTL DEF Spec

\* The NVM lock excludes, whoever queues for it, faults with it or in its queue:
\* mutex.c and the recovery of spm_gate_core.c never let two partitions in.
THEOREM LockExcludes == Spec => []Exclusion
<1>1. SchedInv => Exclusion
  BY Zenon DEF SchedInv, Core
<1>2. QED BY <1>1, SchedSafe, PTL

\* Every variable keeps its type; restart_count never passes its limit.
THEOREM SchedTypes == Spec => []TypeOK
<1>1. SchedInv => TypeOK
  BY Zenon DEF SchedInv, LinkedOK, LockOK, RestOK, TypeOK
<1>2. QED BY <1>1, SchedSafe, PTL

\* The wait queue of the lock and the run queue stay well formed through every
\* order of wake, run, fault, hand-over and re-arm.
THEOREM QueuesLinked == Spec => []QueuesOK
<1>1. SchedInv => QueuesOK
  BY Zenon DEF SchedInv, LinkedOK, LockOK, WaitqOK, RunqOK, QueuesOK
<1>2. QED BY <1>1, SchedSafe, PTL

\* A dead partition is always one the dispatch loop still has to repair, and the
\* partition that was handed the lock is never left asleep.
THEOREM DeadAndHeirs == Spec => [](DeadIsPending /\ HeirAwake)
<1>1. SchedInv => DeadIsPending /\ HeirAwake
  BY Zenon DEF SchedInv, Core
<1>2. QED BY <1>1, SchedSafe, PTL

\* The lock and the lists of coroutine.c and mutex.c survive every fault and
\* every order of wake-ups: the four results above as one invariant.
THEOREM LockSound == Spec => []LockSurvives
BY SchedTypes, LockExcludes, QueuesLinked, DeadAndHeirs, PTL DEF LockSurvives

-----------------------------------------------------------------------------
(* The requests of partitions *)

\* p has a request with q.
With(p, q) == p \in queued[q] \/ p \in active[q]

\* A partition has at most one request, in one place, and only while it waits.
ReqOK ==
    \A p \in Sps :
        /\ p \in done => kind[p] = "MSG" /\ \A q \in Sps : ~With(p, q)
        /\ \A q \in Sps : With(p, q) =>
              /\ kind[p] = "MSG" /\ ~(p \in queued[q] /\ p \in active[q])
              /\ \A r \in Sps : With(p, r) => r = q

\* ClientHasServer, with the abbreviation.
Served ==
    disp.at # "halted" => \A p \in Sps : kind[p] = "MSG" /\ p \notin pending =>
        p \in done \/ \E q \in Sps : With(p, q)

\* Nothing ran in a pass that made no progress so far.
ScanOK == disp.at = "scan" /\ ~disp.progressed =>
              pending = {} /\ disp.next = 1 /\ current = None

ReqInv == ReqOK /\ Served /\ ScanOK /\ QuietWhenIdle

\* Nobody has a request at boot.
LEMMA InitReq == Init => ReqInv
<1> SUFFICES ASSUME Init PROVE ReqInv
  BY Zenon
<1>1. /\ co.state = [p \in Sps |-> "BLOCKED"] /\ co.runq = <<>> /\ disp.at = "idle"
  BY Zenon DEF Init
<1>2. QED BY <1>1, Zenon DEF Init, ReqInv, ReqOK, With, Served, ScanOK, QuietWhenIdle

\* A step of the running partition happens inside a dispatch that progressed.
LEMMA PartitionQuiet ==
    ASSUME SchedInv, ReqInv, NEW p \in Sps, current = p, disp' = disp
    PROVE  ScanOK' /\ QuietWhenIdle' /\ disp'.at # "halted"
<1>1. disp.at \in {"first", "scan"} /\ current # None
  BY RunningFacts, NotNone, Zenon
<1>2. QED BY <1>1, Zenon DEF ReqInv, ScanOK, QuietWhenIdle

\* Steps that leave every request alone and let nobody start or stop waiting.
LEMMA RequestsAlone ==
    ASSUME SchedInv, ReqInv, UNCHANGED <<queued, active, done>>,
           \A q \in Sps : kind'[q] = "MSG" <=> kind[q] = "MSG",
           pending \subseteq pending', disp.at # "halted"
    PROVE  ReqOK' /\ Served'
BY DEF ReqInv, ReqOK, Served, With

\* The gated calls and the fault of a partition keep ReqInv.
LEMMA PartitionReq ==
    ASSUME SchedInv, ReqInv, NEW p \in Sps, PartitionStep(p)
    PROVE  ReqInv'
<1>1. current = p /\ disp' = disp
  BY Zenon DEF PartitionStep, Yields, WaitBlocks, CallStill, LockBlocks, Call, WaitReady,
     CallFinish, Get, Reply, LockTake, LockRelease, Fault
<1>2. ScanOK' /\ QuietWhenIdle' /\ disp'.at # "halted" /\ disp.at # "halted"
  BY <1>1, PartitionQuiet, Zenon
<1>3. kind \in [Sps -> {"NONE", "SIG", "MSG", "LOCK"}]
      /\ queued \in [Sps -> SUBSET Clients] /\ active \in [Sps -> SUBSET Clients]
  BY Zenon DEF SchedInv, RestOK
<1>4. CASE \/ WaitBlocks(p) \/ CallStill(p) \/ LockBlocks(p) \/ WaitReady(p)
           \/ LockTake(p) \/ LockRelease(p) \/ Fault(p)
  <2>1. /\ UNCHANGED <<queued, active, done>> /\ pending \subseteq pending'
        /\ \A q \in Sps : kind'[q] = "MSG" <=> kind[q] = "MSG"
    BY <1>3, <1>4, Zenon DEF WaitBlocks, CallStill, LockBlocks, WaitReady, LockTake,
       LockRelease, Fault, reqVars
  <2>2. QED BY <1>2, <2>1, RequestsAlone, Zenon DEF ReqInv
<1>5. ASSUME NEW c \in Clients, Get(p, c) PROVE ReqInv'
  <2>1. UNCHANGED <<kind, done, pending>> /\ c \in queued[p]
    BY <1>5, Zenon DEF Get
  <2>2. \A x, q \in Sps : x \in queued'[q] <=> x \in queued[q] /\ ~(q = p /\ x = c)
    BY <1>3, <1>5, Zenon DEF Get
  <2>3. \A x, q \in Sps : x \in active'[q] <=> x \in active[q] \/ (q = p /\ x = c)
    BY <1>3, <1>5, Zenon DEF Get
  <2>4. \A x, q \in Sps : With(x, q)' <=> With(x, q)
    BY <2>1, <2>2, <2>3, Zenon DEF With
  <2>5. ReqOK'
    BY <2>1, <2>4, <2>2, <2>3 DEF ReqInv, ReqOK
  <2>6. Served'
    BY <1>2, <2>1, <2>4, Zenon DEF ReqInv, Served
  <2>7. QED BY <1>2, <2>5, <2>6, Zenon DEF ReqInv
<1>6. ASSUME NEW c \in Clients, Reply(p, c) PROVE ReqInv'
  <2>1. /\ UNCHANGED <<kind, queued, pending>> /\ done' = done \cup {c}
        /\ c \in active[p]
    BY <1>6, Zenon DEF Reply
  <2>2. \A x, q \in Sps : x \in active'[q] <=> x \in active[q] /\ ~(q = p /\ x = c)
    BY <1>3, <1>6, Zenon DEF Reply
  <2>3. c \in Sps => With(c, p) /\ kind[c] = "MSG" /\ c \notin queued[p]
    BY <2>1, Zenon DEF ReqInv, ReqOK, With
  <2>4. \A x, q \in Sps : With(x, q) /\ x = c => q = p
    BY <2>3 DEF ReqInv, ReqOK
  <2>5. \A x, q \in Sps : With(x, q)' <=> With(x, q) /\ x # c
    BY <2>1, <2>2, <2>3, <2>4, Zenon DEF With
  <2>6. ReqOK'
    BY <2>1, <2>5, <2>2, <2>3 DEF ReqInv, ReqOK
  <2>7. Served'
    BY <1>2, <2>1, <2>5, Zenon DEF ReqInv, Served
  <2>8. QED BY <1>2, <2>6, <2>7, Zenon DEF ReqInv
<1>7. ASSUME NEW r \in Sps, Call(p, r) PROVE ReqInv'
  <2>1. /\ UNCHANGED <<active, done, pending>> /\ kind[p] = "NONE"
        /\ \A q \in Sps : kind'[q] = IF q = p THEN "MSG" ELSE kind[q]
    BY <1>3, <1>7, Zenon DEF Call
  <2>2. \A x, q \in Sps : x \in queued'[q] <=> x \in queued[q] \/ (q = r /\ x = p)
    BY <1>3, <1>7, Zenon DEF Call
  <2>3. /\ p \notin done /\ \A q \in Sps : ~With(p, q)
    BY <2>1, Zenon DEF ReqInv, ReqOK
  <2>4. \A x, q \in Sps : With(x, q)' <=> With(x, q) \/ (x = p /\ q = r)
    BY <2>1, <2>2, Zenon DEF With
  <2>5. ~(p \in active[r])
    BY <2>3, Zenon DEF With
  <2>6. ReqOK'
    BY <2>1, <2>3, <2>4, <2>2, <2>5 DEF ReqInv, ReqOK
  <2>7. Served'
    BY <1>2, <2>1, <2>4, Zenon DEF ReqInv, Served
  <2>8. QED BY <1>2, <2>6, <2>7, Zenon DEF ReqInv
<1>8. CASE CallFinish(p)
  <2>1. /\ UNCHANGED <<active, queued, pending>> /\ p \in done /\ done' = done \ {p}
        /\ \A q \in Sps : kind'[q] = IF q = p THEN "NONE" ELSE kind[q]
    BY <1>3, <1>8, Zenon DEF CallFinish
  <2>2. \A x, q \in Sps : With(x, q)' <=> With(x, q)
    BY <2>1, Zenon DEF With
  <2>3. ReqOK'
    BY <2>1, <2>2 DEF ReqInv, ReqOK, With
  <2>4. Served'
    BY <1>2, <2>1, <2>2, Zenon DEF ReqInv, Served
  <2>5. QED BY <1>2, <2>3, <2>4, Zenon DEF ReqInv
<1>9. QED BY <1>4, <1>5, <1>6, <1>7, <1>8, Zenon DEF PartitionStep, Yields

\* wt_ffm_partition_restarted, seen from the clients: who was served by p has its
\* answer, p itself has no request any more.
LEMMA FailedFacts ==
    ASSUME SchedInv, NEW p \in Sps, FailMessages(p)
    PROVE  /\ \A x, q \in Sps : With(x, q)' <=> With(x, q) /\ q # p /\ x # p
           /\ \A x, q \in Sps : x \in queued'[q] => x \in queued[q]
           /\ \A x, q \in Sps : x \in active'[q] => x \in active[q]
           /\ \A x \in Sps : x \in done' <=> (x \in done \/ With(x, p)) /\ x # p
<1>1. \A x, q \in Sps : x \in queued'[q] <=> x \in queued[q] /\ q # p /\ x # p
  BY Zenon DEF FailMessages
<1>2. \A x, q \in Sps : x \in active'[q] <=> x \in active[q] /\ q # p /\ x # p
  BY Zenon DEF FailMessages
<1>3. \A x \in Sps : x \in done' <=> (x \in done \/ With(x, p)) /\ x # p
  BY Zenon DEF FailMessages, With
<1>4. QED BY <1>1, <1>2, <1>3, Zenon DEF With

\* The recovery of a dead partition keeps ReqInv.
LEMMA RecoverReq ==
    ASSUME SchedInv, ReqInv, NEW p \in Sps,
           Escalate(p) \/ \E over \in BOOLEAN : Recover(p, over)
    PROVE  ReqInv'
<1>1. /\ Recovers(p) /\ FailMessages(p) /\ pending' = pending \ {p}
      /\ \A q \in Sps : q # p => kind'[q] = kind[q]
      /\ (disp' = disp /\ kind'[p] = "NONE") \/ disp' = At("halted")
  BY Zenon DEF Escalate, Recover, SchedInv, RestOK
<1>2. /\ disp.at \in {"settle", "resettle"} /\ disp'.at \notin {"idle", "scan"}
      /\ (disp' = disp /\ kind'[p] = "NONE") \/ disp'.at = "halted"
  BY <1>1, AtType, Zenon DEF Recovers, Settling, SchedInv, RestOK
<1>3. ReqOK'
  BY <1>1, FailedFacts DEF ReqInv, ReqOK
<1>4. Served'
  BY <1>1, <1>2, FailedFacts DEF ReqInv, Served
<1>5. ScanOK' /\ QuietWhenIdle'
  BY <1>2, Zenon DEF ScanOK, QuietWhenIdle
<1>6. QED BY <1>3, <1>4, <1>5, Zenon DEF ReqInv

\* A dispatch that returns withdraws the guest's request, no partition's.
LEMMA ReturnReq ==
    ASSUME SchedInv, ReqInv, NEW a \in {"idle", "failed"}, Return(a),
           disp.at \in {"settle", "scan"}, UNCHANGED <<kind, pending>>
    PROVE  /\ ReqOK' /\ Served' /\ disp'.at = a
           /\ \A q \in Sps : queued'[q] \subseteq queued[q]
           /\ done' \subseteq done
<1>1. disp'.at = a
  BY AtType, Zenon DEF Return, SchedInv, RestOK
<1>2. /\ queued \in [Sps -> SUBSET Clients] /\ active \in [Sps -> SUBSET Clients]
      /\ disp.target \in Sps
  BY Zenon DEF SchedInv, RestOK, Core, RunningOK
<1>3. \A x, q \in Sps : x \in queued'[q] <=> x \in queued[q]
  BY <1>2, NotNone, Zenon DEF Return
<1>4. \A x, q \in Sps : x \in active'[q] <=> x \in active[q]
  BY <1>2, NotNone, Zenon DEF Return
<1>5. \A x \in Sps : x \in done' <=> x \in done
  BY NotNone, Zenon DEF Return
<1>6. \A x, q \in Sps : With(x, q)' <=> With(x, q)
  BY <1>3, <1>4, Zenon DEF With
<1>7. ReqOK' /\ Served'
  BY <1>1, <1>3, <1>4, <1>5, <1>6, Zenon DEF ReqInv, ReqOK, Served
<1>8. \A q \in Sps : queued'[q] \subseteq queued[q]
  BY <1>2, Zenon DEF Return
<1>9. QED BY <1>1, <1>7, <1>8, Zenon DEF Return

\* A pass without progress over partitions that are all alive: nothing is left.
LEMMA QuiescedQuiet ==
    ASSUME SchedInv, ReqInv, Quiesced PROVE QuietWhenIdle'
<1>1. /\ disp.at = "scan" /\ current = None /\ pending = {} /\ disp.next = 1
      /\ UNCHANGED <<co, kind, pending>>
  BY Zenon DEF Quiesced, ScanDone, ReqInv, ScanOK
<1>2. \A p \in Sps : ~Runnable(p)
  BY <1>1, Zenon DEF Quiesced, ScanDone, Sps
<1>3. \A p \in Sps : co.state[p] = "BLOCKED" /\ ~Ready(p)
  BY <1>1, <1>2, NotNone, Zenon DEF Runnable, SchedInv, LinkedOK, Coroutines, CoStates, Core,
     RunningOK, DeadIsPending
<1>4. \A p \in Sps : ~On(co.runq, p)
  BY <1>3, Zenon DEF SchedInv, LinkedOK
<1>5. co.runq = <<>>
  BY <1>4 DEF SchedInv, LinkedOK, Coroutines, On
<1>6. \A p \in Sps : p \notin done /\ (kind[p] \in {"NONE", "SIG"} => queued[p] = {})
  BY <1>3, Zenon DEF Ready, ReqInv, ReqOK
<1>7. PICK a \in {"idle", "failed"} : Return(a)
  BY Zenon DEF Quiesced
<1>8. (\A q \in Sps : queued'[q] \subseteq queued[q]) /\ done' \subseteq done
  BY <1>1, <1>7, ReturnReq, Zenon
<1>9. QED BY <1>1, <1>3, <1>5, <1>6, <1>8, Zenon DEF QuietWhenIdle

\* The dispatch loop keeps ReqInv.
LEMMA DispatchReq ==
    ASSUME SchedInv, ReqInv,
           \/ Settled \/ FirstRan \/ PassStart \/ PassEnd \/ GiveUp \/ Quiesced
           \/ \E p \in Sps : ScanRun(p) \/ Post(p)
    PROVE  ReqInv'
<1>1. disp \in Dispatch
  BY Zenon DEF SchedInv, RestOK
<1> DEFINE Traps == GiveUp /\ disp' = At("halted") /\ UNCHANGED reqVars
<1>2. CASE (GiveUp /\ ~Traps) \/ Quiesced \/ (Settled /\ co.state[disp.target] = "FAULTED")
  <2>1. PICK a \in {"idle", "failed"} : Return(a)
    BY <1>2, Zenon DEF GiveUp, Quiesced, Settled
  <2>2. disp.at \in {"settle", "scan"} /\ UNCHANGED <<kind, pending>>
    BY <1>2, Zenon DEF GiveUp, Quiesced, Settled, ScanDone
  <2>3. ReqOK' /\ Served' /\ disp'.at = a
    BY <2>1, <2>2, ReturnReq, Zenon
  <2>4. QuietWhenIdle'
    <3>1. CASE Quiesced
      BY <3>1, QuiescedQuiet, Zenon
    <3>2. CASE ~Quiesced
      <4>1. Return("failed")
        BY <1>2, <3>2, Zenon DEF GiveUp, Settled
      <4>2. disp' = At("failed")
        BY <4>1, Zenon DEF Return
      <4>3. disp'.at = "failed"
        BY <1>1, <4>2, AtType, Zenon
      <4>4. QED BY <4>3, Zenon DEF QuietWhenIdle
    <3>3. QED BY <3>1, <3>2, Zenon
  <2>5. QED BY <2>3, <2>4, Zenon DEF ReqInv, ScanOK
<1>3. CASE Settled /\ co.state[disp.target] # "FAULTED"
  <2>1. /\ UNCHANGED <<queued, active, done, kind, pending>> /\ disp.at = "settle"
        /\ disp' = At("first")
    BY <1>3, Zenon DEF Settled, reqVars
  <2>2. disp'.at = "first"
    BY <1>1, <2>1, AtType, Zenon
  <2>3. ReqOK' /\ Served'
    BY <2>1, <2>2, RequestsAlone, Zenon
  <2>4. QED BY <2>1, <2>2, <2>3, Zenon DEF ReqInv, ScanOK, QuietWhenIdle
<1>4. CASE FirstRan
  <2>1. /\ UNCHANGED <<queued, active, done, kind, pending>> /\ disp.at = "first"
        /\ disp' = At("resettle")
    BY <1>4, Zenon DEF FirstRan, reqVars
  <2>2. disp'.at = "resettle"
    BY <1>1, <2>1, AtType, Zenon
  <2>3. ReqOK' /\ Served'
    BY <2>1, <2>2, RequestsAlone, Zenon
  <2>4. QED BY <2>1, <2>2, <2>3, Zenon DEF ReqInv, ScanOK, QuietWhenIdle
<1>5. CASE PassStart
  <2>1. /\ UNCHANGED <<queued, active, done, kind, pending>> /\ disp.at = "resettle"
        /\ disp' = At("scan") /\ pending = {} /\ current = None /\ current' = current
    BY <1>5, Zenon DEF PassStart, Settling, reqVars
  <2>2. disp'.at = "scan" /\ disp'.next = 1
    BY <1>1, <2>1, AtType, Zenon
  <2>3. ReqOK' /\ Served'
    BY <2>1, <2>2, RequestsAlone, Zenon
  <2>4. QED BY <2>1, <2>2, <2>3, Zenon DEF ReqInv, ScanOK, QuietWhenIdle
<1>6. CASE PassEnd
  <2>1. /\ UNCHANGED <<queued, active, done, kind, pending>> /\ disp.at = "scan"
    BY <1>6, Zenon DEF PassEnd, ScanDone, reqVars
  <2>2. disp'.at = "resettle"
    BY <1>6, Zenon DEF PassEnd
  <2>3. ReqOK' /\ Served'
    BY <2>1, <2>2, RequestsAlone, Zenon
  <2>4. QED BY <2>1, <2>2, <2>3, Zenon DEF ReqInv, ScanOK, QuietWhenIdle
<1>7. ASSUME NEW p \in Sps, ScanRun(p) PROVE ReqInv'
  <2>1. /\ UNCHANGED <<queued, active, done, kind, pending>> /\ disp.at = "scan"
    BY <1>7, Zenon DEF ScanRun, reqVars
  <2>2. disp'.at = "scan" /\ disp'.progressed = TRUE
    BY <1>7, Zenon DEF ScanRun
  <2>3. ReqOK' /\ Served'
    BY <2>1, <2>2, RequestsAlone, Zenon
  <2>4. QED BY <2>1, <2>2, <2>3, Zenon DEF ReqInv, ScanOK, QuietWhenIdle
<1>8. ASSUME NEW p \in Sps, Post(p) PROVE ReqInv'
  <2>1. /\ UNCHANGED <<active, done, kind, pending>> /\ disp.at \in {"idle", "failed"}
    BY <1>8, Zenon DEF Post
  <2>2. disp'.at = "settle"
    BY <1>8, Zenon DEF Post
  <2>3. \A x, q \in Sps : x \in queued'[q] <=> x \in queued[q]
    BY <1>8, NotNone, Zenon DEF Post, SchedInv, RestOK
  <2>4. \A x, q \in Sps : With(x, q)' <=> With(x, q)
    BY <2>1, <2>3, Zenon DEF With
  <2>5. ReqOK' /\ Served'
    BY <2>1, <2>2, <2>3, <2>4, Zenon DEF ReqInv, ReqOK, Served
  <2>6. QED BY <2>2, <2>5, Zenon DEF ReqInv, ScanOK, QuietWhenIdle
<1>9. CASE Traps
  <2>1. /\ UNCHANGED <<queued, active, done, kind, pending>> /\ disp.at = "scan"
        /\ disp' = At("halted")
    BY <1>9, Zenon DEF GiveUp, ScanDone, reqVars
  <2>2. disp'.at = "halted"
    BY <1>1, <2>1, AtType, Zenon
  <2>3. ReqOK' /\ Served'
    BY <2>1, <2>2, RequestsAlone, Zenon
  <2>4. QED BY <2>1, <2>2, <2>3, Zenon DEF ReqInv, ScanOK, QuietWhenIdle
<1>10. QED BY <1>2, <1>3, <1>4, <1>5, <1>6, <1>7, <1>8, <1>9, Zenon

\* Every step keeps ReqInv.
LEMMA NextReq == SchedInv /\ ReqInv /\ [Next]_vars => ReqInv'
<1> SUFFICES ASSUME SchedInv, ReqInv, [Next]_vars PROVE ReqInv'
  BY Zenon
<1>1. CASE UNCHANGED vars
  BY <1>1 DEF vars, reqVars, ReqInv, ReqOK, With, Served, ScanOK, QuietWhenIdle
<1>2. CASE Loop
  BY <1>2, DispatchReq, RecoverReq, Zenon DEF Loop
<1>3. CASE Halted
  BY <1>1, <1>3, Zenon DEF Halted
<1>4. ASSUME NEW p \in Sps, Post(p) \/ PartitionStep(p) PROVE ReqInv'
  BY <1>4, DispatchReq, PartitionReq, Zenon
<1>5. QED BY <1>1, <1>2, <1>3, <1>4, Zenon DEF Next

\* The inductive invariant of requests holds always.
THEOREM RequestsSafe == Spec => []ReqInv
BY SchedSafe, InitReq, NextReq, PTL DEF Spec

\* The death or restart of a server never leaves its client waiting for nothing.
THEOREM ClientsServed == Spec => []ClientHasServer
<1>1. ReqInv => ClientHasServer
  BY Zenon DEF ReqInv, Served, With, ClientHasServer
<1>2. QED BY <1>1, RequestsSafe, PTL

\* wt_spm_sched_dispatch reports success only when no partition has work left.
THEOREM IdleIsQuiet == Spec => []QuietWhenIdle
<1>1. ReqInv => QuietWhenIdle
  BY Zenon DEF ReqInv
<1>2. QED BY <1>1, RequestsSafe, PTL

\* No client of a dead server and no work of a successful dispatch is forgotten
\* (wt_spm_sched_dispatch and its recovery).
THEOREM NobodyIsForgotten == Spec => []NobodyForgotten
BY ClientsServed, IdleIsQuiet, PTL DEF NobodyForgotten

-----------------------------------------------------------------------------
(* The guest monitor *)

\* Nobody is waiting for a restart before the first guest is entered
\* (wt_monitor_init, wt_schedule_next_guest).
BootOK ==
    mode = "boot" => \A g \in Guest : delay[g] = 0 /\ st[g] \in {"READY", "FAULTED"}

\* A guest that has not been measured a second time has never run: it owns no
\* connection and is not the one that runs (wt_dispatch_guest).
PendingOK == \A g \in firstPending : g \notin owns /\ st[g] # "RUNNING"

\* Within a window of its last restart the wrapped tick difference of g is the
\* time that passed, and no restart since then was forgotten.
BudgetOK ==
    \A g \in Guest :
        /\ guestRestarts[g] > 0 /\ since[g] < Window => Elapsed(g) = since[g]
        /\ burst[g] <= guestRestarts[g]

(***************************************************************************)
(* The inductive invariant.  CrashLoopStops follows from BudgetOK, because *)
(* restart_count never passes the limit; DownOwnsNothing needs PendingOK,  *)
(* for a guest refused at its first dispatch releases no connection, and   *)
(* HaltedOnlyWhenDown needs BootOK, for boot halts without looking for a   *)
(* guest that waits.                                                       *)
(***************************************************************************)
MonitorInv ==
    /\ MonitorTypeOK
    /\ OneRunning
    /\ DownOwnsNothing
    /\ HaltedOnlyWhenDown
    /\ BootOK
    /\ PendingOK
    /\ BudgetOK

-----------------------------------------------------------------------------
(* The tick counter *)

\* What the remainder is below twice the modulus.
LEMMA ModFact ==
    ASSUME NEW m \in Nat \ {0}, NEW x \in Nat, x < m + m
    PROVE  x % m = IF x < m THEN x ELSE x - m
<1>1. x % m \in 0 .. m - 1 /\ x = m * (x \div m) + (x % m) /\ x \div m \in Int
  OBVIOUS
<1> DEFINE q == x \div m
<1>2. q = 0 \/ q = 1
  <2>1. CASE q >= 2
    BY <1>1, <2>1
  <2>2. CASE q <= -1
    BY <1>1, <2>2
  <2> QED BY <1>1, <2>1, <2>2
<1> QED BY <1>1, <1>2

\* The tick difference of the restart policy, without the wrap.
LEMMA ElapsedFact ==
    ASSUME NEW t \in 0 .. TickMod - 1, NEW l \in 0 .. TickMod - 1
    PROVE  (t + TickMod - l) % TickMod = IF t >= l THEN t - l ELSE t + TickMod - l
<1> DEFINE x == t + TickMod - l
<1>1. TickMod \in Nat \ {0} /\ x \in Nat /\ x < TickMod + TickMod
  BY MonitorConstants
<1>2. x % TickMod = IF x < TickMod THEN x ELSE x - TickMod
  <2> HIDE DEF x
  <2> QED BY <1>1, ModFact, Zenon
<1> QED
  BY <1>1, <1>2

\* A tick of the secure timer advances both clocks of a restart by one.
LEMMA TickBudget ==
    ASSUME MonitorTypeOK, BudgetOK, Tick, lastTick' = lastTick, guestRestarts' = guestRestarts,
           burst' = burst
    PROVE  BudgetOK' /\ ticks' \in 0 .. TickMod - 1 /\ since' \in [Guest -> 0 .. Window]
<1>1. TickMod \in Nat \ {0} /\ Window \in 1 .. TickMod - 1
  BY MonitorConstants, Zenon
<1>2. ticks' = IF ticks + 1 < TickMod THEN ticks + 1 ELSE 0
  <2> DEFINE x == ticks + 1
  <2>1. x \in Nat /\ x < TickMod + TickMod /\ ticks \in 0 .. TickMod - 1
    BY <1>1 DEF MonitorTypeOK
  <2>2. x % TickMod = IF x < TickMod THEN x ELSE x - TickMod
    <3> HIDE DEF x
    <3> QED BY <1>1, <2>1, ModFact, Zenon
  <2> QED BY <1>1, <2>1, <2>2 DEF Tick
<1>3. ASSUME NEW g \in Guest, guestRestarts[g] > 0, since'[g] < Window
      PROVE  Elapsed(g)' = since'[g]
  <2>1. since[g] < Window /\ since'[g] = since[g] + 1 /\ since[g] \in 0 .. Window
    BY <1>1, <1>3 DEF Tick, MonitorTypeOK
  <2>2. lastTick[g] \in 0 .. TickMod - 1 /\ ticks \in 0 .. TickMod - 1
        /\ ticks' \in 0 .. TickMod - 1 /\ Elapsed(g) = since[g]
    BY <1>1, <1>2, <1>3, <2>1 DEF MonitorTypeOK, BudgetOK
  <2>3. Elapsed(g) = IF ticks >= lastTick[g] THEN ticks - lastTick[g]
                     ELSE ticks + TickMod - lastTick[g]
    BY <2>2, ElapsedFact, Zenon DEF Elapsed
  <2>4. Elapsed(g)' = IF ticks' >= lastTick[g] THEN ticks' - lastTick[g]
                      ELSE ticks' + TickMod - lastTick[g]
    BY <2>2, ElapsedFact, Zenon DEF Elapsed
  <2> QED BY <1>1, <1>2, <2>1, <2>2, <2>3, <2>4
<1> QED
  BY <1>1, <1>2, <1>3 DEF BudgetOK, MonitorTypeOK, Tick

-----------------------------------------------------------------------------
(* Boot *)

LEMMA GuestFact == Guest \subseteq Nat /\ 0 \in Guest
BY MonitorConstants DEF Guest

LEMMA MonitorInitInv == MonitorInit => MonitorInv
<1> SUFFICES ASSUME MonitorInit PROVE MonitorInv
  BY Zenon
<1>1. MonitorTypeOK
  BY MonitorConstants, GuestFact DEF MonitorInit, MonitorTypeOK
<1>2. OneRunning /\ DownOwnsNothing /\ HaltedOnlyWhenDown /\ BootOK /\ PendingOK
  BY Zenon DEF MonitorInit, OneRunning, DownOwnsNothing, HaltedOnlyWhenDown, BootOK, PendingOK
<1>3. BudgetOK
  BY DEF MonitorInit, BudgetOK
<1> QED BY <1>1, <1>2, <1>3, Zenon DEF MonitorInv

\* wt_monitor_quarantine_guest at boot.
LEMMA QuarantineInv ==
    ASSUME MonitorInv, NEW g \in Guest, Quarantine(g)
    PROVE  MonitorInv'
<1> USE DEF MonitorInv, Quarantine
<1>1. MonitorTypeOK'
  BY Zenon DEF MonitorTypeOK
<1>2. OneRunning' /\ DownOwnsNothing' /\ HaltedOnlyWhenDown' /\ BootOK' /\ PendingOK'
  BY DEF MonitorTypeOK, OneRunning, DownOwnsNothing, HaltedOnlyWhenDown, BootOK, PendingOK
<1>3. BudgetOK'
  BY Zenon DEF BudgetOK, Elapsed
<1> QED BY <1>1, <1>2, <1>3, Zenon

-----------------------------------------------------------------------------
(* Scheduling *)

\* wt_dispatch_guest enters a guest only when none is RUNNING.
LEMMA DispatchInv ==
    ASSUME MonitorInv, NEW g \in Guest, DispatchGuest(g)
    PROVE  MonitorInv'
<1> USE DEF MonitorInv, DispatchGuest, Scheduling
<1>0. passed' \in [Guest -> Nat]
  BY DEF MonitorTypeOK
<1>1. MonitorTypeOK'
  BY <1>0, Zenon DEF MonitorTypeOK
<1>2. OneRunning' /\ HaltedOnlyWhenDown' /\ BootOK'
  BY Zenon DEF MonitorTypeOK, OneRunning, HaltedOnlyWhenDown, BootOK
<1>3. DownOwnsNothing' /\ PendingOK'
  BY Zenon DEF MonitorTypeOK, DownOwnsNothing, PendingOK
<1>4. BudgetOK'
  BY Zenon DEF BudgetOK, Elapsed
<1> QED BY <1>1, <1>2, <1>3, <1>4, Zenon

\* A guest refused at its first dispatch never ran, so nothing needs releasing.
LEMMA DispatchRefusedInv ==
    ASSUME MonitorInv, NEW g \in Guest, DispatchRefused(g)
    PROVE  MonitorInv'
<1> USE DEF MonitorInv, DispatchRefused, Scheduling
<1>1. MonitorTypeOK'
  BY Zenon DEF MonitorTypeOK
<1>2. g \in firstPending
  BY Zenon DEF Remeasured
<1>3. OneRunning' /\ HaltedOnlyWhenDown' /\ BootOK'
  BY Zenon DEF MonitorTypeOK, OneRunning, HaltedOnlyWhenDown, BootOK
<1>4. DownOwnsNothing' /\ PendingOK'
  BY <1>2, Zenon DEF MonitorTypeOK, DownOwnsNothing, PendingOK
<1>5. BudgetOK'
  BY Zenon DEF BudgetOK, Elapsed
<1> QED BY <1>1, <1>3, <1>4, <1>5, Zenon

\* The platform halts at boot only if every guest was refused.
LEMMA IdleInv ==
    ASSUME MonitorInv, Idle
    PROVE  MonitorInv'
<1> USE DEF MonitorInv, Idle, Scheduling
<1>1. MonitorTypeOK'
  BY Zenon DEF MonitorTypeOK
<1>2. HaltedOnlyWhenDown'
  BY Zenon DEF MonitorTypeOK, HaltedOnlyWhenDown, BootOK, AllTerminal, NoneRunnable, GuestRunnable
<1>3. OneRunning' /\ DownOwnsNothing' /\ BootOK' /\ PendingOK'
  BY Zenon DEF OneRunning, DownOwnsNothing, BootOK, PendingOK
<1>4. BudgetOK'
  BY Zenon DEF BudgetOK, Elapsed
<1> QED BY <1>1, <1>2, <1>3, <1>4, Zenon

-----------------------------------------------------------------------------
(* The secure timer *)

\* What wt_tick_restart_backoff, and the save of the preempted guest, leave of
\* the guests' states.
LEMMA BackoffFacts ==
    ASSUME MonitorTypeOK, NEW saved \in BOOLEAN, Backoff(saved)
    PROVE  /\ delay' \in [Guest -> 0 .. Delay]
           /\ st' \in [Guest -> {"READY", "RUNNING", "FAULTED", "RESTARTING"}]
           /\ \A g \in Guest :
                 /\ st'[g] = "RUNNING" <=> st[g] = "RUNNING" /\ ~(saved /\ g = cur)
                 /\ st'[g] \in {"FAULTED", "RESTARTING"} => st[g] \in {"FAULTED", "RESTARTING"}
                 /\ st[g] = "FAULTED" => st'[g] = "FAULTED"
<1>1. delay' \in [Guest -> 0 .. Delay]
  <2>1. \A g \in Guest : delay[g] \in 0 .. Delay /\ Delay \in Nat
    BY MonitorConstants, Zenon DEF MonitorTypeOK
  <2> QED BY <2>1 DEF Backoff
<1>2. \A g \in Guest : st[g] \in {"READY", "RUNNING", "FAULTED", "RESTARTING"}
  BY Zenon DEF MonitorTypeOK
<1>3. \A g \in Guest : st'[g] =
         IF Due(g) THEN IF Verified(g) THEN "READY" ELSE "FAULTED"
         ELSE IF saved /\ g = cur THEN Saved(st[g]) ELSE st[g]
  BY Zenon DEF Backoff
<1>4. st' \in [Guest -> {"READY", "RUNNING", "FAULTED", "RESTARTING"}]
  BY <1>2, Zenon DEF Backoff, Saved
<1> QED
  BY <1>1, <1>2, <1>3, <1>4, Zenon DEF Due, Saved

\* A tick, with or without the back-off, in a guest, one of its handlers, a
\* service or the idle loop.
LEMMA TimerInv ==
    ASSUME MonitorInv, Timer
    PROVE  MonitorInv'
<1>1. /\ Tick
      /\ UNCHANGED <<guestRestarts, lastTick, cur, firstPending, image, owns, engine, burst, passed>>
      /\ mode \in {"guest", "handler", "service", "idle"}
      /\ mode' = IF mode \in {"handler", "service"} THEN mode ELSE "sched"
      /\ (mode # "service" /\ Backoff(mode = "guest")) \/ (mode = "service" /\ Backoff(FALSE))
         \/ (mode = "service" /\ UNCHANGED <<delay, st>>)
  <2>1. CASE TimerInGuest
    BY <2>1, Zenon DEF TimerInGuest
  <2>2. CASE TimerInHandler
    BY <2>2, Zenon DEF TimerInHandler
  <2>3. CASE TimerInService
    BY <2>3, Zenon DEF TimerInService
  <2>4. CASE TimerInIdle
    BY <2>4, Zenon DEF TimerInIdle
  <2> QED BY <2>1, <2>2, <2>3, <2>4, Zenon DEF Timer
<1>2. ticks' \in 0 .. TickMod - 1 /\ since' \in [Guest -> 0 .. Window] /\ BudgetOK'
  BY <1>1, TickBudget, Zenon DEF MonitorInv
<1>3. /\ delay' \in [Guest -> 0 .. Delay]
      /\ st' \in [Guest -> {"READY", "RUNNING", "FAULTED", "RESTARTING"}]
      /\ \A g \in Guest :
            /\ st'[g] = "RUNNING" <=> st[g] = "RUNNING" /\ ~(mode = "guest" /\ g = cur)
            /\ st'[g] \in {"FAULTED", "RESTARTING"} => st[g] \in {"FAULTED", "RESTARTING"}
            /\ st[g] = "FAULTED" => st'[g] = "FAULTED"
  <2>1. CASE Backoff(mode = "guest")
    <3>1. (mode = "guest") \in BOOLEAN /\ MonitorTypeOK
      BY Zenon DEF MonitorInv
    <3> QED BY <2>1, <3>1, BackoffFacts, Zenon
  <2>2. CASE mode = "service" /\ Backoff(FALSE)
    <3>1. FALSE \in BOOLEAN /\ MonitorTypeOK
      BY Zenon DEF MonitorInv
    <3> QED BY <2>2, <3>1, BackoffFacts, Zenon
  <2>3. CASE mode = "service" /\ UNCHANGED <<delay, st>>
    BY <2>3, Zenon DEF MonitorInv, MonitorTypeOK
  <2> QED BY <1>1, <2>1, <2>2, <2>3, Zenon
<1>4. MonitorTypeOK'
  BY <1>1, <1>2, <1>3, Zenon DEF MonitorInv, MonitorTypeOK
<1>5. OneRunning' /\ DownOwnsNothing' /\ PendingOK'
  BY <1>1, <1>3, Zenon DEF MonitorInv, MonitorTypeOK, OneRunning, DownOwnsNothing, PendingOK
<1>6. HaltedOnlyWhenDown' /\ BootOK'
  BY <1>1, Zenon DEF HaltedOnlyWhenDown, BootOK
<1> QED BY <1>2, <1>4, <1>5, <1>6, Zenon DEF MonitorInv

-----------------------------------------------------------------------------
(* The running guest *)

\* Entering and leaving a handler or a service, and a change of flash while a
\* guest runs.
LEMMA RunningInv ==
    ASSUME MonitorInv, GuestHandler \/ EnterService \/ LeaveService \/ (\E g \in Guest : ImageChanges(g))
    PROVE  MonitorInv'
<1> USE DEF MonitorInv, GuestHandler, EnterService, LeaveService, ImageChanges, InGuest
<1>1. MonitorTypeOK'
  BY Zenon DEF MonitorTypeOK
<1>2. OneRunning' /\ HaltedOnlyWhenDown' /\ BootOK'
  BY DEF OneRunning, HaltedOnlyWhenDown, BootOK
<1>3. DownOwnsNothing' /\ PendingOK'
  BY Zenon DEF MonitorTypeOK, OneRunning, DownOwnsNothing, PendingOK
<1>4. BudgetOK'
  BY Zenon DEF BudgetOK, Elapsed
<1> QED BY <1>1, <1>2, <1>3, <1>4, Zenon

-----------------------------------------------------------------------------
(* Faults *)

\* wt_restart_policy_evaluate forgets nothing within the window: a restart less
\* than a window after the last is charged on top of it.
LEMMA SpentFact ==
    ASSUME MonitorInv, NEW g \in Guest
    PROVE  /\ Spent(g) \in 0 .. GuestRestartLimit
           /\ guestRestarts[g] > 0 /\ since[g] < Window => Spent(g) = guestRestarts[g]
           /\ Spent(g) >= GuestRestartLimit => Spent(g) = guestRestarts[g]
<1>1. /\ guestRestarts[g] \in 0 .. GuestRestartLimit /\ GuestRestartLimit \in Nat \ {0}
      /\ since[g] \in 0 .. Window /\ Window \in Nat
  BY MonitorConstants DEF MonitorInv, MonitorTypeOK
<1>2. guestRestarts[g] > 0 /\ since[g] < Window => Elapsed(g) < Window
  BY <1>1, Zenon DEF MonitorInv, BudgetOK
<1>3. Elapsed(g) \in Nat
  <2>1. ticks \in 0 .. TickMod - 1 /\ lastTick[g] \in 0 .. TickMod - 1 /\ TickMod \in Nat
    BY MonitorConstants, Zenon DEF MonitorInv, MonitorTypeOK
  <2> QED BY <2>1, ElapsedFact DEF Elapsed
<1> QED BY <1>1, <1>2, <1>3 DEF Spent

\* wt_restart_guest, with budget left.
LEMMA FaultRestartInv ==
    ASSUME MonitorInv, FaultRestart
    PROVE  MonitorInv'
<1> USE DEF MonitorInv
<1>1. /\ cur \in Guest /\ st[cur] = "RUNNING" /\ Spent(cur) \in 0 .. GuestRestartLimit
      /\ Spent(cur) < GuestRestartLimit /\ GuestRestartLimit \in Nat /\ Delay \in Nat /\ Window \in Nat \ {0}
      /\ ticks \in 0 .. TickMod - 1 /\ TickMod \in Nat \ {0}
  BY SpentFact, MonitorConstants DEF FaultRestart, InGuest, MonitorTypeOK, OneRunning
<1>2. guestRestarts' \in [Guest -> 0 .. GuestRestartLimit] /\ delay' \in [Guest -> 0 .. Delay]
      /\ lastTick' \in [Guest -> 0 .. TickMod - 1] /\ since' \in [Guest -> 0 .. Window]
  BY <1>1 DEF FaultRestart, MonitorTypeOK
<1>3. burst' \in [Guest -> Nat]
  BY <1>1 DEF FaultRestart, MonitorTypeOK
<1>4. MonitorTypeOK'
  BY <1>1, <1>2, <1>3, Zenon DEF FaultRestart, MonitorTypeOK, Released
<1>5. OneRunning' /\ HaltedOnlyWhenDown' /\ BootOK'
  BY <1>1, Zenon DEF FaultRestart, MonitorTypeOK, OneRunning, HaltedOnlyWhenDown, BootOK
<1>6. DownOwnsNothing' /\ PendingOK'
  BY <1>1, Zenon DEF FaultRestart, MonitorTypeOK, DownOwnsNothing, PendingOK, Released
<1>7. BudgetOK'
  <2>1. ASSUME NEW g \in Guest, g # cur
        PROVE  /\ guestRestarts'[g] > 0 /\ since'[g] < Window => Elapsed(g)' = since'[g]
               /\ burst'[g] <= guestRestarts'[g]
    BY <2>1, Zenon DEF FaultRestart, BudgetOK, Elapsed, MonitorTypeOK
  <2>2. Elapsed(cur)' = 0 /\ since'[cur] = 0
    <3>1. lastTick'[cur] = ticks /\ ticks' = ticks /\ since'[cur] = 0 /\ cur' = cur
      BY <1>1, Zenon DEF FaultRestart, MonitorTypeOK
    <3>2. (ticks + TickMod - ticks) % TickMod = 0
      BY <1>1, ElapsedFact
    <3> QED BY <3>1, <3>2, Zenon DEF Elapsed
  <2>3. burst'[cur] <= guestRestarts'[cur]
    <3>1. guestRestarts'[cur] = Spent(cur) + 1
      BY <1>1, Zenon DEF FaultRestart, MonitorTypeOK
    <3>2. burst'[cur] = IF guestRestarts[cur] > 0 /\ since[cur] < Window THEN burst[cur] + 1 ELSE 1
      BY <1>1, Zenon DEF FaultRestart, MonitorTypeOK
    <3>3. burst[cur] \in Nat /\ guestRestarts[cur] \in Nat /\ burst[cur] <= guestRestarts[cur]
      BY <1>1 DEF MonitorTypeOK, BudgetOK
    <3> QED BY <1>1, <3>1, <3>2, <3>3, SpentFact
  <2>4. ASSUME NEW g \in Guest, g = cur
        PROVE  /\ guestRestarts'[g] > 0 /\ since'[g] < Window => Elapsed(g)' = since'[g]
               /\ burst'[g] <= guestRestarts'[g]
    BY <2>2, <2>3, <2>4, Zenon DEF Elapsed, FaultRestart
  <2> QED BY <2>1, <2>4, Zenon DEF BudgetOK
<1> QED BY <1>4, <1>5, <1>6, <1>7, Zenon

\* wt_restart_guest with the budget spent: the guest is quarantined.
LEMMA FaultQuarantineInv ==
    ASSUME MonitorInv, FaultQuarantine
    PROVE  MonitorInv'
<1> USE DEF MonitorInv
<1>1. cur \in Guest /\ st[cur] = "RUNNING" /\ Spent(cur) = guestRestarts[cur]
  BY SpentFact, Zenon DEF FaultQuarantine, InGuest, MonitorTypeOK, OneRunning
<1>2. guestRestarts' = guestRestarts
  BY <1>1, Zenon DEF FaultQuarantine, MonitorTypeOK
<1>3. MonitorTypeOK'
  BY <1>1, <1>2, Zenon DEF FaultQuarantine, MonitorTypeOK, Released
<1>4. OneRunning' /\ HaltedOnlyWhenDown' /\ BootOK'
  BY <1>1, Zenon DEF FaultQuarantine, MonitorTypeOK, OneRunning, HaltedOnlyWhenDown, BootOK
<1>5. DownOwnsNothing' /\ PendingOK'
  BY <1>1, Zenon DEF FaultQuarantine, MonitorTypeOK, DownOwnsNothing, PendingOK, Released
<1>6. BudgetOK'
  BY <1>2, Zenon DEF FaultQuarantine, BudgetOK, Elapsed
<1> QED BY <1>3, <1>4, <1>5, <1>6, Zenon

-----------------------------------------------------------------------------
(* The theorems *)

LEMMA MonitorNextInv ==
    ASSUME MonitorInv, [MonitorNext]_monitorVars
    PROVE  MonitorInv'
<1>1. CASE UNCHANGED monitorVars
  <2>1. MonitorTypeOK' /\ OneRunning' /\ DownOwnsNothing'
    BY <1>1, Zenon DEF monitorVars, MonitorInv, MonitorTypeOK, OneRunning, DownOwnsNothing
  <2>2. HaltedOnlyWhenDown' /\ BootOK' /\ PendingOK' /\ BudgetOK'
    BY <1>1, Zenon DEF monitorVars, MonitorInv, HaltedOnlyWhenDown, BootOK, PendingOK, BudgetOK, Elapsed
  <2> QED BY <2>1, <2>2, Zenon DEF MonitorInv
<1>2. CASE Schedule
  BY <1>2, DispatchInv, DispatchRefusedInv, IdleInv, Zenon DEF Schedule
<1>3. CASE \E g \in Guest : Quarantine(g) \/ ImageChanges(g)
  BY <1>3, QuarantineInv, RunningInv, Zenon
<1>4. CASE MonitorNext /\ ~Schedule /\ ~(\E g \in Guest : Quarantine(g) \/ ImageChanges(g))
  BY <1>4, TimerInv, RunningInv, FaultRestartInv, FaultQuarantineInv, Zenon DEF MonitorNext
<1> QED BY <1>1, <1>2, <1>3, <1>4, Zenon

LEMMA InvHolds == MonitorSpec => []MonitorInv
<1>1. MonitorInit => MonitorInv
  BY MonitorInitInv, Zenon
<1>2. MonitorInv /\ [MonitorNext]_monitorVars => MonitorInv'
  BY MonitorNextInv, Zenon
<1> QED BY <1>1, <1>2, PTL DEF MonitorSpec

\* What the monitor keeps of its guests is consistent whatever they do: exactly
\* the guest being executed is RUNNING, a guest that is down owns no connection,
\* no crash loop gets more restarts than the limit although the tick counter
\* wraps, and the platform halts only when no guest can come back.
THEOREM GuestsConsistent == MonitorSpec => []GuestsOK
<1>1. MonitorInv => GuestsOK
  <2> SUFFICES ASSUME MonitorInv PROVE CrashLoopStops
    BY Zenon DEF MonitorInv, GuestsOK
  <2>1. \A g \in Guest : /\ burst[g] \in Nat /\ burst[g] <= guestRestarts[g]
                         /\ guestRestarts[g] \in 0 .. GuestRestartLimit /\ GuestRestartLimit \in Nat
    BY MonitorConstants, Zenon DEF MonitorInv, MonitorTypeOK, BudgetOK
  <2> QED BY <2>1 DEF CrashLoopStops
<1> QED BY <1>1, InvHolds, PTL

\* No step of the monitor enters a quarantined guest again, and none lets a
\* guest with a launch policy in, at its first dispatch or after its back-off,
\* from an image that does not match its measurement.
THEOREM LaunchIsGated == MonitorSpec => LaunchGated
<1> DEFINE Gated(g) ==
        /\ st[g] = "FAULTED" => st'[g] = "FAULTED"
        /\ /\ g \in Required
           /\ \/ g \in firstPending /\ st'[g] = "RUNNING"
              \/ st[g] = "RESTARTING" /\ st'[g] = "READY"
           => image[g] = "good"
<1>1. ASSUME MonitorInv, MonitorNext, NEW g \in Guest PROVE Gated(g)
  <2>1. /\ g \in firstPending => st[g] # "RUNNING"
        /\ st[g] \in {"READY", "RUNNING", "FAULTED", "RESTARTING"}
    BY <1>1, Zenon DEF MonitorInv, PendingOK, MonitorTypeOK
  <2>2. CASE st'[g] = st[g]
    BY <2>1, <2>2, Zenon
  <2>3. CASE Schedule
    BY <1>1, <2>1, <2>3 DEF Schedule, DispatchGuest, DispatchRefused, Idle, MonitorInv, MonitorTypeOK, Finds, FindsFrom,
       GuestRunnable, Remeasured, Verified, Matches
  <2>4. CASE Timer
    <3>1. \/ st'[g] = st[g]
          \/ st'[g] = IF Due(g) THEN IF Verified(g) THEN "READY" ELSE "FAULTED"
                      ELSE Saved(st[g])
      BY <2>4, Zenon DEF Timer, TimerInGuest, TimerInHandler, TimerInService, TimerInIdle, Backoff
    <3> QED BY <2>1, <2>2, <3>1, Zenon DEF Due, Saved, Verified, Matches
  <2>5. CASE FaultRestart \/ FaultQuarantine
    <3>1. st[cur] = "RUNNING" /\ cur \in Guest
      BY <1>1, <2>5, Zenon DEF FaultRestart, FaultQuarantine, InGuest, MonitorInv, OneRunning, MonitorTypeOK
    <3> QED BY <1>1, <2>1, <2>5, <3>1, Zenon DEF FaultRestart, FaultQuarantine, MonitorInv, MonitorTypeOK
  <2>6. CASE \E h \in Guest : Quarantine(h) \/ ImageChanges(h)
    BY <1>1, <2>1, <2>6, Zenon DEF Quarantine, ImageChanges, MonitorInv, MonitorTypeOK
  <2>7. CASE GuestHandler \/ EnterService \/ LeaveService
    BY <2>2, <2>7, Zenon DEF GuestHandler, EnterService, LeaveService
  <2> QED BY <1>1, <2>3, <2>4, <2>5, <2>6, <2>7, Zenon DEF MonitorNext
<1>2. MonitorInv /\ [MonitorNext]_monitorVars => [\A g \in Guest : Gated(g)]_monitorVars
  BY <1>1, Zenon
<1> QED BY <1>2, InvHolds, PTL DEF MonitorSpec, LaunchGated

=============================================================================
