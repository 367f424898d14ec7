----------------------------- MODULE FfmInvariant -----------------------------
(***************************************************************************)
(* The inductive invariant of Ffm, for every number of guests, partitions, *)
(* services and table slots, and that the requests of clients and the ends *)
(* of requests keep it.                                                    *)
(***************************************************************************)
EXTENDS Ffm, TLAPS

-----------------------------------------------------------------------------
(* The inductive invariant of Ffm, stated entry by entry of the two tables,   *)
(* and the argument every step that touches one message and one connection    *)
(* shares: the entries it leaves alone stay right.                            *)

\* A request is in progress exactly while the dispatch is not idle.
StageOK == ns = NoMsg <=> stage = "idle"

\* Message r may ride on connection k.
Carries(r, k) ==
    /\ r.phase = "FREE" => r.abandoned = "NO"
    /\ r.phase # "FREE" =>
          /\ k.state # "FREE" /\ k.caller = r.caller /\ k.service = r.service
          /\ Fits(r.phase, r.type, r.abandoned, k.state)
    /\ r.abandoned = "REPLY" => r.type = "CALL" /\ k.latch = 1

\* A slot in use names a client, in its instance i, and a service; a free slot
\* has been cleared.
Slot(k, i) ==
    IF k.state = "FREE"
    THEN k.rhandle = 0 /\ k.latch = 0 /\ k.caller = None
    ELSE k.service \in Services /\ k.caller \in Clients /\ k.inst = i

Carried(n) == Carries(msg[n], conn[msg[n].conn])
Slotted(c) == Slot(conn[c], CallerInst(conn[c].caller))
Waited(c) ==
    conn[c].state \in Waiting =>
        \E n \in Msgs : msg[n].phase # "FREE" /\ msg[n].conn = c

\* MsgOwnerOK, message by message
Owned(n) ==
    /\ msg[n].phase # "FREE" =>
          IF msg[n].abandoned = "NO"
          THEN IF msg[n].caller \in Partitions
               THEN pend[msg[n].caller] = n ELSE ns = n
          ELSE /\ msg[n].caller \in Guests /\ ns # n
               /\ \/ msg[n].phase = "ACTIVE"
                  \/ msg[n].phase = "QUEUED" /\ msg[n].type = "DISCONNECT"
    /\ ns = n => msg[n].phase # "FREE" /\ msg[n].caller \in Guests
    /\ \A p \in Partitions : pend[p] = n => msg[n].phase # "FREE" /\ msg[n].caller = p

IInv ==
    /\ TypeOK /\ StageOK /\ QueueOK /\ SignalOK /\ OneInFlight
    /\ \A n \in Msgs : Carried(n) /\ Owned(n)
    /\ \A c \in Conns : Slotted(c) /\ Waited(c)

-----------------------------------------------------------------------------
(* Table entries *)

LEMMA NoMsgFact == NoMsg \notin Msgs
BY FfmConstants DEF NoMsg, Msgs

LEMMA NextGenType == \A g \in Gens : NextGen(g) \in Gens
BY FfmConstants DEF NextGen, Gens

LEMMA FreeType ==
    \A g \in Gens : FreeConn(g) \in Connection /\ FreeMsg(g) \in Message
BY FfmConstants DEF FreeConn, FreeMsg, Connection, Message, ConnStates, Phases,
    Types, Statuses, Conns

LEMMA WithType ==
    /\ \A k \in Connection, st \in ConnStates, v \in Nat :
          /\ WithState(k, st) \in Connection
          /\ WithLatch(k, st) \in Connection
          /\ WithRhandle(k, st, v) \in Connection
    /\ \A r \in Message, ph \in Phases, st \in Statuses, a \in {"REPLY", "CLOSE"} :
          /\ WithPhase(r, ph, st) \in Message
          /\ WithAbandoned(r, a) \in Message
BY DEF WithState, WithLatch, WithRhandle, WithPhase, WithAbandoned, Connection,
    Message

LEMMA FreeCarries ==
    /\ \A r, k, j : r.phase = "FREE" /\ Carries(r, k) => Carries(r, j)
    /\ \A g, k : Carries(FreeMsg(g), k)
BY DEF Carries, FreeMsg

LEMMA FreeSlot == \A g, i : Slot(FreeConn(g), i)
BY Zenon DEF Slot, FreeConn

LEMMA FreeState == \A g : FreeConn(g).state = "FREE"
BY Zenon DEF FreeConn

LEMMA FreeFields == \A g : FreeMsg(g).phase = "FREE" /\ FreeMsg(g).abandoned = "NO"
BY Zenon DEF FreeMsg

LEMMA BreakState ==
    \A c : /\ Break(c).state = "ERROR" /\ Break(c).caller = conn[c].caller
          /\ Break(c).service = conn[c].service /\ Break(c).inst = conn[c].inst
BY Zenon DEF Break, WithRhandle

\* What the invariant says of an entry in use.
LEMMA MsgFact ==
    ASSUME IInv, NEW n \in Msgs
    PROVE  /\ msg[n] \in Message /\ msg[n].conn \in Conns
           /\ msg[n].gen \in Gens /\ msg[n].type \in {"CONNECT", "CALL", "DISCONNECT"}
           /\ msg[n].phase # "FREE" =>
                 LET k == conn[msg[n].conn] IN
                 /\ k.state # "FREE" /\ k.caller = msg[n].caller
                 /\ k.service = msg[n].service /\ msg[n].service \in Services
                 /\ Fits(msg[n].phase, msg[n].type, msg[n].abandoned, k.state)
<1>1. msg[n] \in Message
  BY Zenon DEF IInv, TypeOK
<1>2. /\ msg[n].conn \in Conns /\ msg[n].gen \in Gens
      /\ msg[n].type \in {"CONNECT", "CALL", "DISCONNECT"}
  BY <1>1, Zenon DEF Message, Types
<1>3. Carried(n) /\ Slotted(msg[n].conn)
  BY <1>2, Zenon DEF IInv
<1> QED
  BY <1>1, <1>2, <1>3, Zenon DEF Carried, Carries, Slotted, Slot

LEMMA ConnFact ==
    ASSUME IInv, NEW c \in Conns
    PROVE  conn[c] \in Connection /\ conn[c].gen \in Gens /\ conn[c].state \in ConnStates
<1>1. conn[c] \in Connection
  BY Zenon DEF IInv, TypeOK
<1> QED
  BY <1>1, Zenon DEF Connection

-----------------------------------------------------------------------------
(* Steps that replace one message by r and one connection by k *)

MsgEdit(m, r) ==
    /\ msg' \in [Msgs -> Message] /\ msg'[m] = r
    /\ \A n \in Msgs \ {m} : msg'[n] = msg[n]
ConnEdit(c, k) ==
    /\ conn' \in [Conns -> Connection] /\ conn'[c] = k
    /\ \A d \in Conns \ {c} : conn'[d] = conn[d]

LEMMA EditMsg ==
    ASSUME IInv, NEW m \in Msgs, NEW r \in Message, msg' = [msg EXCEPT ![m] = r]
    PROVE  MsgEdit(m, r)
<1>1. msg \in [Msgs -> Message]
  BY Zenon DEF IInv, TypeOK
<1> QED
  BY <1>1, Zenon DEF MsgEdit

LEMMA EditConn ==
    ASSUME IInv, NEW c \in Conns, NEW k \in Connection, conn' = [conn EXCEPT ![c] = k]
    PROVE  ConnEdit(c, k)
<1>1. conn \in [Conns -> Connection]
  BY Zenon DEF IInv, TypeOK
<1> QED
  BY <1>1, Zenon DEF ConnEdit

LEMMA KeepConn ==
    ASSUME IInv, NEW c \in Conns, UNCHANGED conn
    PROVE  ConnEdit(c, conn[c])
BY Zenon DEF IInv, TypeOK, ConnEdit

\* release_message and release_connection
LEMMA ReleaseMsg ==
    ASSUME IInv, NEW m \in Msgs, msg' = ReleaseMsgs(msg, {m})
    PROVE  MsgEdit(m, FreeMsg(NextGen(msg[m].gen)))
<1>1. \A n \in Msgs : msg[n] \in Message /\ FreeMsg(NextGen(msg[n].gen)) \in Message
  BY MsgFact, NextGenType, FreeType, Zenon
<1> QED
  BY <1>1, Zenon DEF ReleaseMsgs, MsgEdit

LEMMA ReleaseConn ==
    ASSUME IInv, NEW c \in Conns, conn' = ReleaseConns(conn, {c})
    PROVE  ConnEdit(c, FreeConn(NextGen(conn[c].gen)))
<1>1. \A d \in Conns : conn[d] \in Connection /\ FreeConn(NextGen(conn[d].gen)) \in Connection
  BY ConnFact, NextGenType, FreeType, Zenon
<1> QED
  BY <1>1, Zenon DEF ReleaseConns, ConnEdit

\* No message but m is on connection c.
Alone(m, c) == \A n \in Msgs \ {m} : msg[n].phase # "FREE" => msg[n].conn # c
Links ==
    /\ queue \in [Services -> SUBSET Msgs] /\ ahead \in [Msgs -> SUBSET Msgs]
    /\ asserted \in [Partitions -> SUBSET Services]
    /\ QueueOK /\ SignalOK
\* The parties waiting for messages other than m are the ones that did.
Parties(m) ==
    /\ ns' \in Msgs \cup {NoMsg} /\ stage' \in {"idle", "enter", "run", "halted"}
    /\ pend' \in [Partitions -> Msgs \cup {NoMsg}] /\ StageOK'
    /\ \A n \in Msgs \ {m} :
          /\ ns' = n <=> ns = n
          /\ \A p \in Partitions : pend'[p] = n <=> pend[p] = n
Others ==
    /\ inst' = inst /\ faulted' \subseteq Partitions
    /\ held' \in [Partitions -> SUBSET Taken]
    /\ open' \in [Clients -> SUBSET (Conns \X Gens)]

LEMMA AloneFact ==
    ASSUME IInv, NEW m \in Msgs, msg[m].phase # "FREE"
    PROVE  Alone(m, msg[m].conn)
BY Zenon DEF IInv, OneInFlight, Alone

LEMMA StepInv ==
    ASSUME IInv, NEW m \in Msgs, NEW c \in Conns, NEW r, NEW k,
           MsgEdit(m, r), ConnEdit(c, k), Alone(m, c),
           msg[m].phase # "FREE" => msg[m].conn = c,
           r.phase # "FREE" => r.conn = c,
           Carries(r, k), Slot(k, CallerInst(k.caller)),
           k.state \in Waiting => r.phase # "FREE",
           Links', Parties(m), Owned(m)', Others
    PROVE  IInv'
<1>1. TypeOK'
  <2>1. conn' \in [Conns -> Connection] /\ msg' \in [Msgs -> Message]
    BY Zenon DEF MsgEdit, ConnEdit
  <2>2. inst' \in [Partitions -> Nat]
    BY Zenon DEF IInv, TypeOK, Others
  <2> QED
    BY <2>1, <2>2, Zenon DEF TypeOK, Links, Parties, Others
<1>2. ASSUME NEW n \in Msgs PROVE Carried(n)'
  <2>1. CASE n = m
    <3>1. msg'[n] = r /\ conn'[c] = k
      BY <2>1, Zenon DEF MsgEdit, ConnEdit
    <3>2. CASE r.phase = "FREE"
      BY <3>1, <3>2, FreeCarries, Zenon DEF Carried
    <3>3. CASE r.conn = c
      BY <3>1, <3>3, Zenon DEF Carried
    <3> QED
      BY <3>2, <3>3, Zenon
  <2>2. CASE n # m
    <3>1. msg'[n] = msg[n] /\ Carried(n)
      BY <2>2, Zenon DEF MsgEdit, IInv
    <3>2. CASE msg[n].phase = "FREE"
      BY <3>1, <3>2, FreeCarries, Zenon DEF Carried
    <3>3. CASE msg[n].phase # "FREE"
      <4>1. conn'[msg[n].conn] = conn[msg[n].conn]
        BY <2>2, <3>3, MsgFact, Zenon DEF Alone, ConnEdit
      <4> QED
        BY <3>1, <4>1, Zenon DEF Carried
    <3> QED
      BY <3>2, <3>3, Zenon
  <2> QED
    BY <2>1, <2>2, Zenon
<1>3. ASSUME NEW n \in Msgs \ {m} PROVE Owned(n)'
  <2>1. msg'[n] = msg[n] /\ Owned(n)
    BY Zenon DEF MsgEdit, IInv
  <2>2. (ns' = n <=> ns = n) /\ \A p \in Partitions : pend'[p] = n <=> pend[p] = n
    BY Zenon DEF Parties
  <2> QED
    BY <2>1, <2>2 DEF Owned
<1>4. ASSUME NEW d \in Conns PROVE Slotted(d)'
  <2>1. \A y : CallerInst(y)' = CallerInst(y)
    BY Zenon DEF CallerInst, Others
  <2>2. CASE d = c
    BY <2>1, <2>2, Zenon DEF Slotted, ConnEdit
  <2>3. CASE d # c
    <3>1. conn'[d] = conn[d] /\ Slotted(d)
      BY <2>3, Zenon DEF ConnEdit, IInv
    <3> QED
      BY <2>1, <3>1, Zenon DEF Slotted
  <2> QED
    BY <2>2, <2>3, Zenon
<1>5. ASSUME NEW d \in Conns PROVE Waited(d)'
  <2>1. CASE d = c
    BY <2>1, Zenon DEF Waited, ConnEdit, MsgEdit
  <2>2. CASE d # c
    <3>1. conn'[d] = conn[d] /\ Waited(d)
      BY <2>2, Zenon DEF ConnEdit, IInv
    <3>2. \A n \in Msgs : msg[n].phase # "FREE" /\ msg[n].conn = d => msg'[n] = msg[n]
      BY <2>2, Zenon DEF MsgEdit
    <3> QED
      BY <3>1, <3>2, Zenon DEF Waited
  <2> QED
    BY <2>1, <2>2, Zenon
<1>6. OneInFlight'
  <2>1. \A n \in Msgs \ {m} : msg'[n] = msg[n] /\ (msg[n].phase # "FREE" => msg[n].conn # c)
    BY Zenon DEF MsgEdit, Alone
  <2>2. msg'[m].phase # "FREE" => msg'[m].conn = c
    BY Zenon DEF MsgEdit
  <2> QED
    BY <2>1, <2>2 DEF IInv, OneInFlight
<1>7. StageOK' /\ QueueOK' /\ SignalOK'
  BY Zenon DEF Parties, Links
<1> QED
  BY <1>1, <1>2, <1>3, <1>4, <1>5, <1>6, <1>7, Zenon DEF IInv

-----------------------------------------------------------------------------
(* Who waits for the message *)

LEMMA WaitParties ==
    ASSUME IInv, NEW x \in Clients, Executing(x), NEW m \in Msgs, Wait(x, m),
           msg[m].phase = "FREE", NEW r, MsgEdit(m, r),
           r.phase = "QUEUED", r.caller = x, r.abandoned = "NO"
    PROVE  Parties(m) /\ Owned(m)'
<1>1. /\ ns \in Msgs \cup {NoMsg} /\ pend \in [Partitions -> Msgs \cup {NoMsg}]
      /\ stage \in {"idle", "enter", "run", "halted"} /\ StageOK
  BY Zenon DEF IInv, TypeOK
<1>2. ns # m /\ \A p \in Partitions : pend[p] # m
  BY Zenon DEF IInv, Owned
<1>3. msg'[m] = r
  BY Zenon DEF MsgEdit
<1>4. CASE x \in Partitions
  <2>1. /\ stage = "run" /\ pend[x] = NoMsg
        /\ pend' = [pend EXCEPT ![x] = m] /\ UNCHANGED <<ns, stage>>
    BY <1>4, Zenon DEF Executing, Running, Wait
  <2>2. pend' \in [Partitions -> Msgs \cup {NoMsg}] /\ pend'[x] = m
        /\ \A p \in Partitions \ {x} : pend'[p] = pend[p]
    BY <1>1, <1>4, <2>1, Zenon
  <2>3. Parties(m)
    BY <1>1, <2>1, <2>2, NoMsgFact DEF Parties, StageOK
  <2>4. Owned(m)'
    BY <1>2, <1>3, <1>4, <2>1, <2>2, Zenon DEF Owned
  <2> QED
    BY <2>3, <2>4, Zenon
<1>5. CASE x \notin Partitions
  <2>1. ns = NoMsg /\ ns' = m /\ stage' = "enter" /\ pend' = pend /\ x \in Guests
    BY <1>1, <1>5, Zenon DEF Executing, Wait, StageOK, Clients
  <2>2. Parties(m)
    BY <1>1, <2>1, NoMsgFact, Zenon DEF Parties, StageOK
  <2>3. Owned(m)'
    BY <1>2, <1>3, <1>5, <2>1, Zenon DEF Owned
  <2> QED
    BY <2>2, <2>3, Zenon
<1> QED
  BY <1>4, <1>5, Zenon

\* The party that waited for m stops: the guest's dispatch ends, the partition
\* resumes, or nobody waited.
Released(m) ==
    \/ ns = m /\ ns' = NoMsg /\ stage' = "idle" /\ UNCHANGED pend
    \/ /\ pend[msg[m].caller] = m /\ msg[m].caller \in Partitions
       /\ pend' = [pend EXCEPT ![msg[m].caller] = NoMsg] /\ UNCHANGED <<ns, stage>>
    \/ msg[m].abandoned # "NO" /\ UNCHANGED <<ns, stage, pend>>

LEMMA ReleasedParties ==
    ASSUME IInv, NEW m \in Msgs, msg[m].phase # "FREE", Released(m),
           NEW r, MsgEdit(m, r), r.phase = "FREE"
    PROVE  Parties(m) /\ Owned(m)'
<1>1. /\ ns \in Msgs \cup {NoMsg} /\ pend \in [Partitions -> Msgs \cup {NoMsg}]
      /\ stage \in {"idle", "enter", "run", "halted"} /\ StageOK /\ Owned(m)
  BY Zenon DEF IInv, TypeOK
<1>2. msg'[m].phase = "FREE"
  BY Zenon DEF MsgEdit
<1>3. CASE ns = m /\ ns' = NoMsg /\ stage' = "idle" /\ UNCHANGED pend
  <2>1. Parties(m)
    BY <1>1, <1>3, NoMsgFact, Zenon DEF Parties, StageOK
  <2>2. \A p \in Partitions : pend[p] # m
    BY <1>1, <1>3, FfmConstants DEF Owned
  <2> QED
    BY <1>2, <1>3, <2>1, <2>2, NoMsgFact, Zenon DEF Owned
<1>4. CASE /\ pend[msg[m].caller] = m /\ msg[m].caller \in Partitions
           /\ pend' = [pend EXCEPT ![msg[m].caller] = NoMsg] /\ UNCHANGED <<ns, stage>>
  <2> DEFINE q == msg[m].caller
  <2>1. /\ pend' \in [Partitions -> Msgs \cup {NoMsg}] /\ pend'[q] = NoMsg
        /\ \A p \in Partitions \ {q} : pend'[p] = pend[p]
    BY <1>1, <1>4, Zenon
  <2>2. ns # m /\ \A p \in Partitions : pend[p] = m => p = q
    BY <1>1, <1>4, FfmConstants, Zenon DEF Owned
  <2> HIDE DEF q
  <2>3. Parties(m)
    BY <1>1, <1>4, <2>1, <2>2, NoMsgFact, Zenon DEF Parties, StageOK, q
  <2> QED
    BY <1>2, <1>4, <2>1, <2>2, <2>3, NoMsgFact, Zenon DEF Owned
<1>5. CASE msg[m].abandoned # "NO" /\ UNCHANGED <<ns, stage, pend>>
  <2>1. Parties(m)
    BY <1>1, <1>5, Zenon DEF Parties, StageOK
  <2>2. ns # m /\ \A p \in Partitions : pend[p] # m
    BY <1>1, <1>5, FfmConstants DEF Owned
  <2> QED
    BY <1>2, <1>5, <2>1, <2>2, Zenon DEF Owned
<1> QED
  BY <1>3, <1>4, <1>5, Zenon DEF Released

LEMMA AbandonParties ==
    ASSUME IInv, NEW m \in Msgs, msg[m].phase # "FREE", msg[m].caller \in Guests,
           ns \in {m, NoMsg}, ns' = NoMsg, stage' = "idle", UNCHANGED pend,
           NEW r, MsgEdit(m, r), r.phase = "ACTIVE", r.caller = msg[m].caller,
           r.abandoned # "NO"
    PROVE  Parties(m) /\ Owned(m)'
<1>1. /\ pend \in [Partitions -> Msgs \cup {NoMsg}] /\ Owned(m)
  BY Zenon DEF IInv, TypeOK
<1>2. msg'[m] = r
  BY Zenon DEF MsgEdit
<1>3. \A p \in Partitions : pend[p] # m
  BY <1>1, FfmConstants, Zenon DEF Owned
<1>4. Parties(m)
  BY <1>1, NoMsgFact, Zenon DEF Parties, StageOK
<1> QED
  BY <1>2, <1>3, <1>4, NoMsgFact, Zenon DEF Owned

LEMMA SameParties ==
    ASSUME IInv, NEW m \in Msgs, msg[m].phase # "FREE", UNCHANGED <<ns, stage, pend>>,
           NEW r, MsgEdit(m, r), r.phase # "FREE", r.caller = msg[m].caller,
           r.abandoned = "NO" <=> msg[m].abandoned = "NO",
           r.abandoned # "NO" =>
               r.phase = "ACTIVE" \/ (r.phase = "QUEUED" /\ r.type = "DISCONNECT")
    PROVE  Parties(m) /\ Owned(m)'
<1>1. /\ ns \in Msgs \cup {NoMsg} /\ pend \in [Partitions -> Msgs \cup {NoMsg}]
      /\ stage \in {"idle", "enter", "run", "halted"} /\ StageOK /\ Owned(m)
  BY Zenon DEF IInv, TypeOK
<1>2. msg'[m] = r
  BY Zenon DEF MsgEdit
<1>3. Parties(m)
  BY <1>1, Zenon DEF Parties, StageOK
<1> QED
  BY <1>1, <1>2, <1>3, Zenon DEF Owned

-----------------------------------------------------------------------------
(* Queues and signals *)

LEMMA LinksFact == IInv => Links
BY Zenon DEF IInv, TypeOK, Links

\* What QueueOK says of a message
LEMMA InQueue ==
    ASSUME Links, NEW u \in Services, NEW n \in Msgs
    PROVE  n \in queue[u] <=> msg[n].phase = "QUEUED" /\ msg[n].service = u
BY Zenon DEF Links, QueueOK

LEMMA KeepLinks ==
    ASSUME IInv, UNCHANGED <<queue, ahead, asserted>>, NEW m \in Msgs, NEW r,
           MsgEdit(m, r), msg[m].phase # "QUEUED", r.phase # "QUEUED"
    PROVE  Links'
<1>1. ASSUME NEW u \in Services
      PROVE  queue[u] = {n \in Msgs : msg'[n].phase = "QUEUED" /\ msg'[n].service = u}
  <2>1. queue[u] = {n \in Msgs : msg[n].phase = "QUEUED" /\ msg[n].service = u}
    BY Zenon DEF IInv, QueueOK
  <2>2. \A n \in Msgs : msg'[n].phase = "QUEUED" /\ msg'[n].service = u <=>
                        msg[n].phase = "QUEUED" /\ msg[n].service = u
    BY Zenon DEF MsgEdit
  <2> QED
    BY <2>1, <2>2, Zenon
<1>2. QueueOK'
  BY <1>1, Zenon DEF QueueOK
<1>3. SignalOK'
  BY Zenon DEF IInv, SignalOK
<1> QED
  BY <1>2, <1>3, LinksFact, Zenon DEF Links

LEMMA EnqueueLinks ==
    ASSUME IInv, NEW s \in Services, NEW m \in Msgs, Enqueue(s, m), NEW r,
           MsgEdit(m, r), msg[m].phase # "QUEUED", r.phase = "QUEUED", r.service = s
    PROVE  Links'
<1>1. Links /\ Owner[s] \in Partitions
  BY LinksFact, FfmConstants, Zenon
<1>2. /\ queue' \in [Services -> SUBSET Msgs] /\ ahead' \in [Msgs -> SUBSET Msgs]
      /\ asserted' \in [Partitions -> SUBSET Services]
  BY <1>1 DEF Links, Enqueue
<1>3. /\ queue'[s] = queue[s] \cup {m} /\ \A u \in Services \ {s} : queue'[u] = queue[u]
      /\ asserted'[Owner[s]] = asserted[Owner[s]] \cup {s}
      /\ \A p \in Partitions \ {Owner[s]} : asserted'[p] = asserted[p]
  BY <1>1, Zenon DEF Links, Enqueue
<1>4. QueueOK'
  <2> SUFFICES ASSUME NEW u \in Services, NEW n \in Msgs
               PROVE  n \in queue'[u] <=> msg'[n].phase = "QUEUED" /\ msg'[n].service = u
    BY <1>2 DEF QueueOK
  <2>1. n \in queue[u] <=> msg[n].phase = "QUEUED" /\ msg[n].service = u
    BY <1>1, InQueue, Zenon
  <2>2. n \in queue'[u] <=> n \in queue[u] \/ (u = s /\ n = m)
    BY <1>3
  <2>3. CASE n = m
    BY <2>1, <2>2, <2>3, Zenon DEF MsgEdit
  <2>4. CASE n # m
    BY <2>1, <2>2, <2>4, Zenon DEF MsgEdit
  <2> QED
    BY <2>3, <2>4, Zenon
<1>5. SignalOK'
  <2> SUFFICES ASSUME NEW u \in Services
               PROVE  u \in asserted'[Owner[u]] <=> queue'[u] # {}
    BY Zenon DEF SignalOK
  <2>1. Owner[u] \in Partitions /\ (u \in asserted[Owner[u]] <=> queue[u] # {})
    BY FfmConstants, Zenon DEF IInv, SignalOK
  <2> QED
    BY <1>3, <2>1
<1> QED
  BY <1>2, <1>4, <1>5, Zenon DEF Links

\* Signals follow the queues when messages leave the queues of the services T.
LEMMA ResignalFact ==
    ASSUME Links, NEW T \in SUBSET Services, queue' \in [Services -> SUBSET Msgs]
    PROVE  /\ Resignal(asserted, queue', T) \in [Partitions -> SUBSET Services]
           /\ \A u \in Services : u \in T \/ queue'[u] = queue[u] =>
                 (u \in Resignal(asserted, queue', T)[Owner[u]] <=> queue'[u] # {})
<1>1. Resignal(asserted, queue', T) \in [Partitions -> SUBSET Services]
  BY Zenon DEF Resignal, Links
<1>2. ASSUME NEW u \in Services, u \in T \/ queue'[u] = queue[u]
      PROVE  u \in Resignal(asserted, queue', T)[Owner[u]] <=> queue'[u] # {}
  <2>1. Owner[u] \in Partitions /\ (u \in asserted[Owner[u]] <=> queue[u] # {})
    BY FfmConstants, Zenon DEF Links, SignalOK
  <2>2. u \in Resignal(asserted, queue', T)[Owner[u]] <=>
           \/ u \in asserted[Owner[u]] /\ (u \in T => queue'[u] # {})
           \/ u \in T /\ queue'[u] # {}
    BY <2>1, Zenon DEF Resignal
  <2> QED
    BY <1>2, <2>1, <2>2, Zenon
<1> QED
  BY <1>1, <1>2, Zenon

LEMMA DequeueLinks ==
    ASSUME IInv, NEW s \in Services, NEW m \in Msgs, Dequeue(s, m), NEW r,
           MsgEdit(m, r), msg[m].service = s, r.phase # "QUEUED"
    PROVE  Links'
<1>1. Links
  BY LinksFact, Zenon
<1>2. /\ queue' \in [Services -> SUBSET Msgs] /\ ahead' \in [Msgs -> SUBSET Msgs]
      /\ queue'[s] = queue[s] \ {m} /\ \A u \in Services \ {s} : queue'[u] = queue[u]
  BY <1>1, Zenon DEF Links, Dequeue
<1>3. QueueOK'
  <2> SUFFICES ASSUME NEW u \in Services, NEW n \in Msgs
               PROVE  n \in queue'[u] <=> msg'[n].phase = "QUEUED" /\ msg'[n].service = u
    BY <1>2 DEF QueueOK
  <2>1. n \in queue[u] <=> msg[n].phase = "QUEUED" /\ msg[n].service = u
    BY <1>1, InQueue, Zenon
  <2>2. n \in queue'[u] <=> n \in queue[u] /\ ~(u = s /\ n = m)
    BY <1>2, Zenon
  <2>3. CASE n = m
    BY <2>1, <2>2, <2>3, Zenon DEF MsgEdit
  <2>4. CASE n # m
    BY <2>1, <2>2, <2>4, Zenon DEF MsgEdit
  <2> QED
    BY <2>3, <2>4, Zenon
<1>4. asserted' = Resignal(asserted, queue', {s})
  BY Zenon DEF Dequeue
<1>5. /\ asserted' \in [Partitions -> SUBSET Services]
      /\ \A u \in Services : u \in asserted'[Owner[u]] <=> queue'[u] # {}
  BY <1>1, <1>2, <1>4, ResignalFact
<1> QED
  BY <1>2, <1>3, <1>5, Zenon DEF Links, SignalOK

-----------------------------------------------------------------------------

LEMMA InitInv == Init => IInv
<1> SUFFICES ASSUME Init PROVE IInv
    BY Zenon
<1> USE FfmConstants DEF Init
<1>1. TypeOK /\ StageOK
  BY FreeType DEF TypeOK, StageOK, Gens, NoMsg
<1>2. QueueOK /\ SignalOK /\ OneInFlight
  BY Zenon DEF QueueOK, SignalOK, OneInFlight, FreeMsg
<1>3. ASSUME NEW n \in Msgs PROVE Carried(n) /\ Owned(n)
  <2>1. msg[n] = FreeMsg(1) /\ FreeMsg(1).phase = "FREE"
    BY Zenon DEF FreeMsg
  <2> QED
    BY <2>1, FreeCarries, NoMsgFact, Zenon DEF Carried, Owned
<1>4. ASSUME NEW c \in Conns PROVE Slotted(c) /\ Waited(c)
  <2>1. conn[c] = FreeConn(1) /\ FreeConn(1).state = "FREE"
    BY Zenon DEF FreeConn
  <2> QED
    BY <2>1, FreeSlot, Zenon DEF Slotted, Waited, Waiting
<1> QED
  BY <1>1, <1>2, <1>3, <1>4, Zenon DEF IInv

\* The properties the invariant is made of
LEMMA Consequences == IInv => MsgConnOK /\ StateOK /\ MsgOwnerOK
<1> SUFFICES ASSUME IInv PROVE MsgConnOK /\ StateOK /\ MsgOwnerOK
  BY Zenon
<1>1. MsgConnOK
  BY MsgFact, Zenon DEF MsgConnOK
<1>2. StateOK
  <2>1. ASSUME NEW n \in Msgs PROVE StateFits(n)
    <3>1. CASE msg[n].phase = "FREE"
      BY <3>1, Zenon DEF StateFits, Fits
    <3>2. CASE msg[n].phase # "FREE"
      BY <3>2, MsgFact, Zenon DEF StateFits
    <3> QED
      BY <3>1, <3>2, Zenon
  <2> QED
    BY <2>1, Zenon DEF StateOK, IInv, Waited
<1>3. MsgOwnerOK
  <2>1. \A n \in Msgs : Owned(n)
    BY Zenon DEF IInv
  <2>2. ns \in Msgs \cup {NoMsg} /\ \A p \in Partitions : pend[p] \in Msgs \cup {NoMsg}
    BY Zenon DEF IInv, TypeOK
  <2> QED
    BY <2>1, <2>2, Zenon DEF MsgOwnerOK, Owned
<1> QED
  BY <1>1, <1>2, <1>3, Zenon

-----------------------------------------------------------------------------
(* The requests of clients keep the invariant. *)

(* Posting a request *)

\* A client that is executing has no request in flight: whatever still bears
\* its name was abandoned.
LEMMA ClientQuiet ==
    ASSUME IInv, NEW x \in Clients, Executing(x), NEW m \in Msgs,
           msg[m].phase # "FREE", msg[m].caller = x
    PROVE  msg[m].abandoned # "NO"
<1>1. Owned(m) /\ StageOK
  BY Zenon DEF IInv
<1> QED
  BY <1>1, FfmConstants, NoMsgFact, Zenon DEF StageOK, Owned, Executing, Running, Clients

\* What enqueue writes into the message it takes.
Queued(r, x, c, s, t) ==
    /\ r \in Message /\ r.phase = "QUEUED" /\ r.type = t /\ r.conn = c
    /\ r.service = s /\ r.caller = x /\ r.abandoned = "NO"

LEMMA NewMsgFact ==
    ASSUME IInv, NEW m \in Msgs, NEW x \in Clients, NEW c \in Conns,
           NEW s \in Services, NEW t \in Types
    PROVE  Queued(NewMsg(m, x, c, s, t), x, c, s, t)
<1>1. msg[m].gen \in Gens
  BY MsgFact, Zenon
<1> QED
  BY <1>1, Zenon DEF Queued, NewMsg, Message, Phases, Statuses

\* connect, call and close queue a message of type t on a connection, k from
\* now on, that carries none.
Posts(x, c, m, s, t, k) ==
    /\ Executing(x) /\ FirstFreeMsg(m) /\ Enqueue(s, m) /\ Wait(x, m)
    /\ msg' = [msg EXCEPT ![m] = NewMsg(m, x, c, s, t)]
    /\ conn' = [conn EXCEPT ![c] = k]

LEMMA PostInv ==
    ASSUME IInv, NEW x \in Clients, NEW c \in Conns, NEW m \in Msgs,
           NEW s \in Services, NEW t \in Types, NEW k \in Connection,
           Posts(x, c, m, s, t, k), Others,
           \A n \in Msgs : msg[n].phase # "FREE" => msg[n].conn # c,
           k.caller = x, k.service = s, k.inst = CallerInst(x),
           k.state # "FREE", Fits("QUEUED", t, "NO", k.state)
    PROVE  IInv'
<1> DEFINE r == NewMsg(m, x, c, s, t)
<1>0. Queued(r, x, c, s, t)
  BY NewMsgFact, Zenon
<1> HIDE DEF r
<1>1. /\ r \in Message /\ r.phase = "QUEUED" /\ r.type = t /\ r.conn = c
      /\ r.service = s /\ r.caller = x /\ r.abandoned = "NO"
  BY <1>0, Zenon DEF Queued
<1>2. MsgEdit(m, r)
  BY <1>1, EditMsg, Zenon DEF Posts, r
<1>3. ConnEdit(c, k)
  BY EditConn, Zenon DEF Posts
<1>4. msg[m].phase = "FREE"
  BY Zenon DEF Posts, FirstFreeMsg
<1>5. Links'
  <2>1. Enqueue(s, m)
    BY Zenon DEF Posts
  <2> QED
    BY <1>1, <1>2, <1>4, <2>1, EnqueueLinks, Zenon
<1>6. Parties(m) /\ Owned(m)'
  <2>1. Executing(x) /\ Wait(x, m)
    BY Zenon DEF Posts
  <2> QED
    BY <1>1, <1>2, <1>4, <2>1, WaitParties, Zenon
<1>7. Carries(r, k) /\ Slot(k, CallerInst(k.caller))
  BY <1>1, Zenon DEF Carries, Slot
<1>8. Alone(m, c)
  BY Zenon DEF Alone
<1> QED
  BY <1>1, <1>2, <1>3, <1>4, <1>5, <1>6, <1>7, <1>8, StepInv, Zenon

LEMMA ConnectInv ==
    ASSUME IInv, NEW x \in Clients, NEW s \in Services, Connect(x, s)
    PROVE  IInv'
<1>1. PICK c \in Conns, m \in Msgs :
         FirstFreeConn(c) /\ Posts(x, c, m, s, "CONNECT", NewConn(c, x, s))
  BY Zenon DEF Connect, Posts
<1> DEFINE k == NewConn(c, x, s)
<1>2. /\ k \in Connection /\ k.caller = x /\ k.service = s /\ k.inst = CallerInst(x)
      /\ k.state = "PENDING_CONNECT"
  <2>1. CallerInst(x) \in Nat
    BY Zenon DEF IInv, TypeOK, CallerInst
  <2>2. conn[c].gen \in Gens /\ conn[c].rhandle \in Nat
    BY ConnFact, Zenon DEF Connection
  <2> QED
    BY <2>1, <2>2, Zenon DEF NewConn, Connection, ConnStates
<1> HIDE DEF k
<1>3. \A n \in Msgs : msg[n].phase # "FREE" => msg[n].conn # c
  BY <1>1, MsgFact, Zenon DEF FirstFreeConn
<1>4. Others
  BY Zenon DEF Connect, IInv, TypeOK, Others
<1>5. "CONNECT" \in Types /\ Fits("QUEUED", "CONNECT", "NO", k.state) /\ k.state # "FREE"
  BY <1>2, Zenon DEF Types, Fits
<1>6. Posts(x, c, m, s, "CONNECT", k)
  BY <1>1, Zenon DEF k
<1> QED
  BY <1>2, <1>3, <1>4, <1>5, <1>6, PostInv, Zenon

\* What a client that is executing may call or close: a connection with no
\* message but an abandoned one.
LEMMA PresentsFact ==
    ASSUME IInv, NEW x \in Clients, NEW c \in Conns, Presents(x, c)
    PROVE  /\ conn[c].caller = x /\ conn[c].service \in Services
           /\ conn[c].inst = CallerInst(x) /\ conn[c].state # "FREE" /\ Executing(x)
           /\ \A n \in Msgs : msg[n].phase # "FREE" /\ msg[n].conn = c =>
                 msg[n].abandoned # "NO"
           /\ conn[c].state = "IDLE" =>
                 \A n \in Msgs : msg[n].phase # "FREE" => msg[n].conn # c
<1>1. conn[c].caller = x /\ conn[c].state # "FREE" /\ Executing(x)
  BY Zenon DEF Presents, Resolves
<1>2. conn[c].service \in Services /\ conn[c].inst = CallerInst(x)
  BY <1>1, Zenon DEF IInv, Slotted, Slot
<1>3. \A n \in Msgs : msg[n].phase # "FREE" /\ msg[n].conn = c => msg[n].abandoned # "NO"
  BY <1>1, MsgFact, ClientQuiet, Zenon
<1>4. ASSUME conn[c].state = "IDLE", NEW n \in Msgs, msg[n].phase # "FREE",
             msg[n].conn = c
      PROVE  FALSE
  <2>1. msg[n].abandoned # "NO" /\ Owned(n)
    BY <1>3, <1>4, Zenon DEF IInv
  <2>2. Fits(msg[n].phase, msg[n].type, msg[n].abandoned, "IDLE")
    BY <1>4, MsgFact, Zenon
  <2>3. msg[n].phase \in {"ACTIVE", "QUEUED"}
    BY <1>4, <2>1, Zenon DEF Owned
  <2> QED
    BY <2>2, <2>3, Zenon DEF Fits
<1> QED
  BY <1>1, <1>2, <1>3, <1>4, Zenon

LEMMA CallInv ==
    ASSUME IInv, NEW x \in Clients, NEW c \in Conns, Call(x, c)
    PROVE  IInv'
<1> DEFINE s == conn[c].service
           k == WithState(conn[c], "PENDING_REQUEST")
<1>1. Presents(x, c) /\ conn[c].state = "IDLE"
  BY Zenon DEF Call
<1>2. PICK m \in Msgs : Posts(x, c, m, s, "CALL", k)
  BY <1>1, Zenon DEF Call, Posts, Presents
<1>3. /\ k.state = "PENDING_REQUEST" /\ k.caller = conn[c].caller
      /\ k.service = s /\ k.inst = conn[c].inst
  BY Zenon DEF WithState
<1>4. k \in Connection
  BY ConnFact, WithType, Zenon DEF ConnStates
<1>5. Others
  BY Zenon DEF Call, IInv, TypeOK, Others
<1> HIDE DEF k
<1>6. "CALL" \in Types /\ Fits("QUEUED", "CALL", "NO", k.state) /\ k.state # "FREE"
  BY <1>3, Zenon DEF Types, Fits
<1>7. /\ conn[c].caller = x /\ s \in Services /\ conn[c].inst = CallerInst(x)
      /\ \A n \in Msgs : msg[n].phase # "FREE" => msg[n].conn # c
  BY <1>1, PresentsFact, Zenon
<1>8. k.caller = x /\ k.service = s /\ k.inst = CallerInst(x)
  BY <1>3, <1>7, Zenon
<1> HIDE DEF s
<1> QED
  BY <1>2, <1>4, <1>5, <1>6, <1>7, <1>8, PostInv, Zenon

LEMMA CloseInv ==
    ASSUME IInv, NEW x \in Clients, NEW c \in Conns, Close(x, c)
    PROVE  IInv'
<1> DEFINE s == conn[c].service
           k == WithState(conn[c], "DISCONNECTING")
<1>1. Presents(x, c) /\ AbandonedOn(c) = {}
  BY Zenon DEF Close, Closable
<1>2. PICK m \in Msgs : Posts(x, c, m, s, "DISCONNECT", k)
  BY <1>1, Zenon DEF Close, Posts, Presents
<1>3. /\ k.state = "DISCONNECTING" /\ k.caller = conn[c].caller
      /\ k.service = s /\ k.inst = conn[c].inst
  BY Zenon DEF WithState
<1>4. k \in Connection
  BY ConnFact, WithType, Zenon DEF ConnStates
<1>5. Others
  BY Zenon DEF Close, Forget, IInv, TypeOK, Others
<1> HIDE DEF k
<1>6. "DISCONNECT" \in Types /\ Fits("QUEUED", "DISCONNECT", "NO", k.state) /\ k.state # "FREE"
  BY <1>3, Zenon DEF Types, Fits
<1>7. \A n \in Msgs : msg[n].phase # "FREE" => msg[n].conn # c
  BY <1>1, PresentsFact, Zenon DEF AbandonedOn
<1>8. conn[c].caller = x /\ s \in Services /\ conn[c].inst = CallerInst(x)
  BY <1>1, PresentsFact, Zenon
<1>9. k.caller = x /\ k.service = s /\ k.inst = CallerInst(x)
  BY <1>3, <1>8, Zenon
<1> HIDE DEF s
<1> QED
  BY <1>2, <1>4, <1>5, <1>6, <1>7, <1>8, <1>9, PostInv, Zenon

-----------------------------------------------------------------------------
(* Steps that leave every message in use as it is and at most break an idle *)
(* connection *)

SameMsgs ==
    /\ msg' \in [Msgs -> Message]
    /\ \A n \in Msgs : IF msg[n].phase = "FREE"
                       THEN msg'[n].phase = "FREE" /\ msg'[n].abandoned = "NO"
                       ELSE msg'[n] = msg[n]
Mild(k, j) ==
    /\ j.caller = k.caller /\ j.service = k.service /\ j.inst = k.inst
    /\ k.latch = 1 => j.latch = 1
    /\ j.state = k.state \/ (k.state = "IDLE" /\ j.state = "ERROR")
MildConns ==
    /\ conn' \in [Conns -> Connection]
    /\ \A c \in Conns : IF conn[c].state = "FREE"
                        THEN conn'[c].state = "FREE" /\ Slot(conn'[c], 0)
                        ELSE Mild(conn[c], conn'[c])
QuietRest ==
    /\ UNCHANGED <<queue, ahead, asserted, inst, ns, pend, held>>
    /\ UNCHANGED stage \/ (stage = "enter" /\ stage' = "run")
    /\ faulted' \subseteq Partitions
    /\ open' \in [Clients -> SUBSET (Conns \X Gens)]

LEMMA MildCarries ==
    \A r, k, j : r.phase # "FREE" /\ Carries(r, k) /\ Mild(k, j) => Carries(r, j)
<1> SUFFICES ASSUME NEW r, NEW k, NEW j, r.phase # "FREE", Carries(r, k), Mild(k, j)
             PROVE  Carries(r, j)
  BY Zenon
<1>1. Fits(r.phase, r.type, r.abandoned, k.state)
  BY Zenon DEF Carries
<1>2. Fits(r.phase, r.type, r.abandoned, j.state)
  <2>1. CASE j.state = k.state
    BY <1>1, <2>1, Zenon
  <2>2. CASE k.state = "IDLE" /\ j.state = "ERROR"
    BY <1>1, <2>2, Zenon DEF Fits
  <2> QED
    BY <2>1, <2>2, Zenon DEF Mild
<1> QED
  BY <1>2, Zenon DEF Carries, Mild

LEMMA MildSlot ==
    \A k, j, i : k.state # "FREE" /\ Slot(k, i) /\ Mild(k, j) => Slot(j, i)
BY DEF Slot, Mild

LEMMA QuietInv == ASSUME IInv, SameMsgs, MildConns, QuietRest PROVE IInv'
<1>1. TypeOK'
  BY Zenon DEF IInv, TypeOK, SameMsgs, MildConns, QuietRest
<1>2. StageOK'
  BY Zenon DEF IInv, StageOK, QuietRest
<1>3. \A n \in Msgs : /\ msg'[n].phase = msg[n].phase
                      /\ msg[n].phase # "FREE" => msg'[n] = msg[n]
  BY Zenon DEF SameMsgs
<1>4. QueueOK'
  <2> SUFFICES ASSUME NEW u \in Services, NEW n \in Msgs
               PROVE  n \in queue'[u] <=> msg'[n].phase = "QUEUED" /\ msg'[n].service = u
    BY <1>1 DEF QueueOK, TypeOK
  <2> QED
    BY <1>3, LinksFact, InQueue DEF QuietRest
<1>5. SignalOK' /\ OneInFlight'
  BY <1>3 DEF IInv, QuietRest, SignalOK, OneInFlight
<1>6. ASSUME NEW n \in Msgs PROVE Carried(n)'
  <2>1. CASE msg[n].phase = "FREE"
    BY <2>1, Zenon DEF SameMsgs, Carried, Carries
  <2>2. CASE msg[n].phase # "FREE"
    <3>1. msg'[n] = msg[n] /\ Mild(conn[msg[n].conn], conn'[msg[n].conn])
      BY <1>3, <2>2, MsgFact, Zenon DEF MildConns
    <3>2. Carries(msg[n], conn[msg[n].conn])
      BY Zenon DEF IInv, Carried
    <3> QED
      BY <2>2, <3>1, <3>2, MildCarries, Zenon DEF Carried
  <2> QED
    BY <2>1, <2>2, Zenon
<1>7. ASSUME NEW n \in Msgs PROVE Owned(n)'
  <2>1. Owned(n) /\ ns' = ns /\ pend' = pend
    BY Zenon DEF IInv, QuietRest
  <2> QED
    BY <1>3, <2>1, Zenon DEF Owned
<1>8. ASSUME NEW c \in Conns PROVE Slotted(c)'
  <2>1. \A y : CallerInst(y)' = CallerInst(y)
    BY Zenon DEF CallerInst, QuietRest
  <2>2. CASE conn[c].state = "FREE"
    BY <2>2, Zenon DEF MildConns, Slotted, Slot
  <2>3. CASE conn[c].state # "FREE"
    <3>1. Mild(conn[c], conn'[c]) /\ Slot(conn[c], CallerInst(conn[c].caller))
      BY <2>3, Zenon DEF MildConns, IInv, Slotted
    <3>2. conn'[c].caller = conn[c].caller
      BY <3>1, Zenon DEF Mild
    <3> QED
      BY <2>1, <2>3, <3>1, <3>2, MildSlot, Zenon DEF Slotted
  <2> QED
    BY <2>2, <2>3, Zenon
<1>9. ASSUME NEW c \in Conns PROVE Waited(c)'
  <2>1. conn'[c].state \in Waiting => conn[c].state \in Waiting
    BY Zenon DEF MildConns, Mild, Waiting
  <2>2. Waited(c)
    BY Zenon DEF IInv
  <2> QED
    BY <1>3, <2>1, <2>2, Zenon DEF Waited
<1> QED
  BY <1>1, <1>2, <1>4, <1>5, <1>6, <1>7, <1>8, <1>9, Zenon DEF IInv

LEMMA KeepAll ==
    ASSUME IInv
    PROVE  (UNCHANGED msg => SameMsgs) /\ (UNCHANGED conn => MildConns)
<1>1. ASSUME UNCHANGED msg PROVE SameMsgs
  <2>1. \A n \in Msgs : msg[n].phase = "FREE" => msg[n].abandoned = "NO"
    BY Zenon DEF IInv, Carried, Carries
  <2> QED
    BY <1>1, <2>1, Zenon DEF IInv, TypeOK, SameMsgs
<1>2. ASSUME UNCHANGED conn PROVE MildConns
  <2>1. \A c \in Conns : conn[c].state = "FREE" => Slot(conn[c], 0)
    BY Zenon DEF IInv, Slotted, Slot
  <2>2. \A c \in Conns : Mild(conn[c], conn[c])
    BY Zenon DEF Mild
  <2> QED
    BY <1>2, <2>1, <2>2, Zenon DEF IInv, TypeOK, MildConns
<1> QED
  BY <1>1, <1>2, Zenon

LEMMA ReleaseFreeMsg ==
    ASSUME IInv, NEW m \in Msgs, FirstFreeMsg(m), msg' = ReleaseMsgs(msg, {m})
    PROVE  SameMsgs
<1>1. MsgEdit(m, FreeMsg(NextGen(msg[m].gen)))
  BY ReleaseMsg, Zenon
<1>2. \A n \in Msgs : msg[n].phase = "FREE" => msg[n].abandoned = "NO"
  BY Zenon DEF IInv, Carried, Carries
<1>3. msg[m].phase = "FREE"
  BY Zenon DEF FirstFreeMsg
<1>4. msg'[m].phase = "FREE" /\ msg'[m].abandoned = "NO"
  BY <1>1, FreeFields, Zenon DEF MsgEdit
<1> QED
  BY <1>1, <1>2, <1>3, <1>4, Zenon DEF MsgEdit, SameMsgs

\* One connection in use changes mildly.
LEMMA MildEdit ==
    ASSUME IInv, NEW c \in Conns, NEW k, ConnEdit(c, k), conn[c].state # "FREE",
           Mild(conn[c], k)
    PROVE  MildConns
<1>1. \A d \in Conns : conn[d].state = "FREE" => Slot(conn[d], 0)
  BY Zenon DEF IInv, Slotted, Slot
<1>2. \A d \in Conns : Mild(conn[d], conn[d])
  BY Zenon DEF Mild
<1> QED
  BY <1>1, <1>2 DEF ConnEdit, MildConns

LEMMA ConnectNoMessageInv ==
    ASSUME IInv, NEW x \in Clients, NEW s \in Services, ConnectNoMessage(x, s)
    PROVE  IInv'
<1>1. PICK c \in Conns : conn[c].state = "FREE" /\ conn' = ReleaseConns(conn, {c})
  BY Zenon DEF ConnectNoMessage, FirstFreeConn
<1>2. ConnEdit(c, FreeConn(NextGen(conn[c].gen)))
  BY <1>1, ReleaseConn, Zenon
<1>3. \A d \in Conns : conn[d].state = "FREE" => Slot(conn[d], 0)
  BY Zenon DEF IInv, Slotted, Slot
<1>4. \A d \in Conns : Mild(conn[d], conn[d])
  BY Zenon DEF Mild
<1>5. conn'[c].state = "FREE" /\ Slot(conn'[c], 0)
  BY <1>2, FreeSlot, FreeState, Zenon DEF ConnEdit
<1>6. MildConns
  BY <1>1, <1>2, <1>3, <1>4, <1>5, Zenon DEF ConnEdit, MildConns
<1>7. UNCHANGED msg /\ QuietRest
  BY Zenon DEF ConnectNoMessage, IInv, TypeOK, QuietRest
<1> QED
  BY <1>6, <1>7, KeepAll, QuietInv, Zenon

LEMMA CallTooLargeInv ==
    ASSUME IInv, NEW x \in Clients, NEW c \in Conns, CallTooLarge(x, c)
    PROVE  IInv'
<1>1. SameMsgs
  BY ReleaseFreeMsg, Zenon DEF CallTooLarge
<1>2. UNCHANGED conn /\ QuietRest
  BY Zenon DEF CallTooLarge, IInv, TypeOK, QuietRest
<1> QED
  BY <1>1, <1>2, KeepAll, QuietInv, Zenon

LEMMA CallMisuseInv ==
    ASSUME IInv, NEW x \in Clients, NEW c \in Conns, CallMisuse(x, c)
    PROVE  IInv'
<1>1. SameMsgs
  BY ReleaseFreeMsg, KeepAll, Zenon DEF CallMisuse
<1>2. \/ conn[c].state = "IDLE" /\ conn' = [conn EXCEPT ![c] = WithState(conn[c], "ERROR")]
      \/ conn' = [conn EXCEPT ![c] = WithLatch(conn[c], conn[c].state)]
  BY Zenon DEF CallMisuse
<1>3. conn[c].state # "FREE"
  BY Zenon DEF CallMisuse, Presents, Resolves
<1>4. MildConns
  <2>1. CASE conn[c].state = "IDLE" /\ conn' = [conn EXCEPT ![c] = WithState(conn[c], "ERROR")]
    <3>1. ConnEdit(c, WithState(conn[c], "ERROR"))
      BY <2>1, ConnFact, WithType, EditConn, Zenon DEF ConnStates
    <3>2. Mild(conn[c], WithState(conn[c], "ERROR"))
      BY <2>1, Zenon DEF Mild, WithState
    <3> QED
      BY <1>3, <3>1, <3>2, MildEdit, Zenon
  <2>2. CASE conn' = [conn EXCEPT ![c] = WithLatch(conn[c], conn[c].state)]
    <3>1. ConnEdit(c, WithLatch(conn[c], conn[c].state))
      BY <2>2, ConnFact, WithType, EditConn, Zenon
    <3>2. Mild(conn[c], WithLatch(conn[c], conn[c].state))
      BY Zenon DEF Mild, WithLatch
    <3> QED
      BY <1>3, <3>1, <3>2, MildEdit, Zenon
  <2> QED
    BY <1>2, <2>1, <2>2, Zenon
<1>5. QuietRest
  BY Zenon DEF CallMisuse, IInv, TypeOK, QuietRest
<1> QED
  BY <1>1, <1>4, <1>5, QuietInv, Zenon

LEMMA CloseNoMessageInv ==
    ASSUME IInv, NEW x \in Clients, NEW c \in Conns, CloseNoMessage(x, c)
    PROVE  IInv'
<1>1. UNCHANGED <<conn, msg>> /\ QuietRest
  BY Zenon DEF CloseNoMessage, Forget, IInv, TypeOK, QuietRest
<1> QED
  BY <1>1, KeepAll, QuietInv, Zenon

LEMMA DispatchEnterInv == ASSUME IInv, DispatchEnter PROVE IInv'
<1>1. UNCHANGED <<conn, msg>> /\ QuietRest
  BY Zenon DEF DispatchEnter, IInv, TypeOK, QuietRest
<1> QED
  BY <1>1, KeepAll, QuietInv, Zenon

LEMMA FaultInv == ASSUME IInv, NEW p \in Partitions, Fault(p) PROVE IInv'
<1>1. UNCHANGED <<conn, msg>> /\ QuietRest
  BY Zenon DEF Fault, IInv, TypeOK, QuietRest
<1> QED
  BY <1>1, KeepAll, QuietInv, Zenon

\* A message handle that resolves names a message in use.
LEMMA HandleFact ==
    ASSUME IInv, NEW p \in Partitions, NEW h \in held[p], MsgResolves(p, h)
    PROVE  h.m \in Msgs /\ msg[h.m].phase = "ACTIVE"
<1>1. h \in Taken
  BY Zenon DEF IInv, TypeOK
<1> QED
  BY <1>1, Zenon DEF MsgResolves, Taken

LEMMA SetRhandleInv ==
    ASSUME IInv, NEW p \in Partitions, NEW h \in held[p], SetRhandle(p, h)
    PROVE  IInv'
<1> DEFINE c == msg[h.m].conn
           k == WithRhandle(conn[c], conn[c].state, inst[p] + 1)
<1>1. h.m \in Msgs /\ msg[h.m].phase = "ACTIVE"
  BY HandleFact, Zenon DEF SetRhandle
<1>2. c \in Conns /\ conn[c].state # "FREE"
  BY <1>1, MsgFact, Zenon
<1>3. conn' = [conn EXCEPT ![c] = k]
  BY Zenon DEF SetRhandle
<1>4. inst[p] + 1 \in Nat
  BY DEF IInv, TypeOK
<1>5. k \in Connection
  BY <1>2, <1>4, ConnFact, WithType, Zenon
<1>6. Mild(conn[c], k)
  BY Zenon DEF Mild, WithRhandle
<1>7. UNCHANGED msg /\ QuietRest
  BY Zenon DEF SetRhandle, IInv, TypeOK, QuietRest
<1> HIDE DEF c, k
<1>8. MildConns
  BY <1>2, <1>3, <1>5, <1>6, EditConn, MildEdit, Zenon
<1> QED
  BY <1>7, <1>8, KeepAll, QuietInv, Zenon

-----------------------------------------------------------------------------
(* The ends of requests keep the invariant: what the gateway and the gate do  *)
(* with a message that was answered, or given up on.                          *)

-----------------------------------------------------------------------------
(* Ending a request *)

\* k is connection c, moved to state st
Becomes(k, c, st) ==
    /\ k.state = st /\ Slot(k, CallerInst(k.caller))
    /\ k.caller = conn[c].caller /\ k.service = conn[c].service

LEMMA StateSlot ==
    ASSUME IInv, NEW c \in Conns, conn[c].state # "FREE", NEW st \in ConnStates,
           st # "FREE"
    PROVE  /\ \E k \in Connection : k = WithState(conn[c], st) /\ Becomes(k, c, st)
           /\ \E k \in Connection :
                 k = WithLatch(conn[c], st) /\ Becomes(k, c, st) /\ k.latch = 1
<1>1. conn[c] \in Connection /\ Slot(conn[c], CallerInst(conn[c].caller))
  BY ConnFact, Zenon DEF IInv, Slotted
<1>2. WithState(conn[c], st) \in Connection /\ WithLatch(conn[c], st) \in Connection
  BY <1>1, WithType, Zenon
<1>3. Becomes(WithState(conn[c], st), c, st)
  BY <1>1, Zenon DEF WithState, Slot, Becomes
<1>4. Becomes(WithLatch(conn[c], st), c, st) /\ WithLatch(conn[c], st).latch = 1
  BY <1>1, Zenon DEF WithLatch, Slot, Becomes
<1> QED
  BY <1>2, <1>3, <1>4, Zenon

Unlinks(m) ==
    \/ Dequeue(msg[m].service, m)
    \/ msg[m].phase # "QUEUED" /\ UNCHANGED <<queue, ahead, asserted>>

\* The message is freed, unlinked first if it is still queued, and nobody waits
\* for it any more.
Retires(m) ==
    /\ msg[m].phase # "FREE" /\ msg' = ReleaseMsgs(msg, {m})
    /\ Unlinks(m) /\ Released(m)

\* Its connection is freed or left where nothing waits on it.
Settles(c) ==
    \E k : ConnEdit(c, k) /\ Slot(k, CallerInst(k.caller)) /\ k.state \notin Waiting

LEMMA RetireInv ==
    ASSUME IInv, NEW m \in Msgs, Retires(m), NEW c, c = msg[m].conn, Settles(c), Others
    PROVE  IInv'
<1>1. PICK k : ConnEdit(c, k) /\ Slot(k, CallerInst(k.caller)) /\ k.state \notin Waiting
  BY Zenon DEF Settles
<1>2. msg[m].phase # "FREE" /\ Unlinks(m) /\ Released(m)
  BY Zenon DEF Retires
<1>3. PICK r : MsgEdit(m, r) /\ r.phase = "FREE" /\ Carries(r, k)
  <2>1. MsgEdit(m, FreeMsg(NextGen(msg[m].gen)))
    BY ReleaseMsg, Zenon DEF Retires
  <2>2. FreeMsg(NextGen(msg[m].gen)).phase = "FREE"
    BY FreeFields, Zenon
  <2> QED
    BY <2>1, <2>2, FreeCarries, Zenon
<1>4. c \in Conns /\ Alone(m, c) /\ msg[m].service \in Services
  BY <1>2, MsgFact, AloneFact, Zenon
<1>5. Links'
  <2>1. CASE Dequeue(msg[m].service, m)
    BY <1>3, <1>4, <2>1, DequeueLinks, Zenon
  <2>2. CASE msg[m].phase # "QUEUED" /\ UNCHANGED <<queue, ahead, asserted>>
    BY <1>3, <2>2, KeepLinks, Zenon
  <2> QED
    BY <1>2, <2>1, <2>2, Zenon DEF Unlinks
<1>6. Parties(m) /\ Owned(m)'
  BY <1>2, <1>3, ReleasedParties, Zenon
<1> QED
  BY <1>1, <1>3, <1>4, <1>5, <1>6, StepInv, Zenon

\* The three connections a request may leave behind
LEMMA RetireFreed ==
    ASSUME IInv, NEW c \in Conns, conn' = ReleaseConns(conn, {c})
    PROVE  Settles(c)
<1>1. PICK k : k = FreeConn(NextGen(conn[c].gen))
  BY Zenon
<1>2. ConnEdit(c, k)
  BY <1>1, ReleaseConn, Zenon
<1>3. k.state = "FREE" /\ \A i : Slot(k, i)
  BY <1>1, FreeSlot, FreeState, Zenon
<1> QED
  BY <1>2, <1>3, Zenon DEF Settles, Waiting

LEMMA RetireKept ==
    ASSUME IInv, NEW m \in Msgs, msg[m].phase \notin {"FREE", "ACTIVE"},
           NEW c, c = msg[m].conn, UNCHANGED conn,
           msg[m].phase = "QUEUED" => msg[m].type = "DISCONNECT"
    PROVE  Settles(c)
<1>1. c \in Conns /\ Fits(msg[m].phase, msg[m].type, msg[m].abandoned, conn[c].state)
  BY MsgFact, Zenon
<1>2. msg[m].phase \in {"QUEUED", "COMPLETE"}
  BY MsgFact, Zenon DEF Message, Phases
<1>3. conn[c].state \notin Waiting
  BY <1>1, <1>2, Zenon DEF Fits, Waiting
<1>4. Slotted(c) /\ ConnEdit(c, conn[c])
  BY <1>1, KeepConn, Zenon DEF IInv
<1> QED
  BY <1>3, <1>4, Zenon DEF Slotted, Settles

LEMMA RetireState ==
    ASSUME IInv, NEW c \in Conns, conn[c].state # "FREE",
           NEW st \in {"IDLE", "ERROR", "TERMINAL"},
           conn' = [conn EXCEPT ![c] = WithState(conn[c], st)]
    PROVE  Settles(c)
<1>1. st \in ConnStates /\ st # "FREE" /\ st \notin Waiting
  BY Zenon DEF ConnStates, Waiting
<1>2. PICK k \in Connection : k = WithState(conn[c], st) /\ Becomes(k, c, st)
  BY <1>1, StateSlot, Zenon
<1>3. ConnEdit(c, k)
  BY <1>2, EditConn, Zenon
<1> QED
  BY <1>1, <1>2, <1>3, Zenon DEF Settles, Becomes

\* A guest gives up a request its service has claimed, or closes the connection
\* of one it had given up.
Abandons(m, how) ==
    /\ msg[m].phase = "ACTIVE" /\ msg[m].caller \in Guests
    /\ msg' = [msg EXCEPT ![m] = WithAbandoned(msg[m], how)]
    /\ ns \in {m, NoMsg} /\ ns' = NoMsg /\ stage' = "idle"
    /\ UNCHANGED <<queue, ahead, asserted, pend>>

\* The connection k the request is left on
Lingers(k, c, t, how) ==
    /\ Slot(k, CallerInst(k.caller)) /\ k.state # "FREE"
    /\ k.caller = conn[c].caller /\ k.service = conn[c].service
    /\ how = "REPLY" => t = "CALL" /\ k.latch = 1
    /\ Fits("ACTIVE", t, how, k.state)

LEMMA AbandonInv ==
    ASSUME IInv, NEW m \in Msgs, NEW how \in {"REPLY", "CLOSE"}, Abandons(m, how),
           NEW c, c = msg[m].conn, NEW k, ConnEdit(c, k),
           Lingers(k, c, msg[m].type, how), Others
    PROVE  IInv'
<1>1. /\ msg[m].phase = "ACTIVE" /\ msg[m].caller \in Guests
      /\ ns \in {m, NoMsg} /\ ns' = NoMsg /\ stage' = "idle"
      /\ UNCHANGED <<queue, ahead, asserted, pend>>
  BY Zenon DEF Abandons
<1>2. PICK r \in Message :
        /\ r = WithAbandoned(msg[m], how)
        /\ r.phase = "ACTIVE" /\ r.type = msg[m].type /\ r.conn = c
        /\ r.service = msg[m].service /\ r.caller = msg[m].caller /\ r.abandoned = how
  <2>1. WithAbandoned(msg[m], how) \in Message
    BY MsgFact, WithType, Zenon DEF Phases, Statuses
  <2> QED
    BY <1>1, <2>1, Zenon DEF WithAbandoned
<1>3. MsgEdit(m, r)
  BY <1>2, EditMsg, Zenon DEF Abandons
<1>4. /\ c \in Conns /\ Alone(m, c)
      /\ conn[c].caller = msg[m].caller /\ conn[c].service = msg[m].service
  BY <1>1, MsgFact, AloneFact, Zenon
<1>5. Carries(r, k) /\ Slot(k, CallerInst(k.caller))
  BY <1>2, <1>4, Zenon DEF Carries, Lingers
<1>6. Links'
  BY <1>1, <1>2, <1>3, KeepLinks, Zenon
<1>7. Parties(m) /\ Owned(m)'
  BY <1>1, <1>2, <1>3, AbandonParties, Zenon
<1> QED
  BY <1>2, <1>3, <1>4, <1>5, <1>6, <1>7, StepInv, Zenon

LEMMA CloseAbandonedInv ==
    ASSUME IInv, NEW x \in Clients, NEW c \in Conns, CloseAbandoned(x, c)
    PROVE  IInv'
<1>1. PICK m \in AbandonedOn(c) :
         /\ msg' = [msg EXCEPT ![m] = WithAbandoned(msg[m], "CLOSE")]
         /\ conn' = [conn EXCEPT ![c] = WithState(conn[c], "DISCONNECTING")]
  BY Zenon DEF CloseAbandoned
<1>2. m \in Msgs /\ msg[m].phase # "FREE" /\ msg[m].abandoned # "NO" /\ msg[m].conn = c
  BY Zenon DEF AbandonedOn
<1>3. conn[c].state \in {"IDLE", "ERROR"} /\ conn[c].caller = x /\ Executing(x)
  BY Zenon DEF CloseAbandoned, Closable, Presents, Resolves
<1>4. msg[m].caller = x /\ Fits(msg[m].phase, msg[m].type, msg[m].abandoned, conn[c].state)
  BY <1>2, <1>3, MsgFact, Zenon
<1>5. msg[m].caller \in Guests /\ msg[m].phase \in {"ACTIVE", "QUEUED"}
  BY <1>2, Zenon DEF IInv, Owned
<1>6. msg[m].phase = "ACTIVE" /\ msg[m].type = "CALL"
  BY <1>3, <1>4, <1>5, Zenon DEF Fits
<1>7. stage = "idle" /\ ns = NoMsg
  BY <1>3, <1>4, <1>5, FfmConstants, Zenon DEF Executing, IInv, StageOK
<1>8. Abandons(m, "CLOSE")
  BY <1>1, <1>5, <1>6, <1>7, Zenon DEF CloseAbandoned, Abandons
<1>9. Others
  BY Zenon DEF CloseAbandoned, Forget, IInv, TypeOK, Others
<1>10. PICK k \in Connection :
         k = WithState(conn[c], "DISCONNECTING") /\ Becomes(k, c, "DISCONNECTING")
  BY <1>3, StateSlot, Zenon DEF ConnStates
<1>11. ConnEdit(c, k)
  BY <1>1, <1>10, EditConn, Zenon
<1>12. Lingers(k, c, msg[m].type, "CLOSE")
  BY <1>6, <1>10, Zenon DEF Lingers, Fits, Becomes
<1> QED
  BY <1>2, <1>8, <1>9, <1>11, <1>12, AbandonInv, Zenon

\* The message of the request a guest is inside of
LEMMA NsFact ==
    ASSUME IInv, stage = "run"
    PROVE  \E m \in Msgs, c \in Conns :
              /\ m = ns /\ c = msg[m].conn
              /\ msg[m].phase # "FREE" /\ msg[m].caller \in Guests
              /\ conn[c].state # "FREE"
              /\ Fits(msg[m].phase, msg[m].type, "NO", conn[c].state)
<1>1. ns \in Msgs
  BY Zenon DEF IInv, TypeOK, StageOK
<1>2. msg[ns].phase # "FREE" /\ msg[ns].caller \in Guests /\ msg[ns].abandoned = "NO"
  BY <1>1, Zenon DEF IInv, Owned
<1> QED
  BY <1>1, <1>2, MsgFact, Zenon

\* The connection stays as it is under an abandoned request.
LEMMA LingersKept ==
    ASSUME IInv, NEW c \in Conns, UNCHANGED conn, NEW t, conn[c].state # "FREE",
           t # "CALL", Fits("ACTIVE", t, "NO", conn[c].state)
    PROVE  ConnEdit(c, conn[c]) /\ Lingers(conn[c], c, t, "CLOSE")
<1>1. ConnEdit(c, conn[c]) /\ Slotted(c)
  BY KeepConn, Zenon DEF IInv
<1> QED
  BY <1>1, Zenon DEF Slotted, Lingers, Fits

LEMMA NsConnectReturnInv ==
    ASSUME IInv, NEW ret \in {"OK", "ERR"}, NsConnectReturn(ret)
    PROVE  IInv'
<1>1. PICK m \in Msgs, c \in Conns :
        /\ m = ns /\ c = msg[m].conn
        /\ msg[m].phase # "FREE" /\ msg[m].caller \in Guests
        /\ conn[c].state # "FREE"
        /\ Fits(msg[m].phase, msg[m].type, "NO", conn[c].state)
  BY NsFact, Zenon DEF NsConnectReturn, DispatchOutcome
<1>2. /\ ns' = NoMsg /\ stage' = "idle" /\ UNCHANGED <<pend, inst, faulted, held>>
      /\ msg[m].type = "CONNECT"
  BY <1>1, Zenon DEF NsConnectReturn, NsIdle
<1>3. Others
  <2>1. PICK x \in Clients, g \in Gens : x = msg[m].caller /\ g = conn[c].gen
    BY <1>1, ConnFact, Zenon DEF Clients
  <2>2. UNCHANGED open \/ open' = [open EXCEPT ![x] = open[x] \cup {<<c, g>>}]
    BY <1>1, <2>1, Zenon DEF NsConnectReturn
  <2>3. TypeOK
    BY Zenon DEF IInv
  <2>4. open' \in [Clients -> SUBSET (Conns \X Gens)]
    BY <2>2, <2>3 DEF TypeOK
  <2> QED
    BY <1>2, <2>3, <2>4, Zenon DEF TypeOK, Others
<1>4. Released(m)
  BY <1>1, <1>2, Zenon DEF Released
<1>5. CASE Answered(ret)
  <2>1. msg[m].phase = "COMPLETE" /\ msg' = ReleaseMsgs(msg, {m})
        /\ UNCHANGED <<queue, ahead, asserted>>
        /\ (UNCHANGED conn \/ conn' = ReleaseConns(conn, {c}))
    BY <1>1, <1>5, Zenon DEF NsConnectReturn, Answered
  <2>2. Retires(m)
    BY <1>1, <1>4, <2>1, Zenon DEF Retires, Unlinks
  <2>3. Settles(c)
    BY <1>1, <2>1, RetireKept, RetireFreed, Zenon
  <2> QED
    BY <1>1, <1>3, <2>2, <2>3, RetireInv, Zenon
<1>6. CASE ~Answered(ret) /\ msg[m].phase = "ACTIVE"
  <2>1. Abandons(m, "CLOSE") /\ UNCHANGED conn
    BY <1>1, <1>2, <1>6, Zenon DEF NsConnectReturn, Abandons
  <2>2. ConnEdit(c, conn[c]) /\ Lingers(conn[c], c, msg[m].type, "CLOSE")
    BY <1>1, <1>2, <1>6, <2>1, LingersKept, Zenon
  <2> QED
    BY <1>1, <1>3, <2>1, <2>2, AbandonInv, Zenon
<1>7. CASE ~Answered(ret) /\ msg[m].phase # "ACTIVE"
  <2>1. /\ msg' = ReleaseMsgs(msg, {m}) /\ conn' = ReleaseConns(conn, {c})
        /\ Dequeue(msg[m].service, m)
    BY <1>1, <1>7, Zenon DEF NsConnectReturn
  <2>2. Retires(m) /\ Settles(c)
    BY <1>1, <1>4, <2>1, RetireFreed, Zenon DEF Retires, Unlinks
  <2> QED
    BY <1>1, <1>3, <2>2, RetireInv, Zenon
<1> QED
  BY <1>5, <1>6, <1>7, Zenon

LEMMA NsCallReturnInv ==
    ASSUME IInv, NEW ret \in {"OK", "ERR"}, NsCallReturn(ret)
    PROVE  IInv'
<1>1. PICK m \in Msgs, c \in Conns :
        /\ m = ns /\ c = msg[m].conn
        /\ msg[m].phase # "FREE" /\ msg[m].caller \in Guests
        /\ conn[c].state # "FREE"
        /\ Fits(msg[m].phase, msg[m].type, "NO", conn[c].state)
  BY NsFact, Zenon DEF NsCallReturn, DispatchOutcome
<1>2. /\ ns' = NoMsg /\ stage' = "idle" /\ UNCHANGED <<pend, inst, faulted, held, open>>
      /\ msg[m].type = "CALL"
  BY <1>1, Zenon DEF NsCallReturn, NsIdle
<1>3. Others
  BY <1>2, Zenon DEF IInv, TypeOK, Others
<1>4. Released(m)
  BY <1>1, <1>2, Zenon DEF Released
<1>5. CASE Answered(ret)
  <2>1. /\ msg[m].phase = "COMPLETE" /\ msg' = ReleaseMsgs(msg, {m})
        /\ UNCHANGED <<queue, ahead, asserted>>
        /\ (UNCHANGED conn \/ conn' = [conn EXCEPT ![c] = WithState(conn[c], "ERROR")])
    BY <1>1, <1>5, Zenon DEF NsCallReturn, Answered
  <2>2. Retires(m)
    BY <1>1, <1>4, <2>1, Zenon DEF Retires, Unlinks
  <2>3. CASE UNCHANGED conn
    BY <1>1, <2>1, <2>2, <2>3, <1>3, RetireKept, RetireInv, Zenon
  <2>4. CASE conn' = [conn EXCEPT ![c] = WithState(conn[c], "ERROR")]
    <3>1. Settles(c)
      BY <1>1, <2>4, RetireState, Zenon
    <3> QED
      BY <1>1, <1>3, <2>2, <3>1, RetireInv, Zenon
  <2> QED
    BY <2>1, <2>3, <2>4, Zenon
<1>6. CASE ~Answered(ret) /\ msg[m].phase = "ACTIVE"
  <2>1. /\ msg' = [msg EXCEPT ![m] = WithAbandoned(msg[m], "REPLY")]
        /\ conn' = [conn EXCEPT ![c] = WithLatch(conn[c], "ERROR")]
        /\ UNCHANGED <<queue, ahead, asserted>>
    BY <1>1, <1>6, Zenon DEF NsCallReturn
  <2>2. Abandons(m, "REPLY")
    BY <1>1, <1>2, <1>6, <2>1, Zenon DEF Abandons
  <2>3. PICK k \in Connection :
          k = WithLatch(conn[c], "ERROR") /\ Becomes(k, c, "ERROR") /\ k.latch = 1
    BY <1>1, StateSlot, Zenon DEF ConnStates
  <2>4. ConnEdit(c, k)
    BY <2>1, <2>3, EditConn, Zenon
  <2>5. Lingers(k, c, msg[m].type, "REPLY")
    BY <1>2, <2>3, Zenon DEF Lingers, Fits, Becomes
  <2> QED
    BY <1>1, <1>3, <2>2, <2>4, <2>5, AbandonInv, Zenon
<1>7. CASE ~Answered(ret) /\ msg[m].phase # "ACTIVE"
  <2>1. /\ msg' = ReleaseMsgs(msg, {m}) /\ Dequeue(msg[m].service, m)
        /\ conn' = [conn EXCEPT ![c] = WithState(conn[c], "ERROR")]
    BY <1>1, <1>7, Zenon DEF NsCallReturn
  <2>2. Retires(m) /\ Settles(c)
    BY <1>1, <1>4, <2>1, RetireState, Zenon DEF Retires, Unlinks
  <2> QED
    BY <1>1, <1>3, <2>2, RetireInv, Zenon
<1> QED
  BY <1>5, <1>6, <1>7, Zenon

LEMMA NsCloseReturnInv ==
    ASSUME IInv, NEW ret \in {"OK", "ERR"}, NsCloseReturn(ret)
    PROVE  IInv'
<1>1. PICK m \in Msgs, c \in Conns :
        /\ m = ns /\ c = msg[m].conn
        /\ msg[m].phase # "FREE" /\ msg[m].caller \in Guests
        /\ conn[c].state # "FREE"
        /\ Fits(msg[m].phase, msg[m].type, "NO", conn[c].state)
  BY NsFact, Zenon DEF NsCloseReturn, DispatchOutcome
<1>2. /\ ns' = NoMsg /\ stage' = "idle" /\ UNCHANGED <<pend, inst, faulted, held, open>>
      /\ msg[m].type = "DISCONNECT"
  BY <1>1, Zenon DEF NsCloseReturn, NsIdle
<1>3. Others
  BY <1>2, Zenon DEF IInv, TypeOK, Others
<1>4. Released(m)
  BY <1>1, <1>2, Zenon DEF Released
<1>5. CASE Answered(ret)
  <2>1. /\ msg[m].phase = "COMPLETE" /\ msg' = ReleaseMsgs(msg, {m})
        /\ conn' = ReleaseConns(conn, {c}) /\ UNCHANGED <<queue, ahead, asserted>>
    BY <1>1, <1>5, Zenon DEF NsCloseReturn, Answered
  <2>2. Retires(m)
    BY <1>1, <1>4, <2>1, Zenon DEF Retires, Unlinks
  <2>3. Settles(c)
    BY <2>1, RetireFreed, Zenon
  <2> QED
    BY <1>1, <1>3, <2>2, <2>3, RetireInv, Zenon
<1>6. CASE ~Answered(ret) /\ msg[m].phase = "ACTIVE"
  <2>1. Abandons(m, "CLOSE") /\ UNCHANGED conn
    BY <1>1, <1>2, <1>6, Zenon DEF NsCloseReturn, Abandons
  <2>2. ConnEdit(c, conn[c]) /\ Lingers(conn[c], c, msg[m].type, "CLOSE")
    BY <1>1, <1>2, <1>6, <2>1, LingersKept, Zenon
  <2> QED
    BY <1>1, <1>3, <2>1, <2>2, AbandonInv, Zenon
<1>7. CASE ~Answered(ret) /\ msg[m].phase # "ACTIVE"
  <2>1. msg' = ReleaseMsgs(msg, {m}) /\ Dequeue(msg[m].service, m) /\ UNCHANGED conn
    BY <1>1, <1>7, Zenon DEF NsCloseReturn
  <2>2. Retires(m)
    BY <1>1, <1>4, <2>1, Zenon DEF Retires, Unlinks
  <2>3. Settles(c)
    BY <1>1, <1>2, <1>7, <2>1, RetireKept, Zenon
  <2> QED
    BY <1>1, <1>3, <2>2, <2>3, RetireInv, Zenon
<1> QED
  BY <1>5, <1>6, <1>7, Zenon

LEMMA FinishInv ==
    ASSUME IInv, NEW p \in Partitions,
           SpConnectFinish(p) \/ SpCallFinish(p) \/ SpCloseFinish(p)
    PROVE  IInv'
<1>1. Finishing(p)
  BY Zenon DEF SpConnectFinish, SpCallFinish, SpCloseFinish
<1>2. PICK m \in Msgs : m = pend[p] /\ msg[m].phase = "COMPLETE"
  <2>1. pend[p] \in Msgs \cup {NoMsg}
    BY Zenon DEF IInv, TypeOK
  <2> QED
    BY <1>1, <2>1, Zenon DEF Finishing
<1>3. PICK c \in Conns : c = msg[m].conn /\ conn[c].state # "FREE" /\ msg[m].caller = p
  <2>1. Owned(m)
    BY Zenon DEF IInv
  <2> QED
    BY <1>2, <2>1, MsgFact, Zenon DEF Owned
<1>4. Retires(m)
  BY <1>1, <1>2, <1>3, Zenon DEF Finishing, Released, Unlinks, Retires
<1>5. Others
  <2>1. PICK g \in Gens : g = conn[c].gen
    BY ConnFact, Zenon
  <2>2. UNCHANGED open \/ open' = [open EXCEPT ![p] = open[p] \cup {<<c, g>>}]
    BY <1>2, <1>3, <2>1, Zenon DEF SpConnectFinish, SpCallFinish, SpCloseFinish
  <2>3. TypeOK /\ p \in Clients
    BY Zenon DEF IInv, Clients
  <2>4. open' \in [Clients -> SUBSET (Conns \X Gens)]
    BY <2>2, <2>3 DEF TypeOK
  <2>5. faulted' \subseteq faulted \cup {p}
    BY Zenon DEF SpConnectFinish, SpCallFinish, SpCloseFinish
  <2>6. UNCHANGED <<inst, held>>
    BY <1>1, Zenon DEF Finishing
  <2> QED
    BY <2>3, <2>4, <2>5, <2>6, Zenon DEF TypeOK, Others
<1>6. Settles(c)
  <2>1. \/ UNCHANGED conn \/ conn' = ReleaseConns(conn, {c})
        \/ conn' = [conn EXCEPT ![c] = WithState(conn[c], "ERROR")]
    BY <1>2, <1>3, Zenon DEF SpConnectFinish, SpCallFinish, SpCloseFinish
  <2>2. CASE UNCHANGED conn
    BY <1>2, <1>3, <2>2, RetireKept, Zenon
  <2>3. CASE conn' = ReleaseConns(conn, {c})
    BY <2>3, RetireFreed, Zenon
  <2>4. CASE conn' = [conn EXCEPT ![c] = WithState(conn[c], "ERROR")]
    BY <1>3, <2>4, RetireState, Zenon
  <2> QED
    BY <2>1, <2>2, <2>3, <2>4, Zenon
<1> QED
  BY <1>3, <1>4, <1>5, <1>6, RetireInv, Zenon

=============================================================================
