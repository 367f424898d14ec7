------------------------------ MODULE FfmProofs -------------------------------
(***************************************************************************)
(* The theorems about the states of Ffm: what servers do, and what the     *)
(* death of a client or of a partition releases, keeps the invariant of    *)
(* FfmInvariant.                                                           *)
(***************************************************************************)
EXTENDS FfmInvariant

-----------------------------------------------------------------------------
(* What a partition does as a server, psa_get and psa_reply, keeps the        *)
(* invariant. Then the counterpart of StepInv for the steps that clear many   *)
(* entries of the tables at once.                                             *)

-----------------------------------------------------------------------------
(* Taking a message *)

Claimed(t, st) ==
    IF t = "CONNECT" THEN "CONNECTING" ELSE IF t = "CALL" THEN "ACTIVE" ELSE st

LEMMA ClaimedFits ==
    ASSUME NEW t \in Types, NEW a, NEW st, Fits("QUEUED", t, a, st),
           a = "NO" \/ t = "DISCONNECT"
    PROVE  Fits("ACTIVE", t, a, Claimed(t, st))
BY Zenon DEF Fits, Claimed, Types

\* r is message m in phase ph
Moved(r, m, ph) ==
    /\ r.phase = ph /\ r.type = msg[m].type /\ r.conn = msg[m].conn
    /\ r.service = msg[m].service /\ r.caller = msg[m].caller
    /\ r.abandoned = msg[m].abandoned

LEMMA MovedPhase ==
    \A m, ph, st : Moved(WithPhase(msg[m], ph, st), m, ph)
BY DEF WithPhase, Moved

LEMMA PhaseFact ==
    ASSUME IInv, NEW m \in Msgs, NEW ph \in Phases, NEW st \in Statuses
    PROVE  \E r \in Message : r = WithPhase(msg[m], ph, st) /\ Moved(r, m, ph)
<1>1. WithPhase(msg[m], ph, st) \in Message
  BY MsgFact, WithType, Zenon
<1>2. Moved(WithPhase(msg[m], ph, st), m, ph)
  BY MovedPhase, Zenon
<1> QED
  BY <1>1, <1>2, Zenon

Taking(m) == [m |-> m, gen |-> msg[m].gen, type |-> msg[m].type,
              conn |-> msg[m].conn, caller |-> msg[m].caller]

LEMMA TakingType ==
    ASSUME IInv, NEW m \in Msgs, msg[m].phase # "FREE"
    PROVE  Taking(m) \in Taken
<1>1. msg[m].caller \in Clients
  BY MsgFact, Zenon DEF IInv, Slotted, Slot
<1> QED
  BY <1>1, MsgFact, Zenon DEF Taking, Taken, Types, Clients

LEMMA GetInv ==
    ASSUME IInv, NEW p \in Partitions, NEW s \in Services, Get(p, s)
    PROVE  IInv'
<1>1. PICK m \in queue[s] :
        /\ Dequeue(s, m)
        /\ msg' = [msg EXCEPT ![m] = WithPhase(msg[m], "ACTIVE", msg[m].status)]
        /\ conn' = [conn EXCEPT ![msg[m].conn] = WithState(conn[msg[m].conn],
                        Claimed(msg[m].type, conn[msg[m].conn].state))]
        /\ held' = [held EXCEPT ![p] = held[p] \cup {Taking(m)}]
  BY Zenon DEF Get, Claimed, Taking
<1>2. m \in Msgs /\ msg[m].phase = "QUEUED" /\ msg[m].service = s
  BY LinksFact, InQueue, Zenon DEF Links
<1>3. PICK c \in Conns : c = msg[m].conn /\ conn[c].state # "FREE" /\ Alone(m, c)
  BY <1>2, MsgFact, AloneFact, Zenon
<1>4. PICK r \in Message :
        r = WithPhase(msg[m], "ACTIVE", msg[m].status) /\ Moved(r, m, "ACTIVE")
  <2>1. msg[m].status \in Statuses /\ "ACTIVE" \in Phases
    BY <1>2, MsgFact, Zenon DEF Message, Phases
  <2> QED
    BY <1>2, <2>1, PhaseFact, Zenon
<1>5. /\ Fits("QUEUED", msg[m].type, msg[m].abandoned, conn[c].state)
      /\ conn[c].caller = msg[m].caller /\ conn[c].service = s
      /\ msg[m].type \in Types
  BY <1>2, <1>3, MsgFact, Zenon DEF Types
<1>6. msg[m].abandoned = "NO" \/ msg[m].type = "DISCONNECT"
  BY <1>2, Zenon DEF IInv, Owned
<1>7. PICK st \in ConnStates :
        /\ st = Claimed(msg[m].type, conn[c].state) /\ st # "FREE"
        /\ Fits("ACTIVE", msg[m].type, msg[m].abandoned, st)
  <2>1. conn[c].state \in ConnStates
    BY ConnFact, Zenon
  <2>2. Claimed(msg[m].type, conn[c].state) \in ConnStates \ {"FREE"}
    BY <1>3, <2>1, Zenon DEF Claimed, ConnStates
  <2> QED
    BY <1>5, <1>6, <2>2, ClaimedFits, Zenon
<1>8. PICK k \in Connection : k = WithState(conn[c], st) /\ Becomes(k, c, st)
  BY <1>3, <1>7, StateSlot, Zenon
<1>9. MsgEdit(m, r) /\ ConnEdit(c, k)
  <2>1. MsgEdit(m, r)
    BY <1>1, <1>2, <1>4, EditMsg, Zenon
  <2>2. ConnEdit(c, k)
    BY <1>1, <1>3, <1>7, <1>8, EditConn, Zenon
  <2> QED
    BY <2>1, <2>2, Zenon
<1>10. Carries(r, k) /\ Slot(k, CallerInst(k.caller))
  <2>1. Carried(m)
    BY <1>2, Zenon DEF IInv
  <2>2. r.abandoned # "REPLY"
    BY <1>4, <1>6, <2>1, Zenon DEF Carried, Carries, Moved
  <2> QED
    BY <1>2, <1>4, <1>5, <1>7, <1>8, <2>2, Zenon DEF Carries, Becomes, Moved
<1>11. r.phase = "ACTIVE" /\ r.conn = c /\ r.caller = msg[m].caller
       /\ r.abandoned = msg[m].abandoned /\ r.type = msg[m].type
  BY <1>3, <1>4, Zenon DEF Moved
<1>12. Links'
  BY <1>1, <1>2, <1>9, <1>11, DequeueLinks, Zenon
<1>13. Parties(m) /\ Owned(m)'
  <2>1. UNCHANGED <<ns, stage, pend>>
    BY Zenon DEF Get
  <2> QED
    BY <1>2, <1>9, <1>11, <2>1, SameParties, Zenon
<1>14. Others
  <2>1. TypeOK /\ Taking(m) \in Taken
    BY <1>2, TakingType, Zenon DEF IInv
  <2>2. held' \in [Partitions -> SUBSET Taken]
    BY <1>1, <2>1, Zenon DEF TypeOK
  <2> QED
    BY <2>1, <2>2, Zenon DEF TypeOK, Get, Others
<1> QED
  BY <1>2, <1>3, <1>9, <1>10, <1>11, <1>12, <1>13, <1>14, StepInv, Zenon

-----------------------------------------------------------------------------
(* Answering a message *)

LEMMA RepliedFits ==
    ASSUME NEW t \in Types, NEW status, NEW latch, NEW a
    PROVE  LET st == StateAfterReply(t, status, latch) IN
           /\ st \in {"IDLE", "ERROR", "TERMINAL"}
           /\ Fits("COMPLETE", t, a, st)
BY Zenon DEF Fits, StateAfterReply, Types

\* What every reply does to the handles the partition holds
LEMMA ReplyOthers ==
    ASSUME IInv, NEW p \in Partitions, NEW h, NEW status, Reply(p, h, status)
    PROVE  Others /\ UNCHANGED <<ns, stage, pend>>
BY Zenon DEF Reply, IInv, TypeOK, Others

\* The client still waits: it finds the message complete.
Answers(m, c, status) ==
    /\ conn' = [conn EXCEPT ![c] =
          WithState(conn[c], StateAfterReply(msg[m].type, status, conn[c].latch))]
    /\ msg' = [msg EXCEPT ![m] = WithPhase(msg[m], "COMPLETE", status)]
    /\ UNCHANGED <<queue, ahead, asserted>>

LEMMA AnswerInv ==
    ASSUME IInv, NEW m \in Msgs, NEW c \in Conns, c = msg[m].conn,
           msg[m].phase = "ACTIVE", msg[m].abandoned = "NO",
           NEW status \in Statuses, Answers(m, c, status),
           UNCHANGED <<ns, stage, pend>>, Others
    PROVE  IInv'
<1>1. /\ conn[c].state # "FREE" /\ Alone(m, c) /\ msg[m].type \in Types
      /\ conn[c].caller = msg[m].caller /\ conn[c].service = msg[m].service
  BY MsgFact, AloneFact, Zenon DEF Types
<1>2. PICK st \in {"IDLE", "ERROR", "TERMINAL"} :
        /\ st = StateAfterReply(msg[m].type, status, conn[c].latch)
        /\ Fits("COMPLETE", msg[m].type, "NO", st)
  BY <1>1, RepliedFits
<1>3. st \in ConnStates /\ st # "FREE" /\ st \notin Waiting
  BY <1>2, Zenon DEF ConnStates, Waiting
<1>4. PICK k \in Connection : k = WithState(conn[c], st) /\ Becomes(k, c, st)
  BY <1>1, <1>3, StateSlot, Zenon
<1>5. ConnEdit(c, k)
  BY <1>2, <1>4, EditConn, Zenon DEF Answers
<1>6. PICK r \in Message :
        r = WithPhase(msg[m], "COMPLETE", status) /\ Moved(r, m, "COMPLETE")
  BY PhaseFact, Zenon DEF Phases
<1>7. MsgEdit(m, r)
  <2>1. msg' = [msg EXCEPT ![m] = r]
    BY <1>6, Zenon DEF Answers
  <2> QED
    BY <2>1, EditMsg, Zenon
<1>8. /\ Carries(r, k) /\ Slot(k, CallerInst(k.caller)) /\ k.state \notin Waiting
  BY <1>1, <1>2, <1>3, <1>4, <1>6, Zenon DEF Carries, Becomes, Moved
<1>9. r.phase = "COMPLETE" /\ r.conn = c /\ r.caller = msg[m].caller /\ r.abandoned = "NO"
  BY <1>6, Zenon DEF Moved
<1>10. Links'
  <2>1. UNCHANGED <<queue, ahead, asserted>>
    BY Zenon DEF Answers
  <2> QED
    BY <1>7, <1>9, <2>1, KeepLinks, Zenon
<1>11. Parties(m) /\ Owned(m)'
  BY <1>7, <1>9, SameParties, Zenon
<1> QED
  BY <1>1, <1>5, <1>7, <1>8, <1>9, <1>10, <1>11, StepInv, Zenon

\* The client gave up and the service must be told: the slot becomes the
\* disconnection the client can no longer send.
Disconnection(m, c) ==
    [phase |-> "QUEUED", type |-> "DISCONNECT", conn |-> c,
     service |-> conn[c].service, caller |-> conn[c].caller,
     abandoned |-> "CLOSE", status |-> "SUCCESS", gen |-> NextGen(msg[m].gen)]

Disconnects(m, c) ==
    /\ conn' = [conn EXCEPT ![c] = WithState(conn[c], "DISCONNECTING")]
    /\ msg' = [msg EXCEPT ![m] = Disconnection(m, c)]
    /\ Enqueue(conn[c].service, m)

LEMMA DisconnectInv ==
    ASSUME IInv, NEW m \in Msgs, NEW c \in Conns, c = msg[m].conn,
           msg[m].phase = "ACTIVE", msg[m].abandoned # "NO", Disconnects(m, c),
           UNCHANGED <<ns, stage, pend>>, Others
    PROVE  IInv'
<1>1. /\ conn[c].state # "FREE" /\ Alone(m, c)
      /\ conn[c].caller = msg[m].caller /\ conn[c].service = msg[m].service
      /\ msg[m].service \in Services /\ msg[m] \in Message
  BY MsgFact, AloneFact, Zenon
<1>2. PICK k \in Connection :
        k = WithState(conn[c], "DISCONNECTING") /\ Becomes(k, c, "DISCONNECTING")
  BY <1>1, StateSlot, Zenon DEF ConnStates
<1>3. PICK r \in Message :
        /\ r = Disconnection(m, c)
        /\ r.phase = "QUEUED" /\ r.type = "DISCONNECT" /\ r.conn = c
        /\ r.service = msg[m].service /\ r.caller = msg[m].caller /\ r.abandoned = "CLOSE"
  <2>1. PICK g \in Gens, x \in Clients \cup {None}, u \in Services :
           g = NextGen(msg[m].gen) /\ x = msg[m].caller /\ u = msg[m].service
    BY <1>1, NextGenType, Zenon DEF Message
  <2>2. Disconnection(m, c) =
          [phase |-> "QUEUED", type |-> "DISCONNECT", conn |-> c, service |-> u,
           caller |-> x, abandoned |-> "CLOSE", status |-> "SUCCESS", gen |-> g]
    BY <1>1, <2>1, Zenon DEF Disconnection
  <2>3. Disconnection(m, c) \in Message
    BY <2>2 DEF Message, Phases, Types, Statuses
  <2> QED
    BY <2>1, <2>2, <2>3
<1>4. MsgEdit(m, r) /\ ConnEdit(c, k)
  <2>1. MsgEdit(m, r)
    BY <1>3, EditMsg, Zenon DEF Disconnects
  <2>2. ConnEdit(c, k)
    BY <1>2, EditConn, Zenon DEF Disconnects
  <2> QED
    BY <2>1, <2>2, Zenon
<1>5. Carries(r, k) /\ Slot(k, CallerInst(k.caller))
  BY <1>1, <1>2, <1>3 DEF Carries, Fits, Becomes
<1>6. Links'
  <2>1. Enqueue(msg[m].service, m)
    BY <1>1, Zenon DEF Disconnects
  <2> QED
    BY <1>1, <1>3, <1>4, <2>1, EnqueueLinks, Zenon
<1>7. Parties(m) /\ Owned(m)'
  BY <1>3, <1>4, SameParties, Zenon
<1> QED
  BY <1>1, <1>3, <1>4, <1>5, <1>6, <1>7, StepInv, Zenon

\* The client gave up and nothing is owed: the message is dropped.
Drops(m, c, status) ==
    /\ msg' = ReleaseMsgs(msg, {m})
    /\ \/ conn' = ReleaseConns(conn, {c})
       \/ conn' = [conn EXCEPT ![c] = WithState(conn[c],
                     StateAfterReply(msg[m].type, status, conn[c].latch))]
    /\ UNCHANGED <<queue, ahead, asserted>>

LEMMA DropInv ==
    ASSUME IInv, NEW m \in Msgs, NEW c \in Conns, c = msg[m].conn,
           msg[m].phase = "ACTIVE", msg[m].abandoned # "NO", NEW status,
           Drops(m, c, status), UNCHANGED <<ns, stage, pend>>, Others
    PROVE  IInv'
<1>1. Retires(m)
  BY Zenon DEF Drops, Retires, Unlinks, Released
<1>2. conn[c].state # "FREE" /\ msg[m].type \in Types
  BY MsgFact, Zenon DEF Types
<1>3. PICK st \in {"IDLE", "ERROR", "TERMINAL"} :
        st = StateAfterReply(msg[m].type, status, conn[c].latch)
  BY <1>2, RepliedFits, Zenon
<1>4. \/ conn' = ReleaseConns(conn, {c})
      \/ conn' = [conn EXCEPT ![c] = WithState(conn[c], st)]
  BY <1>3, Zenon DEF Drops
<1>5. Settles(c)
  BY <1>2, <1>4, RetireFreed, RetireState, Zenon
<1> QED
  BY <1>1, <1>5, RetireInv, Zenon

LEMMA ReplyInv ==
    ASSUME IInv, NEW p \in Partitions, NEW h \in held[p], NEW status \in Statuses,
           Reply(p, h, status)
    PROVE  IInv'
<1>1. Others /\ UNCHANGED <<ns, stage, pend>>
  BY ReplyOthers, Zenon
<1>2. MsgResolves(p, h)
  BY Zenon DEF Reply
<1>3. PICK m \in Msgs, c \in Conns :
        m = h.m /\ c = msg[m].conn /\ msg[m].phase = "ACTIVE"
  BY <1>2, HandleFact, MsgFact, Zenon
<1>4. CASE msg[m].abandoned = "NO"
  <2>1. Answers(m, c, status)
    BY <1>3, <1>4, Zenon DEF Reply, Answers
  <2> QED
    BY <1>1, <1>3, <1>4, <2>1, AnswerInv, Zenon
<1>5. CASE msg[m].abandoned # "NO" /\ OwesDisconnect(m, status)
  <2>1. Disconnects(m, c)
    BY <1>3, <1>5, Zenon DEF Reply, Disconnects, Disconnection
  <2> QED
    BY <1>1, <1>3, <1>5, <2>1, DisconnectInv, Zenon
<1>6. CASE msg[m].abandoned # "NO" /\ ~OwesDisconnect(m, status)
  <2>1. Drops(m, c, status)
    BY <1>3, <1>6, Zenon DEF Reply, Drops
  <2> QED
    BY <1>1, <1>3, <1>6, <2>1, DropInv, Zenon
<1> QED
  BY <1>4, <1>5, <1>6, Zenon

-----------------------------------------------------------------------------
(* A step that frees entries of the tables and breaks connections *)

\* A message in use that is not freed stays as it is, on the connection it was
\* on, or is complete on that connection, broken.
Survives(n) ==
    LET c == msg[n].conn IN
    \/ msg'[n] = msg[n] /\ conn'[c] = conn[c]
    \/ /\ conn'[c] = Break(c) /\ msg[n].abandoned = "NO"
       /\ \/ msg[n].phase = "COMPLETE" /\ msg'[n] = msg[n]
          \/ msg'[n] = WithPhase(msg[n], "COMPLETE", "COMM_FAILURE")
MsgPurged(n) ==
    \/ msg'[n].phase = "FREE" /\ msg'[n].abandoned = "NO"
    \/ msg[n].phase # "FREE" /\ Survives(n)
ConnPurged(c) ==
    \/ conn'[c].state = "FREE" /\ Slot(conn'[c], 0)
    \/ /\ conn[c].state # "FREE" /\ conn'[c] \in {conn[c], Break(c)}
       /\ CallerInst(conn[c].caller)' = CallerInst(conn[c].caller)
       /\ conn'[c].state \in Waiting =>
             \A n \in Msgs : msg[n].phase # "FREE" /\ msg[n].conn = c => msg'[n] = msg[n]
PartyPurged(n) ==
    IF msg'[n].phase = "FREE"
    THEN ns' # n /\ \A q \in Partitions : pend'[q] # n
    ELSE (ns' = n <=> ns = n) /\ \A q \in Partitions : pend'[q] = n <=> pend[q] = n
RestPurged ==
    /\ msg' \in [Msgs -> Message] /\ conn' \in [Conns -> Connection]
    /\ inst' \in [Partitions -> Nat] /\ ns' \in Msgs \cup {NoMsg}
    /\ stage' \in {"idle", "enter", "run", "halted"}
    /\ pend' \in [Partitions -> Msgs \cup {NoMsg}] /\ faulted' \in SUBSET Partitions
    /\ held' \in [Partitions -> SUBSET Taken]
    /\ open' \in [Clients -> SUBSET (Conns \X Gens)]
    /\ StageOK'

LEMMA BrokenCarries ==
    ASSUME NEW r, NEW k, r.phase # "FREE", Carries(r, k), r.abandoned = "NO",
           NEW q, q.phase = "COMPLETE", q.type = r.type, q.conn = r.conn,
           q.service = r.service, q.caller = r.caller, q.abandoned = "NO"
    PROVE  Carries(q, WithRhandle(k, "ERROR", 0))
BY Zenon DEF Carries, Fits, WithRhandle

LEMMA SurvivesFact ==
    ASSUME IInv, NEW n \in Msgs, msg[n].phase # "FREE", Survives(n)
    PROVE  /\ Carries(msg'[n], conn'[msg[n].conn])
           /\ msg'[n].conn = msg[n].conn /\ msg'[n].caller = msg[n].caller
           /\ msg'[n].abandoned = msg[n].abandoned
           /\ msg[n].abandoned # "NO" => msg'[n] = msg[n]
<1>1. Carries(msg[n], conn[msg[n].conn])
  BY Zenon DEF IInv, Carried
<1>2. CASE msg'[n] = msg[n] /\ conn'[msg[n].conn] = conn[msg[n].conn]
  BY <1>1, <1>2, Zenon
<1>3. CASE /\ conn'[msg[n].conn] = Break(msg[n].conn) /\ msg[n].abandoned = "NO"
           /\ msg[n].phase = "COMPLETE" /\ msg'[n] = msg[n]
  BY <1>1, <1>3, BrokenCarries, Zenon DEF Break
<1>4. CASE /\ conn'[msg[n].conn] = Break(msg[n].conn) /\ msg[n].abandoned = "NO"
           /\ msg'[n] = WithPhase(msg[n], "COMPLETE", "COMM_FAILURE")
  <2>1. Moved(msg'[n], n, "COMPLETE")
    BY <1>4, MovedPhase, Zenon
  <2> QED
    BY <1>1, <1>4, <2>1, BrokenCarries, Zenon DEF Break, Moved
<1> QED
  BY <1>2, <1>3, <1>4, Zenon DEF Survives

LEMMA PurgeInv ==
    ASSUME IInv, RestPurged, Links', \A n \in Msgs : MsgPurged(n) /\ PartyPurged(n),
           \A c \in Conns : ConnPurged(c)
    PROVE  IInv'
<1>1. TypeOK'
  BY Zenon DEF RestPurged, Links, TypeOK
<1>2. ASSUME NEW n \in Msgs PROVE Carried(n)'
  <2>1. CASE msg'[n].phase = "FREE" /\ msg'[n].abandoned = "NO"
    BY <2>1, Zenon DEF Carried, Carries
  <2>2. CASE msg[n].phase # "FREE" /\ Survives(n)
    BY <2>2, SurvivesFact, Zenon DEF Carried
  <2> QED
    BY <2>1, <2>2, Zenon DEF MsgPurged
<1>3. ASSUME NEW n \in Msgs PROVE Owned(n)'
  <2>1. CASE msg'[n].phase = "FREE"
    BY <2>1, Zenon DEF PartyPurged, Owned
  <2>2. CASE msg'[n].phase # "FREE"
    <3>1. /\ msg[n].phase # "FREE" /\ Survives(n) /\ Owned(n)
          /\ (ns' = n <=> ns = n) /\ \A q \in Partitions : pend'[q] = n <=> pend[q] = n
      BY <2>2, Zenon DEF MsgPurged, PartyPurged, IInv
    <3>2. /\ msg'[n].caller = msg[n].caller /\ msg'[n].abandoned = msg[n].abandoned
          /\ msg[n].abandoned # "NO" => msg'[n] = msg[n]
      BY <3>1, SurvivesFact, Zenon
    <3> QED
      BY <2>2, <3>1, <3>2, Zenon DEF Owned
  <2> QED
    BY <2>1, <2>2, Zenon
<1>4. ASSUME NEW c \in Conns PROVE Slotted(c)' /\ Waited(c)'
  <2>1. CASE conn'[c].state = "FREE" /\ Slot(conn'[c], 0)
    BY <2>1, Zenon DEF Slotted, Slot, Waited, Waiting
  <2>2. CASE conn[c].state # "FREE" /\ conn'[c] = conn[c]
             /\ CallerInst(conn[c].caller)' = CallerInst(conn[c].caller)
             /\ (conn'[c].state \in Waiting => \A n \in Msgs :
                   msg[n].phase # "FREE" /\ msg[n].conn = c => msg'[n] = msg[n])
    <3>1. Slotted(c) /\ Waited(c)
      BY Zenon DEF IInv
    <3> QED
      BY <2>2, <3>1, Zenon DEF Slotted, Waited
  <2>3. CASE conn[c].state # "FREE" /\ conn'[c] = Break(c)
             /\ CallerInst(conn[c].caller)' = CallerInst(conn[c].caller)
    <3>1. Slot(conn[c], CallerInst(conn[c].caller))
      BY Zenon DEF IInv, Slotted
    <3>2. /\ conn'[c].state = "ERROR" /\ conn'[c].caller = conn[c].caller
          /\ conn'[c].service = conn[c].service /\ conn'[c].inst = conn[c].inst
      BY <2>3, BreakState, Zenon
    <3> QED
      BY <2>3, <3>1, <3>2, Zenon DEF Slotted, Slot, Waited, Waiting
  <2> QED
    BY <2>1, <2>2, <2>3, Zenon DEF ConnPurged
<1>5. OneInFlight'
  <2>1. \A n \in Msgs : msg'[n].phase # "FREE" =>
           msg[n].phase # "FREE" /\ msg'[n].conn = msg[n].conn
    BY SurvivesFact, Zenon DEF MsgPurged
  <2> QED
    BY <2>1 DEF IInv, OneInFlight
<1> QED
  BY <1>1, <1>2, <1>3, <1>4, <1>5, Zenon DEF IInv, RestPurged, Links

-----------------------------------------------------------------------------
(* Emptying queues *)

Touched(x) == {msg[m].service : m \in {n \in MsgsOf(x) : msg[n].phase = "QUEUED"}}
\* The messages that stay in a queue
Stays(n, u, x, D) ==
    msg[n].phase = "QUEUED" /\ msg[n].service = u /\ u \notin D /\ n \notin MsgsOf(x)

LEMMA UnlinkFact ==
    ASSUME IInv, NEW x, NEW D \in SUBSET Services, Unlink(x, D)
    PROVE  /\ queue' \in [Services -> SUBSET Msgs] /\ ahead' \in [Msgs -> SUBSET Msgs]
           /\ Touched(x) \in SUBSET Services
           /\ \A u \in Services, n \in Msgs : n \in queue'[u] <=> Stays(n, u, x, D)
           /\ \A u \in Services : u \in D => queue'[u] = {}
           /\ \A u \in Services \ D : u \in Touched(x) \/ queue'[u] = queue[u]
<1>1. Links
  BY LinksFact, Zenon
<1>2. queue' \in [Services -> SUBSET Msgs] /\ ahead' \in [Msgs -> SUBSET Msgs]
  BY <1>1, Zenon DEF Links, Unlink
<1>3. Touched(x) \in SUBSET Services
  BY MsgFact, Zenon DEF Touched, MsgsOf
<1>4. ASSUME NEW u \in Services, NEW n \in Msgs
      PROVE  n \in queue'[u] <=> Stays(n, u, x, D)
  <2>1. n \in queue[u] <=> msg[n].phase = "QUEUED" /\ msg[n].service = u
    BY <1>1, InQueue, Zenon
  <2>2. CASE u \in D
    BY <2>2, Zenon DEF Unlink, Stays
  <2>3. CASE u \notin D
    <3>1. \A s \in D : n \in queue[s] => msg[n].service = s
      BY <1>1, InQueue, Zenon
    <3>2. n \in queue'[u] <=> /\ n \in queue[u]
                              /\ ~(n \in MsgsOf(x) /\ msg[n].phase = "QUEUED")
                              /\ \A s \in D : n \notin queue[s]
      BY <2>3, Zenon DEF Unlink
    <3> QED
      BY <2>1, <2>3, <3>1, <3>2, Zenon DEF Stays
  <2> QED
    BY <2>2, <2>3, Zenon
<1>5. ASSUME NEW u \in D PROVE queue'[u] = {}
  BY <1>5, Zenon DEF Unlink
<1>6. ASSUME NEW u \in Services \ D, u \notin Touched(x) PROVE queue'[u] = queue[u]
  <2>1. ASSUME NEW n \in Msgs PROVE n \in queue'[u] <=> n \in queue[u]
    <3>1. n \in queue[u] <=> msg[n].phase = "QUEUED" /\ msg[n].service = u
      BY <1>1, InQueue, Zenon
    <3>2. n \in MsgsOf(x) /\ msg[n].phase = "QUEUED" => msg[n].service # u
      BY <1>6, Zenon DEF Touched
    <3> QED
      BY <1>4, <3>1, <3>2, Zenon DEF Stays
  <2>2. queue[u] \subseteq Msgs /\ queue'[u] \subseteq Msgs
    BY <1>1, <1>2, Zenon DEF Links
  <2> QED
    BY <2>1, <2>2, Zenon
<1> QED
  BY <1>2, <1>3, <1>4, <1>5, <1>6, Zenon

\* The queues name the messages that are still waiting.
LEMMA UnlinkQueues ==
    ASSUME IInv, NEW x, NEW D \in SUBSET Services, Unlink(x, D),
           \A n \in Msgs, u \in Services :
              msg'[n].phase = "QUEUED" /\ msg'[n].service = u <=> Stays(n, u, x, D)
    PROVE  QueueOK'
<1> SUFFICES ASSUME NEW u \in Services, NEW n \in Msgs
             PROVE  n \in queue'[u] <=> msg'[n].phase = "QUEUED" /\ msg'[n].service = u
  BY UnlinkFact DEF QueueOK
<1> QED
  BY UnlinkFact

-----------------------------------------------------------------------------
(* What the death of a client or of a partition releases keeps the invariant, *)
(* and with it every step does.                                               *)

-----------------------------------------------------------------------------
(* A guest terminates *)

LEMMA GuestTerminateInv ==
    ASSUME IInv, NEW g \in Guests, GuestTerminate(g)
    PROVE  IInv'
<1>1. /\ stage = "idle" /\ ns = NoMsg
      /\ UNCHANGED <<inst, ns, stage, pend, faulted, held>>
      /\ msg' = ReleaseMsgs(msg, MsgsOf(g)) /\ conn' = ReleaseConns(conn, ClientConns(g))
      /\ Unlink(g, {}) /\ asserted' = Resignal(asserted, queue', Touched(g))
      /\ open' = [open EXCEPT ![g] = {}]
  BY Zenon DEF GuestTerminate, Touched, IInv, StageOK
<1>2. ASSUME NEW n \in Msgs
      PROVE  /\ msg'[n] \in Message
             /\ n \in MsgsOf(g) => msg'[n].phase = "FREE" /\ msg'[n].abandoned = "NO"
             /\ n \notin MsgsOf(g) => msg'[n] = msg[n]
  <2>1. msg'[n] = IF n \in MsgsOf(g) THEN FreeMsg(NextGen(msg[n].gen)) ELSE msg[n]
    BY <1>1, Zenon DEF ReleaseMsgs
  <2>2. msg[n] \in Message /\ FreeMsg(NextGen(msg[n].gen)) \in Message
    BY MsgFact, NextGenType, FreeType, Zenon
  <2> QED
    BY <2>1, <2>2, FreeFields, Zenon
<1>3. ASSUME NEW c \in Conns
      PROVE  /\ conn'[c] \in Connection
             /\ c \in ClientConns(g) => conn'[c].state = "FREE" /\ Slot(conn'[c], 0)
             /\ c \notin ClientConns(g) => conn'[c] = conn[c]
  <2>1. conn'[c] = IF c \in ClientConns(g) THEN FreeConn(NextGen(conn[c].gen)) ELSE conn[c]
    BY <1>1, Zenon DEF ReleaseConns
  <2>2. conn[c] \in Connection /\ FreeConn(NextGen(conn[c].gen)) \in Connection
    BY ConnFact, NextGenType, FreeType, Zenon
  <2> QED
    BY <2>1, <2>2, FreeSlot, FreeState, Zenon
<1>4. ASSUME NEW n \in Msgs, msg[n].phase # "FREE"
      PROVE  n \in MsgsOf(g) <=> msg[n].conn \in ClientConns(g)
  BY <1>4, MsgFact, Zenon DEF MsgsOf, ClientConns
<1>5. ASSUME NEW n \in Msgs PROVE MsgPurged(n) /\ PartyPurged(n)
  <2>1. Owned(n) /\ Carried(n)
    BY Zenon DEF IInv
  <2>2. CASE n \in MsgsOf(g)
    <3>1. msg[n].phase # "FREE" /\ msg[n].caller = g
      BY <2>2, Zenon DEF MsgsOf
    <3>2. \A q \in Partitions : pend[q] # n
      BY <2>1, <3>1, FfmConstants, Zenon DEF Owned
    <3> QED
      BY <1>1, <1>2, <2>2, <3>2, NoMsgFact, Zenon DEF MsgPurged, PartyPurged
  <2>3. CASE msg[n].phase = "FREE"
    <3>1. n \notin MsgsOf(g) /\ msg[n].abandoned = "NO"
      BY <2>1, <2>3, Zenon DEF MsgsOf, Carried, Carries
    <3>2. \A q \in Partitions : pend[q] # n
      BY <2>1, <2>3, Zenon DEF Owned
    <3> QED
      BY <1>1, <1>2, <2>3, <3>1, <3>2, NoMsgFact, Zenon DEF MsgPurged, PartyPurged
  <2>4. CASE msg[n].phase # "FREE" /\ n \notin MsgsOf(g)
    <3>1. msg'[n] = msg[n] /\ conn'[msg[n].conn] = conn[msg[n].conn]
      BY <1>2, <1>3, <1>4, <2>4, MsgFact, Zenon
    <3> QED
      BY <1>1, <2>4, <3>1, Zenon DEF MsgPurged, Survives, PartyPurged
  <2> QED
    BY <2>2, <2>3, <2>4, Zenon
<1>6. ASSUME NEW c \in Conns PROVE ConnPurged(c)
  <2>1. CASE c \in ClientConns(g)
    BY <1>3, <2>1, Zenon DEF ConnPurged
  <2>2. CASE conn[c].state = "FREE"
    <3>1. c \notin ClientConns(g) /\ Slot(conn[c], 0)
      BY <2>2, Zenon DEF ClientConns, IInv, Slotted, Slot
    <3> QED
      BY <1>3, <2>2, <3>1, Zenon DEF ConnPurged
  <2>3. CASE conn[c].state # "FREE" /\ c \notin ClientConns(g)
    <3>1. conn'[c] = conn[c] /\ CallerInst(conn[c].caller)' = CallerInst(conn[c].caller)
      BY <1>1, <1>3, <2>3, Zenon DEF CallerInst
    <3>2. ASSUME NEW n \in Msgs, msg[n].phase # "FREE", msg[n].conn = c
          PROVE  msg'[n] = msg[n]
      BY <1>2, <1>4, <2>3, <3>2, Zenon
    <3> QED
      BY <2>3, <3>1, <3>2, Zenon DEF ConnPurged
  <2> QED
    BY <2>1, <2>2, <2>3, Zenon
<1>7. RestPurged
  <2>1. msg' \in [Msgs -> Message] /\ conn' \in [Conns -> Connection]
    BY <1>1, <1>2, <1>3, Zenon DEF ReleaseMsgs, ReleaseConns
  <2>2. open' \in [Clients -> SUBSET (Conns \X Gens)]
    BY <1>1, Zenon DEF IInv, TypeOK
  <2> QED
    BY <1>1, <2>1, <2>2, Zenon DEF IInv, TypeOK, StageOK, RestPurged
<1>8. Links'
  <2>1. QueueOK'
    <3>1. ASSUME NEW n \in Msgs, NEW u \in Services
          PROVE  msg'[n].phase = "QUEUED" /\ msg'[n].service = u <=> Stays(n, u, g, {})
      BY <1>2, Zenon DEF Stays
    <3> QED
      BY <1>1, <3>1, UnlinkQueues, Zenon
  <2>2. /\ queue' \in [Services -> SUBSET Msgs] /\ ahead' \in [Msgs -> SUBSET Msgs]
        /\ Touched(g) \in SUBSET Services
        /\ \A u \in Services : u \in Touched(g) \/ queue'[u] = queue[u]
    BY <1>1, UnlinkFact, Zenon
  <2>3. /\ asserted' \in [Partitions -> SUBSET Services]
        /\ \A u \in Services : u \in asserted'[Owner[u]] <=> queue'[u] # {}
    BY <1>1, <2>2, LinksFact, ResignalFact, Zenon
  <2> QED
    BY <2>1, <2>2, <2>3, Zenon DEF Links, SignalOK
<1> QED
  BY <1>5, <1>6, <1>7, <1>8, PurgeInv, Zenon

-----------------------------------------------------------------------------
(* A partition is recovered *)

Dead(p) == {s \in Services : Owner[s] = p}
Closed(p) ==
    {msg[m].conn : m \in {n \in ServedBy(p) : msg[n].abandoned = "CLOSE"}}

\* What becomes of a message in use: its client died or had given it up; it waits
\* for a client that lives; it is none of the dead partition's.
Freed(n, p) ==
    /\ msg[n].caller = p \/ (n \in ServedBy(p) /\ msg[n].abandoned # "NO")
    /\ msg'[n] = FreeMsg(NextGen(msg[n].gen))
Failed(n, p) ==
    /\ msg[n].caller # p /\ msg[n].abandoned = "NO" /\ n \in ServedBy(p)
    /\ msg'[n] = WithPhase(msg[n], "COMPLETE", "COMM_FAILURE")
Spared(n, p) ==
    msg[n].caller # p /\ n \notin ServedBy(p) /\ msg'[n] = msg[n]

LEMMA MsgFate ==
    ASSUME NEW p, Recover(p), NEW n \in Msgs
    PROVE  /\ msg[n].phase = "FREE" => msg'[n] = msg[n]
           /\ msg[n].phase # "FREE" => Freed(n, p) \/ Failed(n, p) \/ Spared(n, p)
<1>1. msg'[n] =
        IF n \in {m \in ServedBy(p) : msg[m].abandoned # "NO"} \cup MsgsOf(p)
        THEN FreeMsg(NextGen(msg[n].gen))
        ELSE IF n \in ServedBy(p)
        THEN WithPhase(msg[n], "COMPLETE", "COMM_FAILURE")
        ELSE msg[n]
  BY Zenon DEF Recover
<1>2. /\ n \in MsgsOf(p) <=> msg[n].phase # "FREE" /\ msg[n].caller = p
      /\ n \in ServedBy(p) => msg[n].phase # "FREE"
  BY Zenon DEF MsgsOf, ServedBy
<1> QED
  BY <1>1, <1>2, Zenon DEF Freed, Failed, Spared

LEMMA ConnFate ==
    ASSUME NEW p, Recover(p), NEW c \in Conns
    PROVE  \/ /\ c \in Closed(p) \cup ClientConns(p)
              /\ conn'[c] = FreeConn(NextGen(conn[c].gen))
           \/ /\ c \notin Closed(p) \cup ClientConns(p)
              /\ conn[c].state \notin {"FREE", "TERMINAL"} /\ Owner[conn[c].service] = p
              /\ conn'[c] = Break(c)
           \/ /\ c \notin Closed(p) \cup ClientConns(p)
              /\ conn[c].state \in {"FREE", "TERMINAL"} \/ Owner[conn[c].service] # p
              /\ conn'[c] = conn[c]
<1>1. conn'[c] =
        IF c \in Closed(p) \cup ClientConns(p) THEN FreeConn(NextGen(conn[c].gen))
        ELSE IF conn[c].state \notin {"FREE", "TERMINAL"} /\ Owner[conn[c].service] = p
        THEN Break(c) ELSE conn[c]
  BY Zenon DEF Recover, Closed
<1> QED
  BY <1>1, Zenon

\* The connection of a message that is not freed is not freed either.
LEMMA ConnStays ==
    ASSUME IInv, NEW p, NEW n \in Msgs, msg[n].phase # "FREE", msg[n].caller # p,
           n \in ServedBy(p) => msg[n].abandoned = "NO"
    PROVE  msg[n].conn \notin Closed(p) \cup ClientConns(p)
<1>1. msg[n].conn \notin ClientConns(p)
  BY MsgFact, Zenon DEF ClientConns
<1>2. ASSUME NEW m \in ServedBy(p), msg[m].abandoned = "CLOSE", msg[m].conn = msg[n].conn
      PROVE  FALSE
  <2>1. m \in Msgs /\ msg[m].phase # "FREE"
    BY Zenon DEF ServedBy
  <2>2. m = n
    BY <1>2, <2>1, Zenon DEF IInv, OneInFlight
  <2> QED
    BY <1>2, <2>2, Zenon
<1> QED
  BY <1>1, <1>2, Zenon DEF Closed

LEMMA FailedSurvives ==
    ASSUME IInv, NEW p, Recover(p), NEW n \in Msgs, msg[n].phase # "FREE", Failed(n, p)
    PROVE  Survives(n) /\ msg'[n].phase = "COMPLETE"
<1>1. /\ msg[n].caller # p /\ msg[n].abandoned = "NO" /\ n \in ServedBy(p)
      /\ msg'[n] = WithPhase(msg[n], "COMPLETE", "COMM_FAILURE")
  BY Zenon DEF Failed
<1>2. /\ msg[n].conn \in Conns /\ conn[msg[n].conn].service = msg[n].service
      /\ msg[n].phase \in {"QUEUED", "ACTIVE"} /\ Owner[msg[n].service] = p
  BY <1>1, MsgFact, Zenon DEF ServedBy
<1>3. conn[msg[n].conn].state \notin {"FREE", "TERMINAL"}
  BY <1>2, MsgFact, Zenon DEF Fits
<1>4. conn'[msg[n].conn] = Break(msg[n].conn)
  <2>1. msg[n].conn \notin Closed(p) \cup ClientConns(p)
    BY <1>1, ConnStays, Zenon
  <2>2. Owner[conn[msg[n].conn].service] = p
    BY <1>2, Zenon
  <2> QED
    BY <1>2, <1>3, <2>1, <2>2, ConnFate, Zenon
<1>5. msg'[n].phase = "COMPLETE"
  BY <1>1, MovedPhase DEF Moved
<1> QED
  BY <1>1, <1>4, <1>5, Zenon DEF Survives

LEMMA SparedSurvives ==
    ASSUME IInv, NEW p, Recover(p), NEW n \in Msgs, msg[n].phase # "FREE", Spared(n, p)
    PROVE  Survives(n)
<1>1. msg[n].caller # p /\ n \notin ServedBy(p) /\ msg'[n] = msg[n]
  BY Zenon DEF Spared
<1>2. msg[n].conn \in Conns /\ conn[msg[n].conn].service = msg[n].service
  BY MsgFact, Zenon
<1>3. \/ Owner[conn[msg[n].conn].service] = p /\ conn'[msg[n].conn] = Break(msg[n].conn)
      \/ conn'[msg[n].conn] = conn[msg[n].conn]
  BY <1>1, <1>2, ConnFate, ConnStays, Zenon
<1>4. ASSUME Owner[msg[n].service] = p
      PROVE  msg[n].phase = "COMPLETE" /\ msg[n].abandoned = "NO"
  <2>1. msg[n].phase = "COMPLETE"
    BY <1>1, <1>4, MsgFact, Zenon DEF ServedBy, Message, Phases
  <2> QED
    BY <2>1, Zenon DEF IInv, Owned
<1> QED
  BY <1>1, <1>2, <1>3, <1>4, Zenon DEF Survives

\* The messages and who waits for them
LEMMA RecoverMsgs ==
    ASSUME IInv, NEW p \in Partitions, Recover(p), NEW n \in Msgs
    PROVE  MsgPurged(n) /\ PartyPurged(n)
<1>1. ns' = ns /\ pend'[p] = NoMsg /\ \A q \in Partitions \ {p} : pend'[q] = pend[q]
  BY Zenon DEF Recover, IInv, TypeOK
<1>2. Owned(n) /\ Carried(n) /\ n # NoMsg
  BY NoMsgFact, Zenon DEF IInv
<1>3. CASE msg[n].phase = "FREE"
  <2>1. msg'[n] = msg[n] /\ msg[n].abandoned = "NO"
    BY <1>2, <1>3, MsgFate, Zenon DEF Carried, Carries
  <2>2. ns # n /\ \A q \in Partitions : pend[q] # n
    BY <1>2, <1>3, Zenon DEF Owned
  <2>3. \A q \in Partitions : pend'[q] # n
    BY <1>1, <1>2, <2>2, Zenon
  <2> QED
    BY <1>1, <1>3, <2>1, <2>2, <2>3, Zenon DEF MsgPurged, PartyPurged
<1>4. CASE msg[n].phase # "FREE" /\ Freed(n, p)
  <2>1. msg'[n].phase = "FREE" /\ msg'[n].abandoned = "NO"
    BY <1>4, FreeFields, Zenon DEF Freed
  <2>2. msg[n].caller = p \/ msg[n].abandoned # "NO"
    BY <1>4, Zenon DEF Freed
  <2>3. ns # n /\ \A q \in Partitions : pend[q] = n => q = p
    BY <1>2, <1>4, <2>2, FfmConstants, Zenon DEF Owned
  <2>4. \A q \in Partitions : pend'[q] # n
    BY <1>1, <1>2, <2>3, Zenon
  <2> QED
    BY <1>1, <2>1, <2>3, <2>4, Zenon DEF MsgPurged, PartyPurged
<1>5. CASE msg[n].phase # "FREE" /\ (Failed(n, p) \/ Spared(n, p))
  <2>1. Survives(n) /\ msg'[n].phase # "FREE"
    BY <1>5, FailedSurvives, SparedSurvives, Zenon DEF Spared
  <2>2. msg[n].caller # p
    BY <1>5, Zenon DEF Failed, Spared
  <2>3. pend[p] # n
    BY <1>2, <2>2, Zenon DEF Owned
  <2>4. \A q \in Partitions : pend'[q] = n <=> pend[q] = n
    BY <1>1, <1>2, <2>3, Zenon
  <2> QED
    BY <1>1, <1>5, <2>1, <2>4, Zenon DEF MsgPurged, PartyPurged
<1> QED
  BY <1>3, <1>4, <1>5, MsgFate, Zenon

LEMMA RecoverConns ==
    ASSUME IInv, NEW p \in Partitions, Recover(p), NEW c \in Conns
    PROVE  ConnPurged(c)
<1>1. CASE conn[c].state = "FREE"
  <2>1. c \notin ClientConns(p)
    BY <1>1, Zenon DEF ClientConns
  <2>2. c \notin Closed(p)
    BY <1>1, MsgFact, Zenon DEF Closed, ServedBy
  <2>3. conn'[c] = conn[c]
    BY <1>1, <2>1, <2>2, ConnFate, Zenon
  <2>4. Slot(conn[c], 0)
    BY <1>1, Zenon DEF IInv, Slotted, Slot
  <2> QED
    BY <1>1, <2>3, <2>4, Zenon DEF ConnPurged
<1>2. CASE c \in Closed(p) \cup ClientConns(p)
  <2>1. conn'[c] = FreeConn(NextGen(conn[c].gen))
    BY <1>2, ConnFate, Zenon
  <2>2. conn'[c].state = "FREE"
    BY <2>1, FreeState, Zenon
  <2>3. Slot(conn'[c], 0)
    BY <2>1, FreeSlot, Zenon
  <2> QED
    BY <2>2, <2>3, Zenon DEF ConnPurged
<1>3. CASE conn[c].state # "FREE" /\ c \notin Closed(p) \cup ClientConns(p)
  <2>1. conn[c].caller # p
    BY <1>3, Zenon DEF ClientConns
  <2>2. CallerInst(conn[c].caller)' = CallerInst(conn[c].caller)
    <3>1. \A q \in Partitions \ {p} : inst'[q] = inst[q]
      BY Zenon DEF Recover, IInv, TypeOK
    <3>2. conn'[c] = Break(c) \/ conn'[c] = conn[c]
      BY <1>3, ConnFate, Zenon
    <3>3. conn'[c].caller = conn[c].caller
      BY <3>2, BreakState
    <3> QED
      BY <2>1, <3>1, <3>3 DEF CallerInst
  <2>3. CASE conn'[c] = Break(c)
    <3>1. conn'[c].state \notin Waiting
      BY <2>3, BreakState, Zenon DEF Waiting
    <3> QED
      BY <1>3, <2>2, <2>3, <3>1, Zenon DEF ConnPurged
  <2>4. CASE /\ conn[c].state \in {"FREE", "TERMINAL"} \/ Owner[conn[c].service] # p
             /\ conn'[c] = conn[c]
    <3>1. ASSUME NEW n \in Msgs, conn[c].state \in Waiting, msg[n].phase # "FREE",
                 msg[n].conn = c
          PROVE  msg'[n] = msg[n]
      <4>1. Owner[conn[c].service] # p
        BY <2>4, <3>1, Zenon DEF Waiting
      <4>2. msg[n].caller # p /\ n \notin ServedBy(p)
        BY <2>1, <3>1, <4>1, MsgFact, Zenon DEF ServedBy
      <4> QED
        BY <3>1, <4>2, MsgFate, Zenon DEF Freed, Failed, Spared
    <3> QED
      BY <1>3, <2>2, <2>4, <3>1, Zenon DEF ConnPurged
  <2> QED
    BY <1>3, <2>3, <2>4, ConnFate, Zenon
<1> QED
  BY <1>1, <1>2, <1>3, Zenon

LEMMA RecoverLinks ==
    ASSUME IInv, NEW p \in Partitions, Recover(p)
    PROVE  Links'
<1>1. /\ Unlink(p, Dead(p))
      /\ asserted' = [Resignal(asserted, queue', Touched(p)) EXCEPT ![p] = {}]
  BY Zenon DEF Recover, Dead, Touched
<1>2. Dead(p) \in SUBSET Services
  BY Zenon DEF Dead
<1>3. QueueOK'
  <2>1. ASSUME NEW n \in Msgs, NEW u \in Services
        PROVE  msg'[n].phase = "QUEUED" /\ msg'[n].service = u <=> Stays(n, u, p, Dead(p))
    <3>1. CASE msg[n].phase = "FREE"
      BY <3>1, MsgFate, Zenon DEF Stays
    <3>2. CASE msg[n].phase # "FREE" /\ (Freed(n, p) \/ Failed(n, p))
      <4>1. msg'[n].phase # "QUEUED"
        BY <3>2, FailedSurvives, FreeFields, Zenon DEF Freed
      <4>2. msg[n].caller = p \/ n \in ServedBy(p)
        BY <3>2, Zenon DEF Freed, Failed
      <4> QED
        BY <3>2, <4>1, <4>2, Zenon DEF Stays, MsgsOf, ServedBy, Dead
    <3>3. CASE msg[n].phase # "FREE" /\ Spared(n, p)
      BY <3>3, Zenon DEF Stays, Spared, MsgsOf, ServedBy, Dead
    <3> QED
      BY <3>1, <3>2, <3>3, MsgFate, Zenon
  <2> QED
    BY <1>1, <1>2, <2>1, UnlinkQueues, Zenon
<1>4. /\ queue' \in [Services -> SUBSET Msgs] /\ ahead' \in [Msgs -> SUBSET Msgs]
      /\ Touched(p) \in SUBSET Services
      /\ \A u \in Dead(p) : queue'[u] = {}
      /\ \A u \in Services \ Dead(p) : u \in Touched(p) \/ queue'[u] = queue[u]
  BY <1>1, <1>2, UnlinkFact, Zenon
<1>5. PICK a \in [Partitions -> SUBSET Services] :
        /\ a = Resignal(asserted, queue', Touched(p))
        /\ \A u \in Services \ Dead(p) : u \in a[Owner[u]] <=> queue'[u] # {}
  BY <1>4, LinksFact, ResignalFact
<1>6. asserted' = [a EXCEPT ![p] = {}]
  BY <1>1, <1>5, Zenon
<1>7. asserted' \in [Partitions -> SUBSET Services]
  BY <1>6, Zenon
<1>8. ASSUME NEW u \in Services PROVE u \in asserted'[Owner[u]] <=> queue'[u] # {}
  <2>1. Owner[u] \in Partitions /\ (u \in Dead(p) <=> Owner[u] = p)
    BY FfmConstants, Zenon DEF Dead
  <2> QED
    BY <1>4, <1>5, <1>6, <2>1, Zenon
<1> QED
  BY <1>3, <1>4, <1>7, <1>8, Zenon DEF Links, SignalOK

LEMMA RecoverInv == ASSUME IInv, NEW p \in Partitions, Recover(p) PROVE IInv'
<1>1. msg' \in [Msgs -> Message]
  <2>1. ASSUME NEW n \in Msgs PROVE msg'[n] \in Message
    <3>1. /\ msg[n] \in Message /\ FreeMsg(NextGen(msg[n].gen)) \in Message
          /\ WithPhase(msg[n], "COMPLETE", "COMM_FAILURE") \in Message
      BY MsgFact, NextGenType, FreeType, WithType, Zenon DEF Phases, Statuses
    <3> QED
      BY <3>1, MsgFate, Zenon DEF Freed, Failed, Spared
  <2>2. msg' = [n \in Msgs |-> msg'[n]]
    BY Zenon DEF Recover
  <2> QED
    BY <2>1, <2>2, Zenon
<1>2. conn' \in [Conns -> Connection]
  <2>1. ASSUME NEW c \in Conns PROVE conn'[c] \in Connection
    <3>1. conn[c] \in Connection /\ FreeConn(NextGen(conn[c].gen)) \in Connection
      BY ConnFact, NextGenType, FreeType, Zenon
    <3>2. Break(c) \in Connection
      BY <3>1, WithType, Zenon DEF Break, ConnStates
    <3> QED
      BY <3>1, <3>2, ConnFate, Zenon
  <2>2. conn' = [c \in Conns |-> conn'[c]]
    BY Zenon DEF Recover
  <2> QED
    BY <2>1, <2>2, Zenon
<1>3. RestPurged
  <2>1. TypeOK /\ StageOK /\ p \in Clients
    BY Zenon DEF IInv, Clients
  <2>2. /\ inst' = [inst EXCEPT ![p] = inst[p] + 1] /\ pend' = [pend EXCEPT ![p] = NoMsg]
        /\ held' = [held EXCEPT ![p] = {}] /\ open' = [open EXCEPT ![p] = {}]
        /\ faulted' = faulted \ {p} /\ ns' = ns
        /\ stage \in {"enter", "run"} /\ stage' \in {stage, "halted"}
    BY Zenon DEF Recover
  <2>3. inst' \in [Partitions -> Nat] /\ pend' \in [Partitions -> Msgs \cup {NoMsg}]
    BY <2>1, <2>2 DEF TypeOK
  <2>4. /\ held' \in [Partitions -> SUBSET Taken]
        /\ open' \in [Clients -> SUBSET (Conns \X Gens)]
    BY <2>1, <2>2, Zenon DEF TypeOK
  <2>5. /\ ns' \in Msgs \cup {NoMsg} /\ stage' \in {"idle", "enter", "run", "halted"}
        /\ faulted' \in SUBSET Partitions /\ StageOK'
    BY <2>1, <2>2, Zenon DEF TypeOK, StageOK
  <2> QED
    BY <1>1, <1>2, <2>3, <2>4, <2>5, Zenon DEF RestPurged
<1> QED
  BY <1>3, RecoverMsgs, RecoverConns, RecoverLinks, PurgeInv, Zenon

-----------------------------------------------------------------------------
(* Every step *)

LEMMA ClientInv == ASSUME IInv, NEW x \in Clients, ClientStep(x) PROVE IInv'
<1>1. ASSUME NEW s \in Services, Connect(x, s) \/ ConnectNoMessage(x, s) PROVE IInv'
  BY <1>1, ConnectInv, ConnectNoMessageInv, Zenon
<1>2. ASSUME NEW c \in Conns, Call(x, c) \/ CallTooLarge(x, c) \/ CallMisuse(x, c)
      PROVE  IInv'
  BY <1>2, CallInv, CallTooLargeInv, CallMisuseInv, Zenon
<1>3. ASSUME NEW c \in Conns, Close(x, c) \/ CloseAbandoned(x, c) \/ CloseNoMessage(x, c)
      PROVE  IInv'
  BY <1>3, CloseInv, CloseAbandonedInv, CloseNoMessageInv, Zenon
<1> QED
  BY <1>1, <1>2, <1>3, Zenon DEF ClientStep

LEMMA PartitionInv == ASSUME IInv, NEW p \in Partitions, PartitionStep(p) PROVE IInv'
<1>1. CASE SpConnectFinish(p) \/ SpCallFinish(p) \/ SpCloseFinish(p)
  BY <1>1, FinishInv, Zenon
<1>2. CASE ServerStep(p)
  BY <1>2, GetInv, SetRhandleInv, ReplyInv, Zenon DEF ServerStep
<1>3. CASE Fault(p) \/ Recover(p)
  BY <1>3, FaultInv, RecoverInv, Zenon
<1> QED
  BY <1>1, <1>2, <1>3, Zenon DEF PartitionStep

LEMMA StutterInv == ASSUME IInv, UNCHANGED vars PROVE IInv'
<1>1. UNCHANGED <<queue, ahead, asserted, inst, ns, stage, pend, held, faulted, open,
                  conn, msg>>
  BY Zenon DEF vars
<1>2. QuietRest
  BY <1>1, Zenon DEF IInv, TypeOK, QuietRest
<1> QED
  BY <1>1, <1>2, KeepAll, QuietInv, Zenon

LEMMA NextInv == IInv /\ [Next]_vars => IInv'
<1> SUFFICES ASSUME IInv, [Next]_vars PROVE IInv'
  BY Zenon
<1>1. CASE NsReturn
  BY <1>1, NsConnectReturnInv, NsCallReturnInv, NsCloseReturnInv, Zenon DEF NsReturn
<1>2. CASE DispatchEnter
  BY <1>2, DispatchEnterInv, Zenon
<1> QED
  BY <1>1, <1>2, ClientInv, PartitionInv, GuestTerminateInv, StutterInv, Zenon DEF Next

\* The whole inductive invariant holds in every reachable state, for every
\* manifest, every size of the two tables and every restart budget.
THEOREM Invariance == Spec => []IInv
<1>1. Init => IInv
  BY InitInv, Zenon
<1>2. IInv /\ [Next]_vars => IInv'
  BY NextInv, Zenon
<1> QED
  BY <1>1, <1>2, PTL DEF Spec

\* The tables of the runtime (ffm.c) stay well-formed.
THEOREM TypeSafety == Spec => []TypeOK
BY Invariance, PTL DEF IInv

\* No released message stays linked in a service queue and no waiting one is
\* lost, through dequeue_message, fail_partition_messages and
\* fail_client_connections.
THEOREM QueuesExact == Spec => []QueueOK
BY Invariance, PTL DEF IInv

\* update_service_signal keeps every service signal equal to its queue being
\* non-empty.
THEOREM SignalsExact == Spec => []SignalOK
BY Invariance, PTL DEF IInv

\* A message always rides on a live connection of its own client and service,
\* so a late wt_ffm_reply cannot touch another client's connection.
THEOREM RepliesStayHome == Spec => []MsgConnOK
BY Invariance, Consequences, PTL

\* A connection never carries two messages, abandoned ones included.
THEOREM SingleFlight == Spec => []OneInFlight
BY Invariance, PTL DEF IInv

\* The state of a connection matches the message it carries, and nothing waits
\* for a message that is gone.
THEOREM StatesAgree == Spec => []StateOK
BY Invariance, Consequences, PTL

\* Every message in use has exactly the party that will free it: no leak from
\* the message pool and no message freed under a blocked client.
THEOREM NoMessageLeak == Spec => []MsgOwnerOK
BY Invariance, Consequences, PTL

\* All of it together: what the runs check of requests as one invariant holds
\* for every manifest and every size of the pools.
THEOREM RequestsSound == Spec => []RequestsOK
BY TypeSafety, QueuesExact, SignalsExact, RepliesStayHome, SingleFlight,
   StatesAgree, NoMessageLeak, PTL DEF RequestsOK
=============================================================================
