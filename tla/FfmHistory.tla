------------------------------ MODULE FfmHistory ------------------------------
(***************************************************************************)
(* The theorems about the histories of Ffm: what one step may do to a      *)
(* connection, a message or a handle, and from it that errors stick, that  *)
(* handles keep their meaning and that guests keep to their share.         *)
(***************************************************************************)
EXTENDS FfmProofs, FiniteSetTheorems

-----------------------------------------------------------------------------
(* What one step does to a connection, to a message and to the handles kept   *)
(* on them. The properties below follow from these five facts of every step.  *)

\* Message m will end connection c when it is answered.
Ending(m, c) ==
    /\ msg[m].phase # "FREE" /\ msg[m].conn = c
    /\ msg[m].type # "CALL" \/ msg[m].abandoned = "CLOSE"

\* A connection is left in error until it is closed, and terminal until released.
Leads(a, b) ==
    /\ a = "FREE" <=> b = "FREE"
    /\ a = "TERMINAL" => b = "TERMINAL"
    /\ a = "ERROR" => b \in {"ERROR", "DISCONNECTING"}

\* k becomes j, of the same client, service and generation.
Moves(k, j) ==
    /\ j.caller = k.caller /\ j.service = k.service
    /\ j.gen = k.gen /\ j.inst = k.inst
    /\ Leads(k.state, j.state)

\* The reverse handle stays, with its server, or is the server's own or none.
Remembers(c) ==
    \/ /\ conn'[c].rhandle = conn[c].rhandle
       /\ \/ conn[c].state \in {"FREE", "TERMINAL"}
          \/ inst'[Owner[conn[c].service]] = inst[Owner[conn[c].service]]
    \/ conn'[c].rhandle = 0
    \/ conn'[c].rhandle = inst'[Owner[conn[c].service]] + 1

\* Only a message that ends it, or its client's death, releases a connection.
Leaves(c) ==
    /\ conn'[c].state = "FREE"
    /\ \/ conn[c].state = "FREE"
       \/ \E m \in Msgs : Ending(m, c)
       \/ open'[conn[c].caller] = {}

\* A client connects.
Starts(c) ==
    /\ conn[c].state = "FREE" /\ conn'[c].rhandle = 0
    /\ conn'[c].caller \in Guests => Cardinality(NsConns) < NsTotal
    /\ \A d \in Conns \ {c} : conn'[d] = conn[d]

ConnEvolves(c) ==
    \/ Moves(conn[c], conn'[c]) /\ Remembers(c)
    \/ Leaves(c)
    \/ Starts(c)

Settled == {"ACTIVE", "COMPLETE"}
SameRequest(r, q) ==
    q.gen = r.gen /\ q.type = r.type /\ q.conn = r.conn /\ q.caller = r.caller

MsgEvolves(m) ==
    \/ msg'[m] = msg[m]
    \/ /\ msg[m].phase # "FREE" /\ msg'[m].phase \in Settled
       /\ SameRequest(msg[m], msg'[m])
    \/ /\ msg[m].phase = "FREE" /\ msg'[m].phase = "QUEUED"
       /\ msg'[m].gen = msg[m].gen /\ msg[m].gen <= GenBound
    \/ /\ msg[m].phase # "FREE" \/ msg[m].gen <= GenBound
       /\ msg'[m].phase = "FREE" /\ msg'[m].gen = NextGen(msg[m].gen)
    \/ /\ msg[m].phase = "ACTIVE" /\ msg[m].type # "DISCONNECT"
       /\ msg'[m].phase = "QUEUED" /\ msg'[m].type = "DISCONNECT"
       /\ msg'[m].gen = NextGen(msg[m].gen)

\* A message comes to end a connection only when its client forgets it.
EndsKnown(m) ==
    \A c \in Conns : Ending(m, c)' =>
        \/ Ending(m, c) \/ conn[c].state = "FREE"
        \/ open'[conn[c].caller] = open[conn[c].caller] \ {<<c, conn[c].gen>>}

\* A handle is given for a connection that nothing ends.
Granted(x, h) ==
    /\ conn[h[1]].state # "FREE" /\ conn[h[1]].caller = x /\ conn[h[1]].gen = h[2]
    /\ conn'[h[1]] = conn[h[1]]
    /\ \A m \in Msgs : ~Ending(m, h[1])'
OpenEvolves ==
    \A x \in Clients : \A h \in open'[x] : h \in open[x] \/ Granted(x, h)

HeldEvolves ==
    \A p \in Partitions : \A h \in held'[p] :
        \/ h \in held[p]
        \/ \E m \in Msgs : /\ h = Taking(m) /\ msg[m].phase = "QUEUED"
                           /\ msg'[m].phase = "ACTIVE"

Evolves ==
    /\ \A c \in Conns : ConnEvolves(c)
    /\ \A m \in Msgs : MsgEvolves(m) /\ EndsKnown(m)
    /\ OpenEvolves /\ HeldEvolves

-----------------------------------------------------------------------------
(* Steps that change one connection and one message *)

LEMMA KeepEvolves == ASSUME NEW c, conn'[c] = conn[c], inst' = inst PROVE ConnEvolves(c)
<1>1. Moves(conn[c], conn[c])
  BY Zenon DEF Moves, Leads
<1> QED
  BY <1>1, Zenon DEF ConnEvolves, Remembers

LEMMA EditEvolves ==
    ASSUME NEW c, NEW k, ConnEdit(c, k), inst' = inst, ConnEvolves(c)
    PROVE  \A d \in Conns : ConnEvolves(d)
BY KeepEvolves, Zenon DEF ConnEdit

LEMMA SameEvolves ==
    ASSUME UNCHANGED <<conn, inst>>
    PROVE  \A d \in Conns : ConnEvolves(d)
BY KeepEvolves, Zenon

LEMMA KeepMsgEvolves ==
    ASSUME NEW m, msg'[m] = msg[m] PROVE MsgEvolves(m) /\ EndsKnown(m)
BY Zenon DEF MsgEvolves, EndsKnown, Ending

LEMMA EditMsgEvolves ==
    ASSUME NEW m, NEW r, MsgEdit(m, r), MsgEvolves(m), EndsKnown(m)
    PROVE  \A n \in Msgs : MsgEvolves(n) /\ EndsKnown(n)
BY KeepMsgEvolves, Zenon DEF MsgEdit

\* Nobody is given a handle.
LEMMA NoHandles ==
    /\ UNCHANGED open => OpenEvolves
    /\ UNCHANGED held => HeldEvolves
BY Zenon DEF OpenEvolves, HeldEvolves

\* An edit of a connection in use that keeps the reverse handle
LEMMA WithMoves ==
    ASSUME NEW k, NEW st, Leads(k.state, st)
    PROVE  /\ Moves(k, WithState(k, st)) /\ WithState(k, st).rhandle = k.rhandle
           /\ Moves(k, WithLatch(k, st)) /\ WithLatch(k, st).rhandle = k.rhandle
BY Zenon DEF Moves, WithState, WithLatch

LEMMA RhandleMoves ==
    ASSUME NEW k, NEW st, NEW v, Leads(k.state, st)
    PROVE  Moves(k, WithRhandle(k, st, v)) /\ WithRhandle(k, st, v).rhandle = v
BY Zenon DEF Moves, WithRhandle

LEMMA StateEvolves ==
    ASSUME IInv, NEW c \in Conns, NEW st \in ConnStates, Leads(conn[c].state, st), inst' = inst,
           \/ conn' = [conn EXCEPT ![c] = WithState(conn[c], st)]
           \/ conn' = [conn EXCEPT ![c] = WithLatch(conn[c], st)]
    PROVE  \A d \in Conns : ConnEvolves(d)
<1>1. PICK k \in Connection : /\ Moves(conn[c], k) /\ k.rhandle = conn[c].rhandle
                              /\ conn' = [conn EXCEPT ![c] = k]
  <2>1. WithState(conn[c], st) \in Connection /\ WithLatch(conn[c], st) \in Connection
    BY ConnFact, WithType, Zenon
  <2> QED
    BY <2>1, WithMoves, Zenon
<1>2. ConnEdit(c, k)
  BY <1>1, EditConn, Zenon
<1>3. ConnEvolves(c)
  BY <1>1, <1>2, Zenon DEF ConnEvolves, Remembers, ConnEdit
<1> QED
  BY <1>2, <1>3, EditEvolves, Zenon

LEMMA ReleaseEvolves ==
    ASSUME IInv, NEW c \in Conns, conn' = ReleaseConns(conn, {c}), inst' = inst,
           conn[c].state = "FREE" \/ \E m \in Msgs : Ending(m, c)
    PROVE  \A d \in Conns : ConnEvolves(d)
<1>1. ConnEdit(c, FreeConn(NextGen(conn[c].gen)))
  BY ReleaseConn, Zenon
<1>2. conn'[c].state = "FREE"
  BY <1>1, FreeState, Zenon DEF ConnEdit
<1> QED
  BY <1>1, <1>2, EditEvolves, Zenon DEF ConnEvolves, Leaves

\* release_message of a message in use, or of one that was just taken
LEMMA ReleaseMsgEvolves ==
    ASSUME IInv, NEW m \in Msgs, msg' = ReleaseMsgs(msg, {m}),
           msg[m].phase # "FREE" \/ FirstFreeMsg(m)
    PROVE  /\ \A n \in Msgs : MsgEvolves(n) /\ EndsKnown(n)
           /\ msg'[m].phase = "FREE" /\ \A n \in Msgs \ {m} : msg'[n] = msg[n]
<1>1. MsgEdit(m, FreeMsg(NextGen(msg[m].gen)))
  BY ReleaseMsg, Zenon
<1>2. msg'[m].phase = "FREE" /\ msg'[m].gen = NextGen(msg[m].gen)
  BY <1>1 DEF MsgEdit, FreeMsg
<1>3. MsgEvolves(m)
  BY <1>2, Zenon DEF MsgEvolves, FirstFreeMsg
<1>4. EndsKnown(m)
  BY <1>2, Zenon DEF EndsKnown, Ending
<1> QED
  BY <1>1, <1>2, <1>3, <1>4, EditMsgEvolves, Zenon DEF MsgEdit

-----------------------------------------------------------------------------
(* The requests of clients *)

\* A message is queued on c: a new one of a client that is no longer counted on
\* to close c, unless it is a call.
LEMMA PostEvolves ==
    ASSUME IInv, NEW x \in Clients, NEW c \in Conns, NEW m \in Msgs,
           NEW s \in Services, NEW t \in Types, FirstFreeMsg(m),
           msg' = [msg EXCEPT ![m] = NewMsg(m, x, c, s, t)],
           \/ t = "CALL" \/ conn[c].state = "FREE"
           \/ open'[conn[c].caller] = open[conn[c].caller] \ {<<c, conn[c].gen>>}
    PROVE  \A n \in Msgs : MsgEvolves(n) /\ EndsKnown(n)
<1>0. Queued(NewMsg(m, x, c, s, t), x, c, s, t)
  BY NewMsgFact, Zenon
<1>1. PICK r \in Message : /\ r = NewMsg(m, x, c, s, t) /\ r.phase = "QUEUED" /\ r.type = t
                           /\ r.conn = c /\ r.abandoned = "NO"
  BY <1>0, Zenon DEF Queued
<1>2. r.gen = msg[m].gen
  BY <1>1, Zenon DEF NewMsg
<1>3. MsgEdit(m, r)
  BY <1>1, EditMsg, Zenon
<1>4. msg'[m] = r
  BY <1>3, Zenon DEF MsgEdit
<1>5. MsgEvolves(m)
  BY <1>1, <1>2, <1>4, Zenon DEF MsgEvolves, FirstFreeMsg
<1>6. EndsKnown(m)
  BY <1>1, <1>4 DEF EndsKnown, Ending
<1> QED
  BY <1>3, <1>5, <1>6, EditMsgEvolves, Zenon

LEMMA ConnectEvolves ==
    ASSUME IInv, NEW x \in Clients, NEW s \in Services, Connect(x, s)
    PROVE  Evolves
<1>1. PICK c \in Conns, m \in Msgs :
        /\ FirstFreeConn(c) /\ FirstFreeMsg(m)
        /\ conn' = [conn EXCEPT ![c] = NewConn(c, x, s)]
        /\ msg' = [msg EXCEPT ![m] = NewMsg(m, x, c, s, "CONNECT")]
  BY Zenon DEF Connect
<1>2. UNCHANGED <<inst, held, open>> /\ Admitted(x, s)
  BY Zenon DEF Connect
<1>3. conn[c].state = "FREE"
  BY <1>1, Zenon DEF FirstFreeConn
<1>4. ConnEvolves(c) /\ \A d \in Conns \ {c} : conn'[d] = conn[d]
  <2>1. conn \in [Conns -> Connection] /\ Slotted(c)
    BY Zenon DEF IInv, TypeOK
  <2>2. conn[c].rhandle = 0
    BY <1>3, <2>1, Zenon DEF Slotted, Slot
  <2>3. conn'[c] = NewConn(c, x, s) /\ \A d \in Conns \ {c} : conn'[d] = conn[d]
    BY <1>1, <2>1, Zenon
  <2>4. conn'[c].rhandle = 0 /\ conn'[c].caller = x
    BY <2>2, <2>3 DEF NewConn
  <2> QED
    BY <1>2, <1>3, <2>3, <2>4, Zenon DEF Admitted, ConnEvolves, Starts
<1>5. \A d \in Conns : ConnEvolves(d)
  BY <1>2, <1>4, KeepEvolves, Zenon
<1>6. \A n \in Msgs : MsgEvolves(n) /\ EndsKnown(n)
  BY <1>1, <1>3, PostEvolves, Zenon DEF Types
<1> QED
  BY <1>2, <1>5, <1>6, NoHandles, Zenon DEF Evolves

LEMMA ConnectNoMessageEvolves ==
    ASSUME IInv, NEW x \in Clients, NEW s \in Services, ConnectNoMessage(x, s)
    PROVE  Evolves
<1>1. PICK c \in Conns : conn[c].state = "FREE" /\ conn' = ReleaseConns(conn, {c})
  BY Zenon DEF ConnectNoMessage, FirstFreeConn
<1>2. UNCHANGED <<msg, inst, held, open>>
  BY Zenon DEF ConnectNoMessage
<1>3. \A d \in Conns : ConnEvolves(d)
  BY <1>1, <1>2, ReleaseEvolves, Zenon
<1> QED
  BY <1>2, <1>3, KeepMsgEvolves, NoHandles, Zenon DEF Evolves

LEMMA CallEvolves ==
    ASSUME IInv, NEW x \in Clients, NEW c \in Conns, Call(x, c)
    PROVE  Evolves
<1>1. PICK m \in Msgs :
        /\ FirstFreeMsg(m)
        /\ conn' = [conn EXCEPT ![c] = WithState(conn[c], "PENDING_REQUEST")]
        /\ msg' = [msg EXCEPT ![m] = NewMsg(m, x, c, conn[c].service, "CALL")]
  BY Zenon DEF Call
<1>2. UNCHANGED <<inst, held, open>> /\ Presents(x, c) /\ conn[c].state = "IDLE"
  BY Zenon DEF Call
<1>3. conn[c].service \in Services
  BY <1>2, PresentsFact, Zenon
<1>4. \A d \in Conns : ConnEvolves(d)
  BY <1>1, <1>2, StateEvolves, Zenon DEF Leads, ConnStates
<1>5. \A n \in Msgs : MsgEvolves(n) /\ EndsKnown(n)
  BY <1>1, <1>3, PostEvolves, Zenon DEF Types
<1> QED
  BY <1>2, <1>4, <1>5, NoHandles, Zenon DEF Evolves

LEMMA CallTooLargeEvolves ==
    ASSUME IInv, NEW x \in Clients, NEW c \in Conns, CallTooLarge(x, c)
    PROVE  Evolves
<1>1. PICK m \in Msgs : FirstFreeMsg(m) /\ msg' = ReleaseMsgs(msg, {m})
  BY Zenon DEF CallTooLarge
<1>2. UNCHANGED <<conn, inst, held, open>>
  BY Zenon DEF CallTooLarge
<1>3. \A n \in Msgs : MsgEvolves(n) /\ EndsKnown(n)
  BY <1>1, ReleaseMsgEvolves, Zenon
<1> QED
  BY <1>2, <1>3, SameEvolves, NoHandles, Zenon DEF Evolves

LEMMA CallMisuseEvolves ==
    ASSUME IInv, NEW x \in Clients, NEW c \in Conns, CallMisuse(x, c)
    PROVE  Evolves
<1>1. \/ conn[c].state = "IDLE" /\ conn' = [conn EXCEPT ![c] = WithState(conn[c], "ERROR")]
      \/ conn' = [conn EXCEPT ![c] = WithLatch(conn[c], conn[c].state)]
  BY Zenon DEF CallMisuse
<1>2. UNCHANGED msg \/ \E m \in Msgs : FirstFreeMsg(m) /\ msg' = ReleaseMsgs(msg, {m})
  BY Zenon DEF CallMisuse
<1>3. UNCHANGED <<inst, held, open>>
  BY Zenon DEF CallMisuse
<1>4. conn[c].state \in ConnStates
  BY ConnFact, Zenon
<1>5. /\ "ERROR" \in ConnStates
      /\ conn[c].state = "IDLE" => Leads(conn[c].state, "ERROR")
      /\ Leads(conn[c].state, conn[c].state)
  BY Zenon DEF ConnStates, Leads
<1>6. \A d \in Conns : ConnEvolves(d)
  BY <1>1, <1>3, <1>4, <1>5, StateEvolves, Zenon
<1>7. \A n \in Msgs : MsgEvolves(n) /\ EndsKnown(n)
  BY <1>2, KeepMsgEvolves, ReleaseMsgEvolves, Zenon
<1> QED
  BY <1>3, <1>6, <1>7, NoHandles, Zenon DEF Evolves

\* The client gives its handle up.
LEMMA ForgetFact ==
    ASSUME IInv, NEW x \in Clients, NEW c \in Conns, Closable(x, c), Forget(x, c),
           inst' = inst
    PROVE  /\ OpenEvolves /\ conn[c].state \in {"IDLE", "ERROR"}
           /\ open'[conn[c].caller] = open[conn[c].caller] \ {<<c, conn[c].gen>>}
           /\ conn[c].service \in Services /\ Leads(conn[c].state, "DISCONNECTING")
<1>1. /\ open \in [Clients -> SUBSET (Conns \X Gens)]
      /\ open' = [open EXCEPT ![x] = open[x] \ {<<c, conn[c].gen>>}]
  BY Zenon DEF IInv, TypeOK, Forget
<1>2. conn[c].caller = x /\ conn[c].service \in Services
  BY PresentsFact, Zenon DEF Closable
<1>3. /\ open'[x] = open[x] \ {<<c, conn[c].gen>>}
      /\ \A y \in Clients : open'[y] \subseteq open[y]
  BY <1>1, Zenon
<1>4. OpenEvolves
  BY <1>3, Zenon DEF OpenEvolves
<1>5. conn[c].state \in {"IDLE", "ERROR"}
  BY Zenon DEF Closable
<1>6. Leads(conn[c].state, "DISCONNECTING")
  BY <1>5, Zenon DEF Leads
<1> QED
  BY <1>2, <1>3, <1>4, <1>5, <1>6, Zenon

LEMMA CloseEvolves ==
    ASSUME IInv, NEW x \in Clients, NEW c \in Conns, Close(x, c)
    PROVE  Evolves
<1>1. PICK m \in Msgs :
        /\ FirstFreeMsg(m)
        /\ conn' = [conn EXCEPT ![c] = WithState(conn[c], "DISCONNECTING")]
        /\ msg' = [msg EXCEPT ![m] = NewMsg(m, x, c, conn[c].service, "DISCONNECT")]
  BY Zenon DEF Close
<1>2. UNCHANGED <<inst, held>> /\ Closable(x, c) /\ Forget(x, c)
  BY Zenon DEF Close
<1>3. /\ OpenEvolves
      /\ open'[conn[c].caller] = open[conn[c].caller] \ {<<c, conn[c].gen>>}
      /\ conn[c].service \in Services /\ Leads(conn[c].state, "DISCONNECTING")
  BY <1>2, ForgetFact, Zenon
<1>4. "DISCONNECT" \in Types /\ "DISCONNECTING" \in ConnStates
  BY Zenon DEF Types, ConnStates
<1>5. \A d \in Conns : ConnEvolves(d)
  BY <1>1, <1>2, <1>3, <1>4, StateEvolves, Zenon
<1>6. \A n \in Msgs : MsgEvolves(n) /\ EndsKnown(n)
  BY <1>1, <1>3, <1>4, PostEvolves, Zenon
<1> QED
  BY <1>2, <1>3, <1>5, <1>6, NoHandles, Zenon DEF Evolves

\* The flag of a request that was given up
LEMMA AbandonEvolves ==
    ASSUME IInv, NEW m \in Msgs, NEW how \in {"REPLY", "CLOSE"},
           msg' = [msg EXCEPT ![m] = WithAbandoned(msg[m], how)],
           msg[m].phase = "ACTIVE",
           \/ how = "REPLY" /\ msg[m].type = "CALL"
           \/ how = "CLOSE" /\ msg[m].type # "CALL"
           \/ open'[conn[msg[m].conn].caller] =
                 open[conn[msg[m].conn].caller] \ {<<msg[m].conn, conn[msg[m].conn].gen>>}
    PROVE  \A n \in Msgs : MsgEvolves(n) /\ EndsKnown(n)
<1>1. PICK r \in Message : r = WithAbandoned(msg[m], how)
  BY MsgFact, WithType, Zenon DEF Phases, Statuses
<1>2. /\ r.phase = "ACTIVE" /\ r.abandoned = how /\ r.type = msg[m].type
      /\ r.conn = msg[m].conn /\ r.gen = msg[m].gen /\ r.caller = msg[m].caller
  BY <1>1, Zenon DEF WithAbandoned
<1>3. MsgEdit(m, r)
  BY <1>1, EditMsg, Zenon
<1>4. msg'[m] = r
  BY <1>3, Zenon DEF MsgEdit
<1>5. MsgEvolves(m)
  BY <1>2, <1>4, Zenon DEF MsgEvolves, Settled, SameRequest
<1>6. EndsKnown(m)
  BY <1>2, <1>4 DEF EndsKnown, Ending
<1> QED
  BY <1>3, <1>5, <1>6, EditMsgEvolves, Zenon

LEMMA CloseAbandonedEvolves ==
    ASSUME IInv, NEW x \in Clients, NEW c \in Conns, CloseAbandoned(x, c)
    PROVE  Evolves
<1>1. PICK m \in AbandonedOn(c) :
         /\ msg' = [msg EXCEPT ![m] = WithAbandoned(msg[m], "CLOSE")]
         /\ conn' = [conn EXCEPT ![c] = WithState(conn[c], "DISCONNECTING")]
  BY Zenon DEF CloseAbandoned
<1>2. m \in Msgs /\ msg[m].phase # "FREE" /\ msg[m].abandoned # "NO" /\ msg[m].conn = c
  BY Zenon DEF AbandonedOn
<1>3. UNCHANGED <<inst, held>> /\ Closable(x, c) /\ Forget(x, c)
  BY Zenon DEF CloseAbandoned
<1>4. /\ OpenEvolves /\ conn[c].state \in {"IDLE", "ERROR"}
      /\ open'[conn[c].caller] = open[conn[c].caller] \ {<<c, conn[c].gen>>}
      /\ Leads(conn[c].state, "DISCONNECTING")
  BY <1>3, ForgetFact, Zenon
<1>5. msg[m].phase = "ACTIVE"
  <2>1. Fits(msg[m].phase, msg[m].type, msg[m].abandoned, conn[c].state)
    BY <1>2, MsgFact, Zenon
  <2>2. msg[m].phase \in {"ACTIVE", "QUEUED"}
    BY <1>2, Zenon DEF IInv, Owned
  <2> QED
    BY <1>4, <2>1, <2>2, Zenon DEF Fits
<1>6. "DISCONNECTING" \in ConnStates /\ "CLOSE" \in {"REPLY", "CLOSE"}
  BY Zenon DEF ConnStates
<1>7. \A d \in Conns : ConnEvolves(d)
  BY <1>1, <1>3, <1>4, <1>6, StateEvolves, Zenon
<1>8. \A n \in Msgs : MsgEvolves(n) /\ EndsKnown(n)
  BY <1>1, <1>2, <1>4, <1>5, <1>6, AbandonEvolves, Zenon
<1> QED
  BY <1>3, <1>4, <1>7, <1>8, NoHandles, Zenon DEF Evolves

LEMMA CloseNoMessageEvolves ==
    ASSUME IInv, NEW x \in Clients, NEW c \in Conns, CloseNoMessage(x, c)
    PROVE  Evolves
<1>1. UNCHANGED <<conn, msg, inst, held>> /\ Closable(x, c) /\ Forget(x, c)
  BY Zenon DEF CloseNoMessage
<1> QED
  BY <1>1, ForgetFact, SameEvolves, KeepMsgEvolves, NoHandles, Zenon DEF Evolves

\* Steps that touch neither table nor handle
LEMMA QuietEvolves == ASSUME UNCHANGED <<conn, msg, inst, held, open>> PROVE Evolves
BY SameEvolves, KeepMsgEvolves, NoHandles, Zenon DEF Evolves

-----------------------------------------------------------------------------
(* The ends of requests *)

\* Message m of a request that is over is freed, and its connection c as well,
\* or left to its client.
Concludes(m, c) ==
    /\ msg[m].phase # "FREE" /\ c = msg[m].conn /\ msg' = ReleaseMsgs(msg, {m})
    /\ UNCHANGED <<inst, held>>
    /\ \/ UNCHANGED <<conn, open>>
       \/ /\ UNCHANGED conn
          /\ open' = [open EXCEPT ![msg[m].caller] = @ \cup {<<c, conn[c].gen>>}]
       \/ /\ msg[m].type # "CALL" /\ conn' = ReleaseConns(conn, {c})
          /\ UNCHANGED open
       \/ /\ msg[m].type = "CALL" /\ UNCHANGED open
          /\ conn' = [conn EXCEPT ![c] = WithState(@, "ERROR")]

LEMMA ConcludeEvolves ==
    ASSUME IInv, NEW m \in Msgs, NEW c \in Conns, Concludes(m, c)
    PROVE  Evolves
<1>1. msg[m].phase # "FREE" /\ c = msg[m].conn /\ UNCHANGED <<inst, held>>
  BY Zenon DEF Concludes
<1>2. /\ \A n \in Msgs : MsgEvolves(n) /\ EndsKnown(n)
      /\ msg'[m].phase = "FREE" /\ \A n \in Msgs \ {m} : msg'[n] = msg[n]
  BY ReleaseMsgEvolves, Zenon DEF Concludes
<1>3. /\ conn[c].state # "FREE" /\ conn[c].caller = msg[m].caller /\ Alone(m, c)
      /\ Fits(msg[m].phase, msg[m].type, msg[m].abandoned, conn[c].state)
  BY <1>1, MsgFact, AloneFact, Zenon
<1>4. CASE UNCHANGED <<conn, open>>
  BY <1>1, <1>2, <1>4, SameEvolves, NoHandles, Zenon DEF Evolves
<1>5. CASE /\ UNCHANGED conn
           /\ open' = [open EXCEPT ![msg[m].caller] = open[msg[m].caller] \cup {<<c, conn[c].gen>>}]
  <2>1. \A n \in Msgs : ~Ending(n, c)'
    BY <1>2, <1>3, Zenon DEF Ending, Alone
  <2>2. Granted(msg[m].caller, <<c, conn[c].gen>>)
    BY <1>3, <1>5, <2>1, Zenon DEF Granted
  <2>3. open \in [Clients -> SUBSET (Conns \X Gens)]
    BY Zenon DEF IInv, TypeOK
  <2>4. \A x \in Clients : \A h \in open'[x] :
           h \in open[x] \/ (x = msg[m].caller /\ h = <<c, conn[c].gen>>)
    BY <1>5, <2>3, Zenon
  <2>5. OpenEvolves
    BY <1>1, <2>2, <2>4, Zenon DEF OpenEvolves
  <2> QED
    BY <1>1, <1>2, <1>5, <2>5, SameEvolves, NoHandles, Zenon DEF Evolves
<1>6. CASE msg[m].type # "CALL" /\ conn' = ReleaseConns(conn, {c}) /\ UNCHANGED open
  <2>1. Ending(m, c)
    BY <1>1, <1>6, Zenon DEF Ending
  <2>2. \A d \in Conns : ConnEvolves(d)
    BY <1>1, <1>6, <2>1, ReleaseEvolves, Zenon
  <2> QED
    BY <1>1, <1>2, <1>6, <2>2, NoHandles, Zenon DEF Evolves
<1>7. CASE /\ msg[m].type = "CALL" /\ UNCHANGED open
           /\ conn' = [conn EXCEPT ![c] = WithState(conn[c], "ERROR")]
  <2>1. msg[m].phase \in Phases /\ "ERROR" \in ConnStates
    BY MsgFact, Zenon DEF Message, ConnStates
  <2>2. Leads(conn[c].state, "ERROR")
    BY <1>1, <1>3, <1>7, <2>1, Zenon DEF Phases, Fits, Leads
  <2>3. \A d \in Conns : ConnEvolves(d)
    BY <1>1, <1>7, <2>1, <2>2, StateEvolves, Zenon
  <2> QED
    BY <1>1, <1>2, <1>7, <2>3, NoHandles, Zenon DEF Evolves
<1> QED
  BY <1>4, <1>5, <1>6, <1>7, Zenon DEF Concludes

\* The guest gives up a request that its service still holds.
LEMMA GiveUpEvolves ==
    ASSUME IInv, NEW m \in Msgs, NEW c \in Conns, c = msg[m].conn,
           msg[m].phase = "ACTIVE", UNCHANGED <<inst, held, open>>,
           \/ /\ msg' = [msg EXCEPT ![m] = WithAbandoned(msg[m], "CLOSE")]
              /\ msg[m].type # "CALL" /\ UNCHANGED conn
           \/ /\ msg' = [msg EXCEPT ![m] = WithAbandoned(msg[m], "REPLY")]
              /\ msg[m].type = "CALL" /\ conn' = [conn EXCEPT ![c] = WithLatch(conn[c], "ERROR")]
    PROVE  Evolves
<1>1. \A n \in Msgs : MsgEvolves(n) /\ EndsKnown(n)
  BY AbandonEvolves, Zenon
<1>2. Fits("ACTIVE", msg[m].type, msg[m].abandoned, conn[c].state)
  BY MsgFact, Zenon
<1>3. msg[m].type = "CALL" => Leads(conn[c].state, "ERROR")
  BY <1>2, MsgFact, Zenon DEF Fits, Leads
<1>4. \A d \in Conns : ConnEvolves(d)
  BY <1>3, SameEvolves, StateEvolves, Zenon DEF ConnStates
<1> QED
  BY <1>1, <1>4, NoHandles, Zenon DEF Evolves

LEMMA NsReturnEvolves == ASSUME IInv, NsReturn PROVE Evolves
<1>1. PICK ret \in {"OK", "ERR"} :
        NsConnectReturn(ret) \/ NsCallReturn(ret) \/ NsCloseReturn(ret)
  BY Zenon DEF NsReturn
<1>2. PICK m \in Msgs, c \in Conns : m = ns /\ c = msg[m].conn /\ msg[m].phase # "FREE"
  BY <1>1, NsFact, Zenon DEF NsConnectReturn, NsCallReturn, NsCloseReturn, DispatchOutcome
<1>3. CASE NsConnectReturn(ret)
  <2>1. msg[m].type = "CONNECT" /\ UNCHANGED <<inst, held>>
    BY <1>2, <1>3, Zenon DEF NsConnectReturn
  <2>2. CASE Answered(ret)
    BY <1>2, <1>3, <2>1, <2>2, ConcludeEvolves, Zenon DEF NsConnectReturn, Concludes
  <2>3. CASE ~Answered(ret) /\ msg[m].phase = "ACTIVE"
    BY <1>2, <1>3, <2>1, <2>3, GiveUpEvolves, Zenon DEF NsConnectReturn
  <2>4. CASE ~Answered(ret) /\ msg[m].phase # "ACTIVE"
    BY <1>2, <1>3, <2>1, <2>4, ConcludeEvolves, Zenon DEF NsConnectReturn, Concludes
  <2> QED
    BY <2>2, <2>3, <2>4, Zenon
<1>4. CASE NsCallReturn(ret)
  <2>1. msg[m].type = "CALL" /\ UNCHANGED <<inst, held, open>>
    BY <1>2, <1>4, Zenon DEF NsCallReturn
  <2>2. CASE Answered(ret)
    BY <1>2, <1>4, <2>1, <2>2, ConcludeEvolves, Zenon DEF NsCallReturn, Concludes
  <2>3. CASE ~Answered(ret) /\ msg[m].phase = "ACTIVE"
    BY <1>2, <1>4, <2>1, <2>3, GiveUpEvolves, Zenon DEF NsCallReturn
  <2>4. CASE ~Answered(ret) /\ msg[m].phase # "ACTIVE"
    BY <1>2, <1>4, <2>1, <2>4, ConcludeEvolves, Zenon DEF NsCallReturn, Concludes
  <2> QED
    BY <2>2, <2>3, <2>4, Zenon
<1>5. CASE NsCloseReturn(ret)
  <2>1. msg[m].type = "DISCONNECT" /\ UNCHANGED <<inst, held, open>>
    BY <1>2, <1>5, Zenon DEF NsCloseReturn
  <2>2. CASE Answered(ret)
    BY <1>2, <1>5, <2>1, <2>2, ConcludeEvolves, Zenon DEF NsCloseReturn, Concludes
  <2>3. CASE ~Answered(ret) /\ msg[m].phase = "ACTIVE"
    BY <1>2, <1>5, <2>1, <2>3, GiveUpEvolves, Zenon DEF NsCloseReturn
  <2>4. CASE ~Answered(ret) /\ msg[m].phase # "ACTIVE"
    BY <1>2, <1>5, <2>1, <2>4, ConcludeEvolves, Zenon DEF NsCloseReturn, Concludes
  <2> QED
    BY <2>2, <2>3, <2>4, Zenon
<1> QED
  BY <1>1, <1>3, <1>4, <1>5, Zenon

LEMMA FinishEvolves ==
    ASSUME IInv, NEW p \in Partitions,
           SpConnectFinish(p) \/ SpCallFinish(p) \/ SpCloseFinish(p)
    PROVE  Evolves
<1>1. Finishing(p)
  BY Zenon DEF SpConnectFinish, SpCallFinish, SpCloseFinish
<1>2. pend[p] \in Msgs \cup {NoMsg}
  BY Zenon DEF IInv, TypeOK
<1>3. PICK m \in Msgs : m = pend[p] /\ msg[m].phase = "COMPLETE"
  BY <1>1, <1>2, Zenon DEF Finishing
<1>4. PICK c \in Conns : c = msg[m].conn
  BY MsgFact, Zenon
<1>5. msg[m].caller = p
  BY <1>3 DEF IInv, Owned
<1>6. Concludes(m, c)
  BY <1>1, <1>3, <1>4, <1>5, Zenon DEF Finishing, SpConnectFinish, SpCallFinish, SpCloseFinish,
     Concludes
<1> QED
  BY <1>6, ConcludeEvolves, Zenon

-----------------------------------------------------------------------------
(* Servers, and the death of a client or a server *)

\* A message that a service takes or answers stays the request it was.
LEMMA PhaseEvolves ==
    ASSUME IInv, NEW m \in Msgs, NEW ph \in Settled, NEW st \in Statuses,
           msg[m].phase # "FREE", msg' = [msg EXCEPT ![m] = WithPhase(msg[m], ph, st)]
    PROVE  msg'[m].phase = ph /\ \A n \in Msgs : MsgEvolves(n) /\ EndsKnown(n)
<1>1. ph \in Phases
  BY Zenon DEF Settled, Phases
<1>2. PICK r \in Message : r = WithPhase(msg[m], ph, st) /\ Moved(r, m, ph)
  BY <1>1, PhaseFact, Zenon
<1>3. MsgEdit(m, r)
  BY <1>2, EditMsg, Zenon
<1>4. msg'[m] = r
  BY <1>3, Zenon DEF MsgEdit
<1>5. r.gen = msg[m].gen
  BY <1>2, Zenon DEF WithPhase
<1>6. MsgEvolves(m)
  BY <1>2, <1>4, <1>5, Zenon DEF MsgEvolves, SameRequest, Moved
<1>7. EndsKnown(m)
  BY <1>2, <1>4, Zenon DEF EndsKnown, Ending, Moved
<1> QED
  BY <1>2, <1>3, <1>4, <1>6, <1>7, EditMsgEvolves, Zenon DEF Moved

LEMMA GetEvolves ==
    ASSUME IInv, NEW p \in Partitions, NEW s \in Services, Get(p, s)
    PROVE  Evolves
<1>1. PICK m \in queue[s] :
        /\ msg' = [msg EXCEPT ![m] = WithPhase(msg[m], "ACTIVE", msg[m].status)]
        /\ conn' = [conn EXCEPT ![msg[m].conn] = WithState(conn[msg[m].conn],
                        Claimed(msg[m].type, conn[msg[m].conn].state))]
        /\ held' = [held EXCEPT ![p] = held[p] \cup {Taking(m)}]
        /\ UNCHANGED <<inst, open>>
  BY Zenon DEF Get, Claimed, Taking
<1>2. m \in Msgs /\ msg[m].phase = "QUEUED"
  BY LinksFact, InQueue, Zenon DEF Links
<1>3. PICK c \in Conns : c = msg[m].conn
  BY <1>2, MsgFact, Zenon
<1>4. /\ Fits("QUEUED", msg[m].type, msg[m].abandoned, conn[c].state)
      /\ conn[c].state \in ConnStates /\ msg[m].status \in Statuses
  BY <1>2, <1>3, MsgFact, ConnFact, Zenon DEF Message
<1>5. PICK st \in ConnStates :
        st = Claimed(msg[m].type, conn[c].state) /\ Leads(conn[c].state, st)
  BY <1>4, Zenon DEF Fits, Claimed, ConnStates, Leads
<1>6. \A d \in Conns : ConnEvolves(d)
  BY <1>1, <1>3, <1>5, StateEvolves, Zenon
<1>7. "ACTIVE" \in Settled
  BY Zenon DEF Settled
<1>8. msg'[m].phase = "ACTIVE" /\ \A n \in Msgs : MsgEvolves(n) /\ EndsKnown(n)
  BY <1>1, <1>2, <1>4, <1>7, PhaseEvolves, Zenon
<1>9. \A q \in Partitions : held'[q] \subseteq held[q] \cup {Taking(m)}
  BY <1>1, Zenon DEF IInv, TypeOK
<1>10. HeldEvolves
  BY <1>2, <1>8, <1>9, Zenon DEF HeldEvolves
<1> QED
  BY <1>1, <1>6, <1>8, <1>10, NoHandles, Zenon DEF Evolves

LEMMA SetRhandleEvolves ==
    ASSUME IInv, NEW p \in Partitions, NEW h \in held[p], SetRhandle(p, h)
    PROVE  Evolves
<1>1. PICK m \in Msgs : m = h.m /\ msg[m].phase = "ACTIVE" /\ Owner[msg[m].service] = p
  BY HandleFact, Zenon DEF SetRhandle, MsgResolves
<1>2. PICK c \in Conns : c = msg[m].conn /\ conn[c].service = msg[m].service
  BY <1>1, MsgFact, Zenon
<1>3. /\ conn' = [conn EXCEPT ![c] = WithRhandle(conn[c], conn[c].state, inst[p] + 1)]
      /\ UNCHANGED <<msg, inst, held, open>>
  BY <1>1, <1>2, Zenon DEF SetRhandle
<1>4. PICK k \in Connection : /\ Moves(conn[c], k) /\ k.rhandle = inst[p] + 1
                              /\ conn' = [conn EXCEPT ![c] = k]
  <2>1. PICK v \in Nat : v = inst[p] + 1
    BY DEF IInv, TypeOK
  <2>2. WithRhandle(conn[c], conn[c].state, v) \in Connection
    BY ConnFact, WithType, Zenon
  <2>3. Leads(conn[c].state, conn[c].state)
    BY Zenon DEF Leads
  <2>4. /\ Moves(conn[c], WithRhandle(conn[c], conn[c].state, v))
        /\ WithRhandle(conn[c], conn[c].state, v).rhandle = v
    BY <2>3, RhandleMoves, Zenon
  <2> QED
    BY <1>3, <2>1, <2>2, <2>4, Zenon
<1>5. ConnEdit(c, k)
  BY <1>4, EditConn, Zenon
<1>6. ConnEvolves(c)
  BY <1>1, <1>2, <1>3, <1>4, <1>5, Zenon DEF ConnEvolves, Remembers, ConnEdit
<1> QED
  BY <1>3, <1>5, <1>6, EditEvolves, KeepMsgEvolves, NoHandles, Zenon DEF Evolves

LEMMA ReplyEvolves ==
    ASSUME IInv, NEW p \in Partitions, NEW h \in held[p], NEW status \in Statuses,
           Reply(p, h, status)
    PROVE  Evolves
<1>1. PICK m \in Msgs : m = h.m /\ msg[m].phase = "ACTIVE"
  BY HandleFact, Zenon DEF Reply
<1>2. PICK c \in Conns : c = msg[m].conn
  BY MsgFact, Zenon
<1>3. /\ UNCHANGED <<inst, open>> /\ HeldEvolves
  <2>1. held \in [Partitions -> SUBSET Taken]
    BY Zenon DEF IInv, TypeOK
  <2>2. held' = [held EXCEPT ![p] = held[p] \ {h}] /\ UNCHANGED <<inst, open>>
    BY Zenon DEF Reply
  <2> QED
    BY <2>1, <2>2, Zenon DEF HeldEvolves
<1>4. /\ Fits("ACTIVE", msg[m].type, msg[m].abandoned, conn[c].state)
      /\ msg[m].type \in Types /\ Carries(msg[m], conn[c])
      /\ "DISCONNECTING" \in ConnStates /\ "COMPLETE" \in Settled
  BY <1>1, <1>2, MsgFact, Zenon DEF IInv, Carried, Types, ConnStates, Settled
<1>5. PICK st \in ConnStates : st = StateAfterReply(msg[m].type, status, conn[c].latch)
  BY <1>4, RepliedFits, Zenon DEF ConnStates
<1>6. CASE msg[m].abandoned = "NO"
  <2>1. Answers(m, c, status)
    BY <1>1, <1>2, <1>6, Zenon DEF Reply, Answers
  <2>2. Leads(conn[c].state, st)
    BY <1>4, <1>5, <1>6, RepliedFits, Zenon DEF Fits, Leads, ConnStates
  <2>3. \A d \in Conns : ConnEvolves(d)
    BY <1>3, <1>5, <2>1, <2>2, StateEvolves, Zenon DEF Answers
  <2>4. \A n \in Msgs : MsgEvolves(n) /\ EndsKnown(n)
    BY <1>1, <1>4, <2>1, PhaseEvolves, Zenon DEF Answers
  <2> QED
    BY <1>3, <2>3, <2>4, NoHandles, Zenon DEF Evolves
<1>7. CASE msg[m].abandoned # "NO" /\ OwesDisconnect(m, status)
  <2>1. Disconnects(m, c)
    BY <1>1, <1>2, <1>7, Zenon DEF Reply, Disconnects, Disconnection
  <2>2. Ending(m, c) /\ msg[m].type # "DISCONNECT" /\ Leads(conn[c].state, "DISCONNECTING")
    BY <1>1, <1>2, <1>4, <1>7, Zenon DEF OwesDisconnect, Ending, Fits, Leads
  <2>3. \A d \in Conns : ConnEvolves(d)
    BY <1>3, <1>4, <2>1, <2>2, StateEvolves, Zenon DEF Disconnects
  <2>4. msg'[m] = Disconnection(m, c) /\ \A n \in Msgs \ {m} : msg'[n] = msg[n]
    BY <2>1, Zenon DEF Disconnects, IInv, TypeOK
  <2>5. /\ msg'[m].phase = "QUEUED" /\ msg'[m].type = "DISCONNECT" /\ msg'[m].conn = c
        /\ msg'[m].gen = NextGen(msg[m].gen)
    BY <2>4 DEF Disconnection
  <2>6. MsgEvolves(m)
    BY <1>1, <2>2, <2>5, Zenon DEF MsgEvolves
  <2>7. EndsKnown(m)
    BY <2>2, <2>5, Zenon DEF EndsKnown, Ending
  <2>8. \A n \in Msgs : MsgEvolves(n) /\ EndsKnown(n)
    BY <2>4, <2>6, <2>7, KeepMsgEvolves, Zenon
  <2> QED
    BY <1>3, <2>3, <2>8, NoHandles, Zenon DEF Evolves
<1>8. CASE msg[m].abandoned # "NO" /\ ~OwesDisconnect(m, status)
  <2>1. /\ msg' = ReleaseMsgs(msg, {m})
        /\ conn' = IF msg[m].type = "CALL"
                   THEN [conn EXCEPT ![c] = WithState(conn[c], st)]
                   ELSE ReleaseConns(conn, {c})
    BY <1>1, <1>2, <1>5, <1>8, Zenon DEF Reply
  <2>2. \A n \in Msgs : MsgEvolves(n) /\ EndsKnown(n)
    BY <1>1, <2>1, ReleaseMsgEvolves, Zenon
  <2>3. CASE msg[m].type = "CALL"
    <3>1. msg[m].abandoned = "REPLY" /\ conn[c].latch = 1
      BY <1>1, <1>4, <1>8, <2>3, MsgFact, Zenon DEF OwesDisconnect, Carries, Message
    <3>2. st = "ERROR" /\ Leads(conn[c].state, st)
      BY <1>4, <1>5, <2>3, <3>1, Zenon DEF StateAfterReply, Fits, Leads
    <3>3. \A d \in Conns : ConnEvolves(d)
      BY <1>3, <2>1, <2>3, <3>2, StateEvolves, Zenon
    <3> QED
      BY <1>3, <2>2, <3>3, NoHandles, Zenon DEF Evolves
  <2>4. CASE msg[m].type # "CALL"
    <3>1. Ending(m, c)
      BY <1>1, <1>2, <2>4, Zenon DEF Ending
    <3>2. \A d \in Conns : ConnEvolves(d)
      BY <1>3, <2>1, <2>4, <3>1, ReleaseEvolves, Zenon
    <3> QED
      BY <1>3, <2>2, <3>2, NoHandles, Zenon DEF Evolves
  <2> QED
    BY <2>3, <2>4, Zenon
<1> QED
  BY <1>6, <1>7, <1>8, Zenon

\* A message in use is freed.
LEMMA FreedEvolves ==
    ASSUME NEW n, msg[n].phase # "FREE", msg'[n] = FreeMsg(NextGen(msg[n].gen))
    PROVE  MsgEvolves(n) /\ EndsKnown(n)
<1>1. msg'[n].phase = "FREE" /\ msg'[n].gen = NextGen(msg[n].gen)
  BY DEF FreeMsg
<1> QED
  BY <1>1, Zenon DEF MsgEvolves, EndsKnown, Ending

LEMMA GuestTerminateEvolves ==
    ASSUME IInv, NEW g \in Guests, GuestTerminate(g)
    PROVE  Evolves
<1>1. /\ msg' = ReleaseMsgs(msg, MsgsOf(g)) /\ conn' = ReleaseConns(conn, ClientConns(g))
      /\ open' = [open EXCEPT ![g] = {}] /\ UNCHANGED <<inst, held>>
  BY Zenon DEF GuestTerminate
<1>2. open'[g] = {} /\ \A x \in Clients : open'[x] \subseteq open[x]
  BY <1>1, Zenon DEF IInv, TypeOK, Clients
<1>3. ASSUME NEW c \in Conns PROVE ConnEvolves(c)
  <2>1. conn'[c] = IF c \in ClientConns(g) THEN FreeConn(NextGen(conn[c].gen)) ELSE conn[c]
    BY <1>1, Zenon DEF ReleaseConns
  <2>2. CASE c \in ClientConns(g)
    <3>1. conn'[c].state = "FREE" /\ conn[c].caller = g
      BY <2>1, <2>2, FreeState, Zenon DEF ClientConns
    <3> QED
      BY <1>2, <3>1, Zenon DEF ConnEvolves, Leaves
  <2>3. CASE c \notin ClientConns(g)
    BY <1>1, <2>1, <2>3, KeepEvolves, Zenon
  <2> QED
    BY <2>2, <2>3, Zenon
<1>4. ASSUME NEW n \in Msgs PROVE MsgEvolves(n) /\ EndsKnown(n)
  <2>1. msg'[n] = IF n \in MsgsOf(g) THEN FreeMsg(NextGen(msg[n].gen)) ELSE msg[n]
    BY <1>1, Zenon DEF ReleaseMsgs
  <2>2. n \in MsgsOf(g) => msg[n].phase # "FREE"
    BY Zenon DEF MsgsOf
  <2> QED
    BY <2>1, <2>2, FreedEvolves, KeepMsgEvolves, Zenon
<1>5. OpenEvolves
  BY <1>1, <1>2, Zenon DEF OpenEvolves
<1> QED
  BY <1>1, <1>3, <1>4, <1>5, NoHandles, Zenon DEF Evolves

LEMMA RecoverEvolves ==
    ASSUME IInv, NEW p \in Partitions, Recover(p)
    PROVE  Evolves
<1>1. /\ open' = [open EXCEPT ![p] = {}] /\ held' = [held EXCEPT ![p] = {}]
      /\ inst' = [inst EXCEPT ![p] = inst[p] + 1]
  BY Zenon DEF Recover
<1>2. /\ open'[p] = {} /\ \A x \in Clients \ {p} : open'[x] = open[x]
      /\ held'[p] = {} /\ \A q \in Partitions \ {p} : held'[q] = held[q] /\ inst'[q] = inst[q]
  BY <1>1, Zenon DEF IInv, TypeOK, Clients
<1>3. ASSUME NEW c \in Conns PROVE ConnEvolves(c)
  <2>1. CASE c \in Closed(p) /\ conn'[c] = FreeConn(NextGen(conn[c].gen))
    <3>1. \E m \in Msgs : Ending(m, c)
      BY <2>1, Zenon DEF Closed, ServedBy, Ending
    <3> QED
      BY <2>1, <3>1, FreeState, Zenon DEF ConnEvolves, Leaves
  <2>2. CASE c \in ClientConns(p) /\ conn'[c] = FreeConn(NextGen(conn[c].gen))
    <3>1. conn[c].caller = p
      BY <2>2, Zenon DEF ClientConns
    <3> QED
      BY <1>2, <2>2, <3>1, FreeState, Zenon DEF ConnEvolves, Leaves
  <2>3. CASE conn[c].state \notin {"FREE", "TERMINAL"} /\ conn'[c] = Break(c)
    <3>1. Leads(conn[c].state, "ERROR")
      BY <2>3, Zenon DEF Leads
    <3>2. Moves(conn[c], conn'[c]) /\ conn'[c].rhandle = 0
      BY <2>3, <3>1, RhandleMoves DEF Break
    <3> QED
      BY <3>2, Zenon DEF ConnEvolves, Remembers
  <2>4. CASE /\ conn[c].state \in {"FREE", "TERMINAL"} \/ Owner[conn[c].service] # p
             /\ conn'[c] = conn[c]
    <3>1. Moves(conn[c], conn'[c])
      BY <2>4, Zenon DEF Moves, Leads
    <3>2. \/ conn[c].state \in {"FREE", "TERMINAL"}
          \/ Owner[conn[c].service] \in Partitions \ {p}
      BY <2>4, FfmConstants, Zenon DEF IInv, Slotted, Slot
    <3> QED
      BY <1>2, <2>4, <3>1, <3>2, Zenon DEF ConnEvolves, Remembers
  <2> QED
    BY <2>1, <2>2, <2>3, <2>4, ConnFate, Zenon
<1>4. ASSUME NEW n \in Msgs PROVE MsgEvolves(n) /\ EndsKnown(n)
  <2>1. CASE msg'[n] = msg[n]
    BY <2>1, KeepMsgEvolves, Zenon
  <2>2. CASE msg[n].phase # "FREE" /\ Freed(n, p)
    BY <2>2, FreedEvolves, Zenon DEF Freed
  <2>3. CASE msg[n].phase # "FREE" /\ Failed(n, p)
    <3>1. Moved(msg'[n], n, "COMPLETE") /\ msg'[n].gen = msg[n].gen
      BY <2>3, MovedPhase DEF Failed, WithPhase
    <3>2. MsgEvolves(n)
      BY <2>3, <3>1, Zenon DEF MsgEvolves, SameRequest, Moved, Settled
    <3>3. \A c : Ending(n, c)' => Ending(n, c)
      BY <2>3, <3>1, Zenon DEF Ending, Moved
    <3> QED
      BY <3>2, <3>3, Zenon DEF EndsKnown
  <2> QED
    BY <2>1, <2>2, <2>3, MsgFate, Zenon DEF Spared
<1>5. OpenEvolves /\ HeldEvolves
  BY <1>2, Zenon DEF OpenEvolves, HeldEvolves
<1> QED
  BY <1>3, <1>4, <1>5, Zenon DEF Evolves

\* So does every step.
LEMMA NextEvolves == IInv /\ [Next]_vars => Evolves
<1> SUFFICES ASSUME IInv, [Next]_vars PROVE Evolves
  BY Zenon
<1>1. CASE \E x \in Clients : ClientStep(x)
  BY <1>1, ConnectEvolves, ConnectNoMessageEvolves, CallEvolves, CallTooLargeEvolves,
     CallMisuseEvolves, CloseEvolves, CloseAbandonedEvolves, CloseNoMessageEvolves,
     Zenon DEF ClientStep
<1>2. CASE \E p \in Partitions : PartitionStep(p)
  <2>1. PICK p \in Partitions : PartitionStep(p)
    BY <1>2, Zenon
  <2>2. CASE SpConnectFinish(p) \/ SpCallFinish(p) \/ SpCloseFinish(p)
    BY <2>2, FinishEvolves, Zenon
  <2>3. CASE ServerStep(p)
    BY <2>3, GetEvolves, SetRhandleEvolves, ReplyEvolves, Zenon DEF ServerStep
  <2>4. CASE Fault(p)
    BY <2>4, QuietEvolves, Zenon DEF Fault
  <2>5. CASE Recover(p)
    BY <2>5, RecoverEvolves, Zenon
  <2> QED
    BY <2>1, <2>2, <2>3, <2>4, <2>5, Zenon DEF PartitionStep
<1>3. CASE DispatchEnter
  BY <1>3, QuietEvolves, Zenon DEF DispatchEnter
<1>4. CASE UNCHANGED vars
  BY <1>4, QuietEvolves, Zenon DEF vars
<1> QED
  BY <1>1, <1>2, <1>3, <1>4, NsReturnEvolves, GuestTerminateEvolves, Zenon DEF Next

-----------------------------------------------------------------------------
(* Connections in error, and reverse handles *)

ErrorStays ==
    \A c \in Conns : conn[c].state = "ERROR" =>
        conn'[c].state \in {"ERROR", "DISCONNECTING", "FREE"}

\* A connection in error is never used again, whatever late answers arrive: it
\* is closed or released (the latched error of wt_ffm_call, wt_ffm_reply).
THEOREM ErrorsStick == Spec => ErrorSticky
<1>1. IInv /\ [Next]_vars => [ErrorStays]_vars
  <2> SUFFICES ASSUME Evolves PROVE ErrorStays
    BY NextEvolves, Zenon
  <2> SUFFICES ASSUME NEW c \in Conns, conn[c].state = "ERROR"
               PROVE  conn'[c].state \in {"ERROR", "DISCONNECTING", "FREE"}
    BY Zenon DEF ErrorStays
  <2>1. ConnEvolves(c)
    BY Zenon DEF Evolves
  <2> QED
    BY <2>1, Zenon DEF ConnEvolves, Moves, Leads, Leaves, Starts
<1>2. Spec => [][ErrorStays]_vars
  BY <1>1, Invariance, PTL DEF Spec
<1> QED
  BY <1>2, Zenon DEF ErrorSticky, ErrorStays

\* A service instance is only given a reverse handle that it set itself: the
\* restart of a partition clears the handles of the instance that died
\* (wt_ffm_set_rhandle, fail_partition_connections).
THEOREM RhandlesFresh == Spec => []RhandleFresh
<1>1. Init => RhandleFresh
  BY DEF Init, RhandleFresh, FreeConn
<1>2. IInv /\ RhandleFresh /\ [Next]_vars => RhandleFresh'
  <2> SUFFICES ASSUME RhandleFresh, Evolves, NEW c \in Conns,
                      conn'[c].state \notin {"FREE", "TERMINAL"}, conn'[c].rhandle # 0
               PROVE  conn'[c].rhandle = inst'[Owner[conn'[c].service]] + 1
    BY NextEvolves, Zenon DEF RhandleFresh
  <2>1. Moves(conn[c], conn'[c]) /\ Remembers(c)
    BY Zenon DEF Evolves, ConnEvolves, Leaves, Starts
  <2>2. conn'[c].service = conn[c].service /\ conn[c].state \notin {"FREE", "TERMINAL"}
    BY <2>1, Zenon DEF Moves, Leads
  <2> QED
    BY <2>1, <2>2, Zenon DEF Remembers, RhandleFresh
<1> QED
  BY <1>1, <1>2, Invariance, PTL DEF Spec

-----------------------------------------------------------------------------
(* Handles *)

\* A handle a client keeps names a connection of its own, in the generation it
\* was given, that no message is going to end. Without the last conjunct the
\* answer to a disconnection could release the connection under the handle.
Kept(x, h) ==
    /\ conn[h[1]].state # "FREE" /\ conn[h[1]].caller = x /\ conn[h[1]].gen = h[2]
    /\ \A m \in Msgs : ~Ending(m, h[1])
OpenKept == \A x \in Clients : \A h \in open[x] : Kept(x, h)

\* Of a handle h that a service took and the slot it names: the slot has moved
\* on, or it still holds the request.
Current(h) ==
    /\ h.gen <= msg[h.m].gen
    /\ h.gen = msg[h.m].gen =>
          msg[h.m].phase \in Settled /\ SameRequest(h, msg[h.m])
\* A deferred disconnection is the only message one generation past the bound.
Low(m) ==
    msg[m].phase # "FREE" =>
        /\ msg[m].gen <= GenBound + 1
        /\ msg[m].type # "DISCONNECT" => msg[m].gen <= GenBound
HeldCurrent ==
    /\ \A m \in Msgs : Low(m)
    /\ \A p \in Partitions : \A h \in held[p] : Current(h)

LEMMA OpenStep == IInv /\ OpenKept /\ [Next]_vars => OpenKept'
<1> SUFFICES ASSUME IInv, OpenKept, Evolves, IInv', NEW x \in Clients, NEW h \in open'[x]
             PROVE  Kept(x, h)'
  BY NextEvolves, NextInv, Zenon DEF OpenKept
<1>1. PICK c \in Conns, g \in Gens : h = <<c, g>>
  BY DEF IInv, TypeOK
<1>2. CASE Granted(x, h)
  BY <1>1, <1>2, Zenon DEF Granted, Kept
<1>3. CASE h \in open[x]
  <2>1. /\ conn[c].state # "FREE" /\ conn[c].caller = x /\ conn[c].gen = g
        /\ \A m \in Msgs : ~Ending(m, c)
    BY <1>1, <1>3 DEF OpenKept, Kept
  <2>2. Moves(conn[c], conn'[c])
    BY <2>1, Zenon DEF Evolves, ConnEvolves, Leaves, Starts
  <2>3. conn'[c].state # "FREE" /\ conn'[c].caller = x /\ conn'[c].gen = g
    BY <2>1, <2>2, Zenon DEF Moves, Leads
  <2>4. open'[conn[c].caller] # open[conn[c].caller] \ {<<c, conn[c].gen>>}
    BY <1>1, <2>1, Zenon
  <2>5. \A m \in Msgs : ~Ending(m, c)'
    BY <2>1, <2>4, Zenon DEF Evolves, EndsKnown
  <2> QED
    BY <1>1, <2>3, <2>5, Zenon DEF Kept
<1> QED
  BY <1>2, <1>3, Zenon DEF Evolves, OpenEvolves

\* A connection handle stays good from the connect that returned it until its
\* client closes it or terminates, whatever servers and other clients do
\* (wt_ffm_connection_from_handle).
THEOREM OpenHandlesGood == Spec => []OpenHandlesOK
<1>1. Init => OpenKept
  BY Zenon DEF Init, OpenKept
<1>2. IInv /\ OpenKept => OpenHandlesOK
  <2> SUFFICES ASSUME IInv, OpenKept, NEW x \in Clients, NEW h \in open[x]
               PROVE  Resolves(x, h[1]) /\ conn[h[1]].gen = h[2]
    BY Zenon DEF OpenHandlesOK
  <2>1. h[1] \in Conns
    BY DEF IInv, TypeOK
  <2>2. Slotted(h[1]) /\ Kept(x, h)
    BY <2>1, Zenon DEF IInv, OpenKept
  <2> QED
    BY <2>2, Zenon DEF Kept, Slotted, Slot, Resolves
<1> QED
  BY <1>1, <1>2, OpenStep, Invariance, PTL DEF Spec

LEMMA GenStep ==
    ASSUME GenBound + 1 < GenMax, NEW g \in Gens, g <= GenBound + 1
    PROVE  NextGen(g) = g + 1
BY FfmConstants DEF NextGen, Gens

LEMMA MsgStep ==
    ASSUME GenBound + 1 < GenMax, IInv, NEW m \in Msgs, Low(m), MsgEvolves(m)
    PROVE  /\ Low(m)' /\ msg[m].gen <= msg'[m].gen
           /\ msg'[m].gen = msg[m].gen /\ msg[m].phase \in Settled =>
                 msg'[m].phase \in Settled /\ SameRequest(msg[m], msg'[m])
<1>1. msg[m].gen \in Gens /\ msg[m].gen \in Nat /\ GenBound \in Nat
  BY MsgFact, FfmConstants DEF Gens
<1>2. CASE msg'[m] = msg[m]
  BY <1>1, <1>2 DEF Low, SameRequest
<1>3. CASE /\ msg[m].phase # "FREE" /\ msg'[m].phase \in Settled
           /\ SameRequest(msg[m], msg'[m])
  BY <1>1, <1>3 DEF Low, SameRequest
<1>4. CASE /\ msg[m].phase = "FREE" /\ msg'[m].phase = "QUEUED"
           /\ msg'[m].gen = msg[m].gen /\ msg[m].gen <= GenBound
  BY <1>1, <1>4 DEF Low, Settled
<1>5. CASE /\ msg[m].phase # "FREE" \/ msg[m].gen <= GenBound
           /\ msg'[m].phase = "FREE" /\ msg'[m].gen = NextGen(msg[m].gen)
  <2>1. msg'[m].gen = msg[m].gen + 1
    BY <1>1, <1>5, GenStep DEF Low
  <2> QED
    BY <1>1, <1>5, <2>1 DEF Low
<1>6. CASE /\ msg[m].phase = "ACTIVE" /\ msg[m].type # "DISCONNECT"
           /\ msg'[m].phase = "QUEUED" /\ msg'[m].type = "DISCONNECT"
           /\ msg'[m].gen = NextGen(msg[m].gen)
  <2>1. msg'[m].gen = msg[m].gen + 1 /\ msg[m].gen <= GenBound
    BY <1>1, <1>6, GenStep, Zenon DEF Low
  <2> QED
    BY <1>1, <1>6, <2>1 DEF Low
<1> QED
  BY <1>2, <1>3, <1>4, <1>5, <1>6, Zenon DEF MsgEvolves

LEMMA HeldStep ==
    ASSUME GenBound + 1 < GenMax
    PROVE  IInv /\ HeldCurrent /\ [Next]_vars => HeldCurrent'
<1> SUFFICES ASSUME IInv, HeldCurrent, Evolves, IInv' PROVE HeldCurrent'
  BY NextEvolves, NextInv, Zenon
<1>1. ASSUME NEW m \in Msgs
      PROVE  /\ Low(m)' /\ msg[m].gen <= msg'[m].gen
             /\ msg'[m].gen = msg[m].gen /\ msg[m].phase \in Settled =>
                   msg'[m].phase \in Settled /\ SameRequest(msg[m], msg'[m])
  BY MsgStep, Zenon DEF HeldCurrent, Evolves
<1>2. ASSUME NEW p \in Partitions, NEW h \in held'[p] PROVE Current(h)'
  <2>1. CASE h \in held[p]
    <3>1. h.m \in Msgs /\ h.gen \in Nat
      BY <2>1 DEF IInv, TypeOK, Taken, Gens
    <3>2. msg[h.m].gen \in Nat
      BY <3>1, MsgFact DEF Gens
    <3>3. msg'[h.m].gen \in Nat /\ Current(h)
      BY <2>1, <3>1 DEF HeldCurrent, IInv, TypeOK, Message, Gens
    <3> QED
      BY <1>1, <3>1, <3>2, <3>3 DEF Current, SameRequest
  <2>2. CASE \E m \in Msgs : /\ h = Taking(m) /\ msg[m].phase = "QUEUED"
                             /\ msg'[m].phase = "ACTIVE"
    <3>1. PICK m \in Msgs : h = Taking(m) /\ msg[m].phase = "QUEUED" /\ msg'[m].phase = "ACTIVE"
      BY <2>2, Zenon
    <3>2. SameRequest(msg[m], msg'[m])
      BY <3>1, Zenon DEF Evolves, MsgEvolves
    <3>3. msg[m].gen \in Nat
      BY MsgFact DEF Gens
    <3> QED
      BY <3>1, <3>2, <3>3 DEF Current, SameRequest, Taking, Settled
  <2> QED
    BY <2>1, <2>2, Zenon DEF Evolves, HeldEvolves
<1> QED
  BY <1>1, <1>2, Zenon DEF HeldCurrent

\* Until a generation counter wraps, a message handle that still resolves means
\* the request its service was told of, across recycled slots and deferred
\* disconnections (wt_ffm_message_from_handle); and connection handles stay good.
THEOREM HandlesStayGood ==
    ASSUME GenBound + 1 < GenMax
    PROVE  Spec => []HandlesOK
<1>1. Init => HeldCurrent
  BY DEF Init, HeldCurrent, Low, FreeMsg
<1>2. IInv /\ HeldCurrent => HeldHandlesOK
  <2> SUFFICES ASSUME HeldCurrent, NEW p \in Partitions, NEW h \in held[p],
                      MsgResolves(p, h)
               PROVE  SameRequest(h, msg[h.m])
    BY Zenon DEF HeldHandlesOK, SameRequest
  <2> QED
    BY Zenon DEF HeldCurrent, Current, MsgResolves
<1> QED
  BY <1>1, <1>2, HeldStep, OpenHandlesGood, Invariance, PTL DEF Spec, HandlesOK

-----------------------------------------------------------------------------
(* The partitions' share of the connection pool *)

\* wt_ffm_connect refuses a guest beyond the share, and no other step gives a
\* guest a connection.
ReserveInv == Cardinality(NsConns) <= NsTotal
SpConns == {c \in Conns : conn[c].caller \in Partitions}

LEMMA GuestsGrow ==
    ASSUME Evolves
    PROVE  \/ NsConns' \subseteq NsConns
           \/ \E c \in Conns : NsConns' \subseteq NsConns \cup {c} /\ Cardinality(NsConns) < NsTotal
<1>1. ASSUME NEW c \in Conns, Starts(c), c \in NsConns'
      PROVE  NsConns' \subseteq NsConns \cup {c} /\ Cardinality(NsConns) < NsTotal
  BY <1>1, Zenon DEF Starts, NsConns
<1>2. ASSUME NEW c \in Conns, c \in NsConns', ~Starts(c)
      PROVE  c \in NsConns
  <2>1. Moves(conn[c], conn'[c]) \/ conn'[c].state = "FREE"
    BY <1>2, Zenon DEF Evolves, ConnEvolves, Leaves
  <2> QED
    BY <1>2, <2>1, Zenon DEF Moves, Leads, NsConns
<1>3. NsConns' \subseteq Conns
  BY Zenon DEF NsConns
<1> QED
  BY <1>1, <1>2, <1>3, Zenon

LEMMA PoolSplit ==
    ASSUME IInv, \A c \in Conns : conn[c].state # "FREE"
    PROVE  Conns = NsConns \cup SpConns /\ NsConns \cap SpConns = {}
<1>1. \A c \in Conns : conn[c].caller \in Guests \cup Partitions
  BY Zenon DEF IInv, Slotted, Slot, Clients
<1>2. Guests \cap Partitions = {}
  BY FfmConstants, Zenon
<1> QED
  BY <1>1, <1>2, Zenon DEF NsConns, SpConns

LEMMA ConnsFinite ==
    /\ IsFiniteSet(Conns) /\ Cardinality(Conns) = NConns
    /\ \A S \in SUBSET Conns : IsFiniteSet(S) /\ Cardinality(S) \in Nat
<1>1. NConns \in Nat \ {0}
  BY FfmConstants
<1>2. IsFiniteSet(Conns) /\ Cardinality(Conns) = NConns
  BY <1>1, FS_Interval DEF Conns
<1> QED
  BY <1>2, FS_Subset, FS_CardinalityType

LEMMA ReserveStep == IInv /\ ReserveInv /\ [Next]_vars => ReserveInv'
<1> SUFFICES ASSUME ReserveInv, Evolves PROVE ReserveInv'
  BY NextEvolves, Zenon
<1>1. /\ NsConns \in SUBSET Conns /\ NsConns' \in SUBSET Conns /\ NsTotal \in Nat
      /\ Cardinality(NsConns) <= NsTotal
  BY FfmConstants DEF NsConns, ReserveInv
<1>2. /\ IsFiniteSet(NsConns) /\ Cardinality(NsConns) \in Nat
      /\ IsFiniteSet(NsConns') /\ Cardinality(NsConns') \in Nat
  BY <1>1, ConnsFinite, Zenon
<1>3. CASE NsConns' \subseteq NsConns
  <2>1. Cardinality(NsConns') <= Cardinality(NsConns)
    BY <1>2, <1>3, FS_Subset, Zenon
  <2> QED
    BY <1>1, <1>2, <2>1 DEF ReserveInv
<1>4. ASSUME NEW c \in Conns, NsConns' \subseteq NsConns \cup {c}, Cardinality(NsConns) < NsTotal
      PROVE  ReserveInv'
  <2> DEFINE S == NsConns \cup {c}
  <2>1. /\ IsFiniteSet(S)
        /\ Cardinality(S) = IF c \in NsConns THEN Cardinality(NsConns) ELSE Cardinality(NsConns) + 1
    BY <1>2, FS_AddElement, Zenon
  <2>2. Cardinality(NsConns') <= Cardinality(S)
    BY <1>4, <2>1, FS_Subset, Zenon
  <2> HIDE DEF S
  <2> QED
    BY <1>1, <1>2, <1>4, <2>1, <2>2 DEF ReserveInv
<1> QED
  BY <1>3, <1>4, GuestsGrow, Zenon

\* Guests alone never keep a partition from connecting, for every size of the
\* pool and of the guests' share: while partitions use less than their reserve
\* a slot is free (WT_FFM_MAX_NS_CONNECTIONS in wt_ffm_connect).
THEOREM ReserveKept == Spec => []SecureReserve
<1>1. Init => ReserveInv
  <2> SUFFICES ASSUME Init PROVE ReserveInv
    BY Zenon
  <2>1. NsConns = {}
    BY Zenon DEF Init, NsConns, FreeConn
  <2> QED
    BY <2>1, FS_EmptySet, FfmConstants DEF ReserveInv
<1>2. IInv /\ ReserveInv => SecureReserve
  <2> SUFFICES ASSUME IInv, ReserveInv, \A c \in Conns : conn[c].state # "FREE"
               PROVE  ~(Cardinality(SpConns) < NConns - NsTotal)
    BY Zenon DEF SecureReserve, SpConns
  <2>1. Conns = NsConns \cup SpConns /\ NsConns \cap SpConns = {}
    BY PoolSplit, Zenon
  <2>2. NsConns \in SUBSET Conns /\ SpConns \in SUBSET Conns
    BY Zenon DEF NsConns, SpConns
  <2>3. /\ IsFiniteSet(NsConns) /\ Cardinality(NsConns) \in Nat
        /\ IsFiniteSet(SpConns) /\ Cardinality(SpConns) \in Nat
        /\ Cardinality(Conns) = NConns
    BY <2>2, ConnsFinite, Zenon
  <2>4. /\ Cardinality(NsConns \cup SpConns)
             = Cardinality(NsConns) + Cardinality(SpConns) - Cardinality(NsConns \cap SpConns)
        /\ Cardinality({}) = 0
    BY <2>3, FS_Union, FS_EmptySet, Zenon
  <2>5. NConns = Cardinality(NsConns) + Cardinality(SpConns) - 0
    BY <2>1, <2>3, <2>4, Zenon
  <2> QED
    BY <2>3, <2>5, FfmConstants DEF ReserveInv
<1> QED
  BY <1>1, <1>2, ReserveStep, Invariance, PTL DEF Spec

=============================================================================
