-------------------------- MODULE VaultRefinement --------------------------
(***************************************************************************)
(* Vault implements VaultStore, for every number of slots, names and       *)
(* values.  What the next request will find is read off the flash slot by  *)
(* slot (Holds); every action then leaves that alone, or is the one step   *)
(* in which the request being served takes effect.                         *)
(***************************************************************************)
EXTENDS VaultProofs

-----------------------------------------------------------------------------
(* The store as the next request will find it, slot by slot.               *)

\* A removal that may still be cancelled.
Undecided == op.pc \in {"rm_destroy", "rm_cancel"}

\* The object wt_hsm_vault_recover would leave in a slot.
Holds(s) ==
  IF Loaded.reserved = s /\ Authentic(nvm[Stage], Loaded.slot[s]) THEN nvm[Stage]
  ELSE IF Loaded.reserved = N + s /\ ~Undecided /\ ~ReusedByKey(nvm[s]) THEN NoObj
  ELSE nvm[s]

Entry(o) == [val |-> o.val, once |-> o.once]
Missing == [val |-> "absent", once |-> FALSE]

\* Every name's entry is that of the one slot that holds it.
View ==
  \A l \in Labels :
    /\ \A s \in Slots : Holds(s).label = l => Settled(l) = Entry(Holds(s))
    /\ (\A s \in Slots : Holds(s).label # l) => Settled(l) = Missing

LEMMA ShownFact ==
  ASSUME NEW n, NEW t, NEW l
  PROVE  /\ (\A s \in Slots : n[s].label # l) => Shown(n, t, l) = Missing
         /\ \A s \in Slots :
              /\ n[s].label = l /\ (n[s].seal => Authentic(n[s], t.slot[s]))
              /\ \A u \in Slots : n[u].label = l => u = s
              => Shown(n, t, l) = Entry(n[s])
<1>1. (\A s \in Slots : n[s].label # l) => Named(n, l) = {}
  BY Zenon DEF Named
<1>2. ASSUME NEW s \in Slots, n[s].label = l, n[s].seal => Authentic(n[s], t.slot[s]),
             \A u \in Slots : n[u].label = l => u = s
      PROVE  Shown(n, t, l) = Entry(n[s])
  <2>1. Named(n, l) = {s}
    BY <1>2, Zenon DEF Named
  <2>2. (CHOOSE u \in Named(n, l) : TRUE) = s
    BY <2>1, Zenon
  <2> QED
    BY <1>2, <2>1, <2>2, Zenon DEF Shown, Entry
<1> QED
  BY <1>1, <1>2, Zenon DEF Shown, Missing

\* What a slot holds has the slot's name, if any, and can be read.
LEMMA HoldsFact ==
  ASSUME IInv, NEW s \in Slots
  PROVE  /\ Holds(s).label \in {nvm[s].label, "none"}
         /\ Holds(s).seal => Authentic(Holds(s), Loaded.slot[s])
         /\ Holds(s) \in Objects /\ Whole(Holds(s))
<1>0. /\ nvm[s] \in Objects /\ Whole(nvm[s]) /\ nvm[Stage] \in Objects /\ Whole(nvm[Stage])
      /\ s \in Nat /\ N \in Nat /\ s # N + s
  BY SlotFact, Consts DEF Slots
<1>1. CASE Loaded.reserved = s /\ Authentic(nvm[Stage], Loaded.slot[s])
  BY <1>0, <1>1, Zenon DEF Holds, IInv, FlashOK, Replacing
<1>2. CASE Loaded.reserved = s /\ ~Authentic(nvm[Stage], Loaded.slot[s])
  <2>1. Holds(s) = nvm[s]
    BY <1>0, <1>2, Zenon DEF Holds
  <2>2. Authentic(nvm[s], Loaded.slot[s])
    BY <1>2, Zenon DEF IInv, FlashOK, Replacing
  <2> QED
    BY <1>0, <2>1, <2>2, Zenon
<1>3. CASE Loaded.reserved # s
  <2>1. Holds(s) = nvm[s] \/ Holds(s) = NoObj
    BY <1>3, Zenon DEF Holds
  <2>2. nvm[s].seal => Authentic(nvm[s], Loaded.slot[s])
    BY <1>3, Zenon DEF IInv, FlashOK, Counted
  <2> QED
    BY <1>0, <2>1, <2>2, NoObjFact, Zenon
<1> QED
  BY <1>1, <1>2, <1>3, Zenon

LEMMA HoldsUnique ==
  ASSUME IInv, NEW s \in Slots, NEW u \in Slots, Holds(s).label # "none",
         Holds(u).label = Holds(s).label
  PROVE  s = u
BY HoldsFact, Zenon DEF IInv, FlashOK, Unique

\* Recovered and Holds agree.
LEMMA RecoveredFact ==
  ASSUME IInv, NEW s \in Slots
  PROVE  /\ ~Undecided => Recovered.n[s] = Holds(s)
         /\ Holds(s).seal => Authentic(Holds(s), Recovered.t.slot[s]) \/ Recovered.n[s] = NoObj
         /\ Undecided => Holds(s) = nvm[s]
         /\ Undecided /\ nvm[s].label # op.label => Recovered.n[s] = nvm[s]
         /\ Undecided /\ nvm[s].label = op.label => Recovered.n[s] \in {NoObj, nvm[s]}
<1> USE DEF DELETE_MARKER_BASE
<1> DEFINE t == Loaded
           r == t.reserved
<1>0. /\ t \in Tables /\ r \in Nat /\ N \in Nat /\ s \in Nat /\ 1 <= s /\ s <= N /\ s # N + s
      /\ s \in Ids /\ nvm \in [Ids -> Objects] /\ r \in 0..(N + N)
  BY LoadedFact, Consts DEF IInv, TypeOK, Tables, Slots
<1>1. CASE r = 0
  <2>1. Recovered = [n |-> nvm, t |-> t]
    BY <1>0, <1>1 DEF Recovered
  <2>2. Holds(s) = nvm[s]
    BY <1>0, <1>1 DEF Holds
  <2> QED
    BY <2>1, <2>2, NoObjFact, HoldsFact, Zenon
<1>2. CASE r > N
  <2>1. /\ r # 0 /\ r - N \in Slots /\ r - N \in Ids
    BY <1>0, <1>2, Consts DEF Slots
  <2>2. Recovered = [n |-> IF ReusedByKey(nvm[r - N]) THEN nvm ELSE [nvm EXCEPT ![r - N] = NoObj],
                     t |-> [t EXCEPT !.slot[r - N] = 0]]
    BY <1>2, <2>1, Zenon DEF Recovered
  <2>3. Recovered.n = IF ReusedByKey(nvm[r - N]) THEN nvm ELSE [nvm EXCEPT ![r - N] = NoObj]
    BY <2>2, Zenon
  <2>4. Recovered.t.slot = [t.slot EXCEPT ![r - N] = 0]
    BY <1>0, <2>2, Zenon DEF Tables
  <2>5. CASE r = N + s
    <3>1. r - N = s /\ r # s
      BY <1>0, <2>5
    <3>2. Recovered.n[s] = IF ReusedByKey(nvm[s]) THEN nvm[s] ELSE NoObj
      BY <1>0, <2>3, <3>1, Zenon
    <3>3. Undecided => nvm[s].label = op.label
      <4> SUFFICES ASSUME Undecided PROVE nvm[s].label = op.label
        BY Zenon
      <4>1. op.id \in Slots /\ nvm[op.id].label = op.label /\ r = N + op.id
        BY <1>0, <1>2 DEF IInv, Dropping, Undecided, RmPcs
      <4>2. op.id = s
        BY <1>0, <2>5, <4>1 DEF Slots
      <4> QED
        BY <4>1, <4>2, Zenon
    <3>4. Holds(s) = IF ~Undecided /\ ~ReusedByKey(nvm[s]) THEN NoObj ELSE nvm[s]
      BY <2>5, <3>1, Zenon DEF Holds
    <3> QED
      BY <3>2, <3>3, <3>4, NoObjFact, Zenon DEF ReusedByKey
  <2>6. CASE r # N + s
    <3>1. r - N # s /\ r # s
      BY <1>0, <1>2, <2>6
    <3>2. Recovered.n[s] = nvm[s] /\ Recovered.t.slot[s] = t.slot[s]
      BY <1>0, <2>1, <2>3, <2>4, <3>1, Zenon DEF Tables
    <3>3. Holds(s) = nvm[s]
      BY <2>6, <3>1, Zenon DEF Holds
    <3> QED
      BY <3>2, <3>3, HoldsFact, Zenon
  <2> QED
    BY <2>5, <2>6, Zenon
<1>3. CASE r \in Slots
  <2>1. r # 0 /\ ~(r > N) /\ r # N + s /\ ~Undecided
    <3>1. r # 0 /\ ~(r > N) /\ r # N + s
      BY <1>0, <1>3 DEF Slots
    <3>2. ASSUME Undecided PROVE FALSE
      <4>1. op.id \in Slots /\ r \in {0, N + op.id}
        BY <3>2, Zenon DEF IInv, Dropping, Undecided, RmPcs
      <4> QED
        BY <1>0, <1>3, <4>1 DEF Slots
    <3> QED
      BY <3>1, <3>2, Zenon
  <2>2. CASE Authentic(nvm[Stage], t.slot[r])
    <3>1. Recovered = [n |-> [nvm EXCEPT ![r] = nvm[Stage]], t |-> t]
      BY <2>1, <2>2, Zenon DEF Recovered
    <3>2. Recovered.n = [nvm EXCEPT ![r] = nvm[Stage]] /\ Recovered.t = t
      BY <3>1, Zenon
    <3>3. Recovered.n[s] = Holds(s)
      BY <1>0, <2>1, <2>2, <3>2, Zenon DEF Holds
    <3> QED
      BY <2>1, <3>2, <3>3, HoldsFact, Zenon
  <2>3. CASE ~Authentic(nvm[Stage], t.slot[r])
    <3>1. Authentic(nvm[r], t.slot[r])
      BY <1>3, <2>3, Zenon DEF IInv, FlashOK, Replacing
    <3>2. Recovered = [n |-> nvm, t |-> t]
      BY <2>1, <2>3, <3>1, Zenon DEF Recovered
    <3>3. Recovered.n = nvm /\ Recovered.t = t
      BY <3>2, Zenon
    <3>4. Holds(s) = nvm[s]
      BY <2>1, <2>3, Zenon DEF Holds
    <3> QED
      BY <2>1, <3>3, <3>4, HoldsFact, Zenon
  <2> QED
    BY <2>2, <2>3, Zenon
<1> QED
  BY <1>0, <1>1, <1>2, <1>3 DEF Slots

LEMMA ViewFact == IInv => View
<1> SUFFICES ASSUME IInv, NEW l \in Labels
             PROVE  /\ \A s \in Slots : Holds(s).label = l => Settled(l) = Entry(Holds(s))
                    /\ (\A s \in Slots : Holds(s).label # l) => Settled(l) = Missing
  BY Zenon DEF View
<1>0. l # "none"
  BY Consts, Zenon
<1>1. CASE Undecided /\ op.label = l
  <2>1. Settled(l) = Shown(nvm, op.tb, l)
    BY <1>1, Zenon DEF Settled, Undecided
  <2>2. \A s \in Slots : Holds(s) = nvm[s]
    BY <1>1, RecoveredFact, Zenon
  <2>3. op.tb.slot = Loaded.slot
    <3>1. Loaded \in Tables
      BY LoadedFact, Zenon DEF IInv
    <3>2. op.tb = Loaded \/ op.tb = [Loaded EXCEPT !.reserved = 0]
      BY <1>1, Zenon DEF Undecided, IInv, Dropping
    <3> QED
      BY <3>1, <3>2, Zenon DEF Tables
  <2>4. (\A s \in Slots : nvm[s].label # l) => Settled(l) = Missing
    BY <2>1, ShownFact, Zenon
  <2>5. ASSUME NEW s \in Slots, Holds(s).label = l PROVE Settled(l) = Entry(Holds(s))
    <3>1. nvm[s].seal => Authentic(nvm[s], op.tb.slot[s])
      BY <2>2, <2>3, HoldsFact, Zenon
    <3>2. \A u \in Slots : nvm[u].label = l => u = s
      BY <1>0, <2>2, <2>5, HoldsUnique, Zenon
    <3> QED
      BY <2>1, <2>2, <2>5, <3>1, <3>2, ShownFact
  <2> QED
    BY <2>2, <2>4, <2>5, Zenon
<1>2. CASE ~(Undecided /\ op.label = l)
  <2>1. Settled(l) = Shown(Recovered.n, Recovered.t, l)
    BY <1>2, Zenon DEF Settled, Undecided
  <2>2. ASSUME NEW s \in Slots
        PROVE  /\ Holds(s).label = l => Recovered.n[s] = Holds(s)
               /\ Recovered.n[s].label = l => Holds(s).label = l
    BY <1>0, <1>2, RecoveredFact, NoObjFact, Zenon
  <2>3. (\A s \in Slots : Holds(s).label # l) => Settled(l) = Missing
    BY <2>1, <2>2, ShownFact, Zenon
  <2>4. ASSUME NEW s \in Slots, Holds(s).label = l PROVE Settled(l) = Entry(Holds(s))
    <3>1. Recovered.n[s] = Holds(s)
      BY <2>2, <2>4, Zenon
    <3>2. Holds(s).seal => Authentic(Holds(s), Recovered.t.slot[s])
      BY <1>0, <2>4, <3>1, RecoveredFact, NoObjFact, Zenon
    <3>3. \A u \in Slots : Recovered.n[u].label = l => u = s
      BY <1>0, <2>2, <2>4, HoldsUnique, Zenon
    <3> QED
      BY <2>1, <2>4, <3>1, <3>2, <3>3, ShownFact
  <2> QED
    BY <2>3, <2>4, Zenon
<1> QED
  BY <1>1, <1>2, Zenon

LEMMA ViewFact2 == ASSUME IInv, IInv' PROVE View /\ View'
BY ViewFact, PTL

-----------------------------------------------------------------------------
(* What a step does to the map.                                            *)

Store == [l \in Labels |-> Settled(l)]
Outside(o) == o.label \notin Labels

\* Nothing a client can see moved.
SameSlot(s) == Holds(s)' = Holds(s) \/ (Outside(Holds(s)) /\ Outside(Holds(s)'))

LEMMA SameStore ==
  ASSUME IInv, IInv', \A s \in Slots : SameSlot(s) PROVE Store' = Store
<1>1. View /\ View'
  BY ViewFact2, Zenon
<1>2. ASSUME NEW l \in Labels PROVE Settled(l)' = Settled(l)
  <2>1. CASE \E s \in Slots : Holds(s).label = l
    <3>1. PICK s \in Slots : Holds(s).label = l
      BY <2>1, Zenon
    <3>2. Holds(s)' = Holds(s)
      BY <3>1, Zenon DEF SameSlot, Outside
    <3> QED
      BY <1>1, <3>1, <3>2 DEF View, Entry
  <2>2. CASE \A s \in Slots : Holds(s).label # l
    <3>1. \A s \in Slots : Holds(s)'.label # l
      BY <2>2, Zenon DEF SameSlot, Outside
    <3> QED
      BY <1>1, <2>2, <3>1, Zenon DEF View, Missing
  <2> QED
    BY <2>1, <2>2, Zenon
<1> QED
  BY <1>2, Zenon DEF Store

\* One slot gets the object of one name, or loses it.
LEMMA ChangedStore ==
  ASSUME IInv, IInv', NEW s \in Slots, NEW l \in Labels,
         \A u \in Slots \ {s} : SameSlot(u) /\ Holds(u).label # l,
         Holds(s).label = l \/ Outside(Holds(s)), Holds(s)'.label = l \/ Outside(Holds(s)')
  PROVE  Store' = [Store EXCEPT ![l] = IF Holds(s)'.label = l THEN Entry(Holds(s)') ELSE Missing]
<1>1. View /\ View'
  BY ViewFact2, Zenon
<1>2. ASSUME NEW m \in Labels, m # l PROVE Settled(m)' = Settled(m)
  <2>1. CASE \E u \in Slots : Holds(u).label = m
    <3>1. PICK u \in Slots : Holds(u).label = m
      BY <2>1, Zenon
    <3>2. u # s /\ Holds(u)' = Holds(u)
      BY <1>2, <3>1, Zenon DEF SameSlot, Outside
    <3> QED
      BY <1>1, <3>1, <3>2 DEF View, Entry
  <2>2. CASE \A u \in Slots : Holds(u).label # m
    <3>1. \A u \in Slots : Holds(u)'.label # m
      BY <1>2, <2>2, Zenon DEF SameSlot, Outside
    <3> QED
      BY <1>1, <2>2, <3>1, Zenon DEF View, Missing
  <2> QED
    BY <2>1, <2>2, Zenon
<1>3. Settled(l)' = IF Holds(s)'.label = l THEN Entry(Holds(s)') ELSE Missing
  <2>1. CASE Holds(s)'.label = l
    BY <1>1, <2>1, Zenon DEF View, Entry
  <2>2. CASE Holds(s)'.label # l
    <3>1. \A u \in Slots : Holds(u)'.label # l
      BY <2>2, Zenon DEF SameSlot, Outside
    <3> QED
      BY <1>1, <2>2, <3>1, Zenon DEF View, Missing
  <2> QED
    BY <2>1, <2>2, Zenon
<1> QED
  BY <1>2, <1>3, Zenon DEF Store

-----------------------------------------------------------------------------
(* The abstract steps.                                                     *)

LEMMA AskedFact ==
  ASSUME IInv
  PROVE  /\ op = Idle => Asked = Abs!NoReq
         /\ op # Idle => /\ Asked # Abs!NoReq /\ Asked \in Abs!Requests
                         /\ Asked.kind = op.kind /\ Asked.label = op.label
                         /\ op.label \in Labels /\ op.kind \in {"set", "get", "remove"}
                         /\ op.kind = "set" => Asked.val = op.val /\ Asked.once = op.once
<1>1. op = Idle => Asked = Abs!NoReq
  BY Zenon DEF Asked, Abs!NoReq
<1>2. ASSUME op # Idle
      PROVE  /\ op.kind \in {"set", "get", "remove"} /\ op.label \in Labels
             /\ op.once \in BOOLEAN
             /\ op.kind = "set" => op.val \in Values
  BY <1>2, Zenon DEF IInv, TypeOK, Ops, Serving
<1>3. CASE op # Idle /\ op.kind = "set"
  <2>1. Asked = [kind |-> "set", label |-> op.label, val |-> op.val, once |-> op.once]
    BY <1>3, Zenon DEF Asked
  <2>2. Asked \in [kind : {"set"}, label : Labels, val : Values, once : BOOLEAN]
    BY <1>2, <1>3, <2>1, Zenon
  <2> QED
    BY <1>2, <1>3, <2>1, <2>2, Zenon DEF Abs!Requests, Abs!NoReq
<1>4. CASE op # Idle /\ op.kind # "set"
  <2>1. Asked = [kind |-> op.kind, label |-> op.label]
    BY <1>4, Zenon DEF Asked
  <2>2. Asked \in [kind : {"get", "remove"}, label : Labels]
    BY <1>2, <1>4, <2>1, Zenon
  <2> QED
    BY <1>2, <1>4, <2>1, <2>2, Zenon DEF Abs!Requests, Abs!NoReq
<1> QED
  BY <1>1, <1>3, <1>4, Zenon

LEMMA RequestFact == IInv => (op # Idle => Asked \in Abs!Requests)
BY AskedFact, Zenon

\* The request is the same while it is being served.
SameRequest ==
  /\ op # Idle /\ op' # Idle /\ op'.kind = op.kind /\ op'.label = op.label
  /\ op'.val = op.val /\ op'.once = op.once

LEMMA AskedSame == ASSUME SameRequest PROVE Asked' = Asked
BY Zenon DEF SameRequest, Asked

LEMMA AskedDone == ASSUME op' = Idle PROVE Asked' = Abs!NoReq
BY Zenon DEF Asked, Abs!NoReq, Idle

AbsStep == [Abs!Next]_(Abs!avars)

\* A step of the vault that no client sees.
LEMMA Unseen ==
  ASSUME IInv, IInv', \A s \in Slots : SameSlot(s), reply' = reply,
         SameRequest \/ op' = op
  PROVE  AbsStep
<1>1. Store' = Store
  BY SameStore, Zenon
<1>2. Asked' = Asked
  BY AskedSame DEF Asked
<1> QED
  BY <1>1, <1>2, Zenon DEF AbsStep, Abs!avars, Store

\* A refusal, an error or a cut that leaves the map alone.
LEMMA Refused ==
  ASSUME IInv, IInv', op # Idle, op' = Idle, reply' = Told("fail", "none"),
         \A s \in Slots : SameSlot(s)
  PROVE  AbsStep
<1>1. Store' = Store
  BY SameStore, Zenon
<1>2. Asked' = Abs!NoReq /\ Asked # Abs!NoReq
  BY AskedFact, AskedDone, Zenon
<1>3. Abs!Fail
  BY <1>1, <1>2, Zenon DEF Abs!Fail, Abs!Told, Told, Store
<1> QED
  BY <1>3, Zenon DEF AbsStep, Abs!Next

\* The request takes effect: on one slot, which holds its object or nobody's.
Effect(s) ==
  /\ op # Idle /\ op.kind \in {"set", "remove"}
  /\ \A u \in Slots \ {s} : SameSlot(u) /\ Holds(u).label # op.label
  /\ (Holds(s).label = op.label /\ ~Holds(s).once) \/ Outside(Holds(s))
  /\ IF op.kind = "set"
     THEN /\ Holds(s)'.label = op.label
          /\ Holds(s)'.val = op.val /\ Holds(s)'.once = op.once
     ELSE Outside(Holds(s)')

LEMMA EffectFact ==
  ASSUME IInv, IInv', NEW s \in Slots, Effect(s)
  PROVE  Abs!MayChange /\ Store' = Abs!Applied
<1>1. /\ Asked.kind = op.kind /\ Asked.label = op.label /\ op.label \in Labels
      /\ op.kind = "set" => Asked.val = op.val /\ Asked.once = op.once
  BY AskedFact, Zenon DEF Effect
<1>2. View
  BY ViewFact, Zenon
<1>3. ~Store[op.label].once
  <2>1. CASE Holds(s).label = op.label
    <3>1. Store[op.label] = Entry(Holds(s)) /\ ~Holds(s).once
      BY <1>1, <1>2, <2>1, Zenon DEF Store, View, Effect, Outside
    <3>2. Entry(Holds(s)).once = Holds(s).once
      BY Zenon DEF Entry
    <3> QED
      BY <3>1, <3>2, Zenon
  <2>2. CASE Holds(s).label # op.label
    <3>1. Store[op.label] = Missing
      BY <1>1, <1>2, <2>2, Zenon DEF Store, View, Effect
    <3> QED
      BY <3>1 DEF Missing
  <2> QED
    BY <2>1, <2>2, Zenon
<1>4. Abs!MayChange
  BY <1>1, <1>3, Zenon DEF Abs!MayChange, Effect, Store
<1>5. Abs!Wanted = IF Holds(s)'.label = op.label THEN Entry(Holds(s)') ELSE Missing
  BY <1>1, Zenon DEF Abs!Wanted, Abs!Absent, Missing, Entry, Effect, Outside
<1>6. Store' = [Store EXCEPT ![op.label] =
                  IF Holds(s)'.label = op.label THEN Entry(Holds(s)') ELSE Missing]
  <2>1. /\ \A u \in Slots \ {s} : SameSlot(u) /\ Holds(u).label # op.label
        /\ Holds(s).label = op.label \/ Outside(Holds(s))
        /\ Holds(s)'.label = op.label \/ Outside(Holds(s)')
    BY Zenon DEF Effect
  <2> QED
    BY <1>1, <2>1, ChangedStore, Zenon
<1> QED
  BY <1>1, <1>4, <1>5, <1>6, Zenon DEF Abs!Applied, Store

\* Committed, with more writes to come.
LEMMA Committed ==
  ASSUME IInv, IInv', NEW s \in Slots, Effect(s), SameRequest, reply' = reply
  PROVE  AbsStep
<1>1. Abs!MayChange /\ Store' = Abs!Applied /\ Asked' = Asked
  BY EffectFact, AskedSame, Zenon
<1>2. Abs!Commit
  BY <1>1, Zenon DEF Abs!Commit, Store
<1> QED
  BY <1>2, Zenon DEF AbsStep, Abs!Next

\* In effect, and answered in the same step.
LEMMA Finished ==
  ASSUME IInv, IInv', NEW s \in Slots, Effect(s), op' = Idle,
         reply' \in {Told("ok", "none"), Told("fail", "none")}
  PROVE  AbsStep
<1>1. /\ Abs!MayChange /\ Store' = Abs!Applied /\ Asked' = Abs!NoReq
      /\ Asked # Abs!NoReq /\ Asked.kind # "get"
  BY EffectFact, AskedFact, AskedDone, Zenon DEF Effect
<1>2. reply' = Told("ok", "none") => Abs!Succeed
  BY <1>1, Zenon DEF Abs!Succeed, Abs!Told, Told, Store
<1>3. reply' = Told("fail", "none") => Abs!Fail
  BY <1>1, Zenon DEF Abs!Fail, Abs!Told, Told, Store
<1> QED
  BY <1>2, <1>3, Zenon DEF AbsStep, Abs!Next

\* Success, told when the map already is as the request wants it.
LEMMA Confirmed ==
  ASSUME IInv, IInv', op # Idle, op.kind \in {"set", "remove"}, op' = Idle,
         reply' = Told("ok", "none"), \A s \in Slots : SameSlot(s),
         op.kind = "set" => \E s \in Slots : /\ Holds(s).label = op.label
                                            /\ Holds(s).val = op.val /\ Holds(s).once = op.once,
         op.kind = "remove" => \A s \in Slots : Holds(s).label # op.label
  PROVE  AbsStep
<1>1. /\ Asked.kind = op.kind /\ Asked.label = op.label /\ op.label \in Labels
      /\ op.kind = "set" => Asked.val = op.val /\ Asked.once = op.once
  BY AskedFact, Zenon
<1>2. View /\ Store' = Store /\ Asked' = Abs!NoReq
  BY ViewFact, SameStore, AskedDone, Zenon
<1>3. Store[op.label] = Abs!Wanted
  <2>1. CASE op.kind = "set"
    <3>1. PICK s \in Slots : /\ Holds(s).label = op.label
                             /\ Holds(s).val = op.val /\ Holds(s).once = op.once
      BY <2>1, Zenon
    <3>2. Store[op.label] = [val |-> op.val, once |-> op.once]
      BY <1>1, <1>2, <3>1 DEF Store, View, Entry
    <3> QED
      BY <1>1, <2>1, <3>2, Zenon DEF Abs!Wanted
  <2>2. CASE op.kind = "remove"
    <3>1. Store[op.label] = Missing
      BY <1>1, <1>2, <2>2, Zenon DEF Store, View
    <3> QED
      BY <1>1, <2>2, <3>1, Zenon DEF Abs!Wanted, Abs!Absent, Missing
  <2> QED
    BY <2>1, <2>2, Zenon
<1>4. Abs!Succeed
  BY <1>1, <1>2, <1>3, Zenon DEF Abs!Succeed, Abs!Told, Told, Store
<1> QED
  BY <1>4, Zenon DEF AbsStep, Abs!Next

-----------------------------------------------------------------------------
(* Each action of the vault is an abstract step, or unseen.                *)

LEMMA Goes ==
  ASSUME IInv, op.pc # "idle", NEW x, x # "idle", NEW t, Go(x) \/ GoWith(x, t)
  PROVE  SameRequest /\ reply' = reply /\ op'.pc = x /\ op'.id = op.id
<1>1. op \in Ops /\ op # Idle
  BY IdleFact, Zenon DEF IInv, TypeOK
<1>2. /\ op'.pc = x /\ op'.id = op.id /\ op'.kind = op.kind /\ op'.label = op.label
      /\ op'.val = op.val /\ op'.once = op.once /\ reply' = reply
  BY <1>1, Zenon DEF Go, GoWith, Ops
<1>3. op' # Idle
  BY <1>2, IdleFact, Zenon
<1> QED
  BY <1>1, <1>2, <1>3, Zenon DEF SameRequest

\* The flash is as it was, and so is the doubt about a removal.
LEMMA FlashQuiet ==
  ASSUME nvm' = nvm, tbl' = tbl, Undecided' <=> Undecided
  PROVE  \A s \in Slots : SameSlot(s)
<1>1. Loaded' = Loaded
  BY LoadedSame, Zenon
<1> QED
  BY <1>1 DEF SameSlot, Holds

\* No slot is reserved: the store is what the slots hold.
LEMMA HoldsPlain ==
  ASSUME Loaded.reserved = 0, NEW s \in Slots PROVE Holds(s) = nvm[s]
BY Consts DEF Holds, Slots

LEMMA HoldsPlainNext ==
  ASSUME Loaded'.reserved = 0, NEW s \in Slots PROVE Holds(s)' = nvm'[s]
BY Consts DEF Holds, Slots

\* wt_hsm_vault_remove, between its marker and its end.
LEMMA UndecidedFact ==
  ASSUME IInv, Undecided
  PROVE  /\ op # Idle /\ op.kind = "remove" /\ op.id \in Slots /\ op.label \in Labels
         /\ Loaded.reserved \in {0, N + op.id}
         /\ Loaded.reserved # 0 => nvm[op.id].seal
         /\ nvm[op.id].label = op.label /\ ~nvm[op.id].once
         /\ \A s \in Slots : Holds(s) = nvm[s]
         /\ \A s \in Slots \ {op.id} : Holds(s).label # op.label
<1>1. op.pc \in {"rm_destroy", "rm_cancel"} /\ op.pc # "idle" /\ op # Idle
  BY IdleFact, Zenon DEF Undecided
<1>2. /\ op.kind = "remove" /\ op.id \in Slots /\ op.label \in Labels
      /\ nvm[op.id].label = op.label /\ ~nvm[op.id].once
      /\ Loaded.reserved \in {0, N + op.id}
  BY <1>1, Zenon DEF IInv, Serving, Dropping, RmPcs
<1>3. Loaded.reserved # 0 => nvm[op.id].seal
  BY <1>1, Zenon DEF IInv, Dropping
<1>4. \A s \in Slots : Holds(s) = nvm[s]
  BY RecoveredFact, Zenon
<1>5. \A s \in Slots \ {op.id} : nvm[s].label # op.label
  BY <1>2, Consts, Zenon DEF IInv, FlashOK, Unique
<1> QED
  BY <1>1, <1>2, <1>3, <1>4, <1>5, Zenon

LEMMA UndecidedHolds == IInv => (Undecided => \A u \in Slots : Holds(u) = nvm[u])
BY UndecidedFact, Zenon

\* A refusal, a failing call or power loss wherever the request stands: a sealed
\* object that is marked is then as good as removed.
LEMMA Cut ==
  ASSUME IInv, IInv', op # Idle, nvm' = nvm, tbl' = tbl, op' = Idle,
         reply' = Told("fail", "none")
  PROVE  AbsStep
<1>0. ~Undecided' /\ Loaded' = Loaded
  BY IdleFact, LoadedSame, Zenon DEF Undecided
<1>1. CASE ~Undecided
  BY <1>0, <1>1, FlashQuiet, Refused, Zenon
<1>2. CASE Undecided /\ Loaded.reserved = 0
  <2>1. \A s \in Slots : SameSlot(s)
    BY <1>0, <1>2, HoldsPlain, HoldsPlainNext, Zenon DEF SameSlot
  <2> QED
    BY <2>1, Refused, Zenon
<1>3. CASE Undecided /\ Loaded.reserved # 0
  <2>0. PICK s \in Slots : s = op.id
    BY <1>3, UndecidedFact, Zenon
  <2>1. /\ op.kind = "remove" /\ op.label \in Labels /\ Loaded.reserved = N + s
        /\ nvm[s].seal /\ nvm[s].label = op.label /\ ~nvm[s].once
        /\ \A u \in Slots : Holds(u) = nvm[u]
        /\ \A u \in Slots \ {s} : Holds(u).label # op.label
    BY <1>3, <2>0, UndecidedFact, Zenon
  <2>2. Holds(s)' = NoObj
    <3>1. Loaded'.reserved = N + s /\ N + s # s /\ nvm'[s] = nvm[s] /\ ~ReusedByKey(nvm[s])
      BY <1>0, <2>1, Consts DEF Slots, ReusedByKey
    <3> QED
      BY <1>0, <3>1, Zenon DEF Holds, ReusedByKey
  <2>3. ASSUME NEW u \in Slots \ {s} PROVE SameSlot(u)
    <3>1. Loaded'.reserved # N + u /\ Loaded'.reserved # u
      BY <1>0, <2>1, Consts DEF Slots
    <3> QED
      BY <2>1, <3>1, Zenon DEF SameSlot, Holds
  <2>4. Effect(s)
    BY <2>1, <2>2, <2>3, NoObjFact, Consts, Zenon DEF Effect, Outside
  <2> QED
    BY <2>1, <2>4, Finished, Zenon
<1> QED
  BY <1>1, <1>2, <1>3, Zenon

LEMMA CutRefines == ASSUME IInv, IInv', IoError \/ PowerLoss PROVE AbsStep
<1>1. CASE op # Idle
  BY <1>1, Cut, Zenon DEF IoError, PowerLoss, FlashSame, Refuse, Answer
<1>2. CASE op = Idle
  <2>1. op' = op /\ reply' = reply /\ nvm' = nvm /\ tbl' = tbl
    BY <1>2, Zenon DEF IoError, PowerLoss, FlashSame
  <2>2. \A s \in Slots : SameSlot(s)
    BY <2>1, FlashQuiet, Zenon DEF Undecided
  <2> QED
    BY <2>1, <2>2, Unseen, Zenon
<1> QED
  BY <1>1, <1>2, Zenon

\* A request starts: nothing moves.
LEMMA BeginRefines == ASSUME IInv, IInv', Set \/ Get \/ Remove PROVE AbsStep
<1>1. PICK k, l, sl, on, v : (k = "set" \/ k = "get" \/ k = "remove") /\ Begin(k, l, sl, on, v)
  BY Zenon DEF Set, Get, Remove
<1>2. op = Idle /\ nvm' = nvm /\ tbl' = tbl /\ reply' = reply /\ op' # Idle
  <2>1. op'.kind = k
    BY <1>1, Zenon DEF Begin, Idle
  <2> QED
    BY <1>1, <2>1, IdleFact, Zenon DEF Begin, FlashSame
<1>3. ~Undecided /\ ~Undecided'
  <2>1. op'.pc = RecoverEntry(Loaded)
    BY <1>1, Zenon DEF Begin, Idle
  <2> QED
    BY <1>2, <2>1, IdleFact, Zenon DEF RecoverEntry, Undecided
<1>4. Store' = Store
  BY <1>2, <1>3, FlashQuiet, SameStore, Zenon
<1>5. Asked = Abs!NoReq /\ (Asked \in Abs!Requests)'
  <2>1. Asked = Abs!NoReq
    BY <1>2, AskedFact, Zenon
  <2>2. (op # Idle => Asked \in Abs!Requests)'
    BY RequestFact, PTL
  <2> QED
    BY <1>2, <2>1, <2>2, Zenon
<1>6. Abs!Begin
  BY <1>2, <1>4, <1>5, Zenon DEF Abs!Begin, Store, Abs!Requests
<1> QED
  BY <1>6, Zenon DEF AbsStep, Abs!Next

\* wt_hsm_vault_recover: no step of it moves what it will leave.
LEMMA RecoverRefines ==
  ASSUME IInv, IInv', RecDestroy \/ RecRestore \/ RecLive PROVE AbsStep
<1>0. /\ op.pc \in {"rec_destroy", "rec_restore", "rec_live"} /\ op.pc # "idle" /\ op # Idle
      /\ ~Undecided /\ op.tb = Loaded /\ Loaded \in Tables /\ tbl' = tbl /\ Loaded' = Loaded
  BY IdleFact, LoadedFact, LoadedSame
    , Zenon DEF RecDestroy, RecRestore, RecLive, FlashSame, Destroy, IInv, Recovering, Undecided
<1>1. CASE FlashSame /\ Refuse
  BY <1>0, <1>1, Cut, Zenon DEF FlashSame, Refuse, Answer
<1>2. ASSUME FlashSame, NEW x \in {"rec_table", "rec_deleted"}, NEW t, GoWith(x, t)
      PROVE  AbsStep
  <2>1. SameRequest /\ reply' = reply /\ op'.pc = x
    BY <1>0, <1>2, Goes, Zenon
  <2>2. \A s \in Slots : SameSlot(s)
    BY <1>0, <1>2, <2>1, FlashQuiet, Zenon DEF Undecided, FlashSame
  <2> QED
    BY <2>1, <2>2, Unseen, Zenon
<1>3. CASE RecDestroy
  <2>0. PICK s \in Slots : s = Loaded.reserved - N /\ Loaded.reserved = N + s
    <3>1. Loaded.reserved > N /\ Loaded.reserved \in 0..(N + N)
      BY <1>0, <1>3, Zenon DEF RecDestroy, IInv, Recovering, Tables
    <3> QED
      BY <3>1, Consts DEF Slots
  <2>1. CASE /\ ~ReusedByKey(nvm[s]) /\ Wrote(s, NoObj)
             /\ \E t : GoWith("rec_deleted", t)
    <3>1. SameRequest /\ reply' = reply /\ op'.pc = "rec_deleted"
      BY <1>0, <2>1, Goes, Zenon
    <3>2. s \in Ids /\ s # N + s /\ s # Stage /\ nvm'[s] = NoObj
          /\ \A u \in Ids : u # s => nvm'[u] = nvm[u]
      BY <2>1, WroteFact, NoObjFact, Consts DEF IInv, Slots
    <3>3. Holds(s) = NoObj /\ Holds(s)' = NoObj
      BY <1>0, <2>0, <2>1, <3>1, <3>2, Zenon DEF Holds, Undecided
    <3>4. ASSUME NEW u \in Slots, u # s PROVE Holds(u)' = Holds(u)
      <4>1. nvm'[u] = nvm[u] /\ nvm'[Stage] = nvm[Stage] /\ Loaded.reserved # N + u
        BY <2>0, <3>2, <3>4, Consts DEF Slots
      <4> QED
        BY <1>0, <4>1, Zenon DEF Holds
    <3> QED
      BY <3>1, <3>3, <3>4, Unseen, Zenon DEF SameSlot
  <2>2. CASE FlashSame /\ \E t : GoWith("rec_deleted", t)
    BY <1>2, <2>2, Zenon
  <2> QED
    BY <1>0, <1>1, <2>0, <2>1, <2>2, <1>3, Zenon DEF RecDestroy, Destroy, Wrote, DELETE_MARKER_BASE
<1>4. CASE RecRestore
  <2>0. PICK s \in Slots : s = Loaded.reserved /\ Authentic(nvm[Stage], Loaded.slot[s])
    BY <1>4, Zenon DEF RecRestore, IInv, Recovering
  <2>1. CASE Wrote(s, [nvm[Stage] EXCEPT !.ro = FALSE]) /\ \E t : GoWith("rec_table", t)
    <3>1. SameRequest /\ reply' = reply /\ op'.pc = "rec_table"
      BY <1>0, <2>1, Goes, Zenon
    <3>2. nvm'[Stage] = nvm[Stage] /\ \A u \in Slots : u # s => nvm'[u] = nvm[u]
      BY <2>1, Consts, Zenon DEF Wrote, IInv, TypeOK
    <3>3. Holds(s) = nvm[Stage] /\ Holds(s)' = nvm[Stage]
      BY <1>0, <2>0, <3>2, Zenon DEF Holds
    <3>4. ASSUME NEW u \in Slots, u # s PROVE Holds(u)' = Holds(u)
      BY <1>0, <2>0, <3>1, <3>2, <3>4, Zenon DEF Holds, Undecided
    <3> QED
      BY <3>1, <3>3, <3>4, Unseen, Zenon DEF SameSlot
  <2>2. CASE nvm' = nvm /\ Refuse
    BY <1>0, <2>2, Cut, Zenon DEF Refuse, Answer
  <2> QED
    BY <1>0, <2>0, <2>1, <2>2, <1>4, Zenon DEF RecRestore, Wrote
<1>5. CASE RecLive
  <2>1. Authentic(nvm[Loaded.reserved], Loaded.slot[Loaded.reserved])
    BY <1>5, Zenon DEF RecLive, IInv, Recovering, FlashOK, Replacing
  <2>2. FlashSame /\ \E t : GoWith("rec_table", t)
    BY <1>0, <1>5, <2>1, Zenon DEF RecLive
  <2> QED
    BY <1>2, <2>2, Zenon
<1> QED
  BY <1>3, <1>4, <1>5, Zenon

\* The table that ends a recovery says what the slots hold.
LEMMA RecTableRefines == ASSUME IInv, IInv', RecTable PROVE AbsStep
<1>0. op.pc \in {"rec_table", "rec_deleted"} /\ op.pc # "idle" /\ op # Idle /\ ~Undecided
  BY IdleFact, Zenon DEF RecTable, Undecided
<1>1. CASE FlashSame /\ Refuse
  BY <1>0, <1>1, Cut, Zenon DEF FlashSame, Refuse, Answer
<1>2. CASE StoreTable(op.tb) /\ \E x \in {"rec_stage", "main"} : Go(x)
  <2>1. SameRequest /\ reply' = reply
    BY <1>0, <1>2, Goes, Zenon
  <2>2. nvm' = nvm /\ Loaded' = op.tb
    BY <1>0, <1>2, StoredFact, Zenon DEF StoreTable, IInv, Serving
  <2>3. Loaded \in Tables /\ op.tb.reserved = 0
    <3>1. Loaded \in Tables
      BY LoadedFact, Zenon DEF IInv
    <3>2. CASE op.pc = "rec_table"
      BY <3>1, <3>2, TableEdits, Zenon DEF IInv, Recovering
    <3>3. CASE op.pc = "rec_deleted"
      <4>1. op.tb = Settle(Loaded, Loaded.reserved - N) /\ Loaded.reserved > N
        BY <3>3, Zenon DEF IInv, Recovering
      <4>2. Loaded.reserved - N \in Slots
        BY <3>1, <4>1, Consts DEF Tables, Slots
      <4>3. Settle(Loaded, Loaded.reserved - N).reserved = 0
        BY <3>1, <4>2, SettledFree, Zenon
      <4> QED
        BY <3>1, <4>1, <4>3, Zenon
    <3> QED
      BY <1>0, <3>1, <3>2, <3>3, Zenon
  <2>4. \A s \in Slots : Holds(s)' = nvm[s]
    BY <2>2, <2>3, HoldsPlainNext, Zenon
  <2>5. ASSUME NEW s \in Slots PROVE SameSlot(s)
    <3>1. CASE op.pc = "rec_table"
      <4>1. Loaded.reserved # N + s /\ (Loaded.reserved = s /\ Authentic(nvm[Stage], Loaded.slot[s])
                                          => nvm[Stage] = nvm[s])
        BY <3>1, Consts DEF IInv, Recovering, Slots
      <4> QED
        BY <2>4, <4>1, Zenon DEF SameSlot, Holds
    <3>2. CASE op.pc = "rec_deleted"
      <4>1. Loaded.reserved > N /\ nvm[Loaded.reserved - N].label \notin Labels /\ Loaded.reserved # s
        BY <3>2, Consts DEF IInv, Recovering, Slots
      <4>2. CASE Loaded.reserved = N + s
        <5>1. nvm[s].label \notin Labels
          BY <4>1, <4>2, Consts DEF Slots
        <5>2. Holds(s) = nvm[s] \/ Holds(s) = NoObj
          BY <4>1, Zenon DEF Holds
        <5> QED
          BY <2>4, <5>1, <5>2, NoObjFact, Consts, Zenon DEF SameSlot, Outside
      <4>3. CASE Loaded.reserved # N + s
        BY <2>4, <4>1, <4>3, Zenon DEF SameSlot, Holds
      <4> QED
        BY <4>2, <4>3, Zenon
    <3> QED
      BY <1>0, <3>1, <3>2, Zenon
  <2> QED
    BY <2>1, <2>5, Unseen, Zenon
<1> QED
  BY <1>1, <1>2, Zenon DEF RecTable

\* wt_hsm_vault_destroy_stage: with no slot reserved the staged copy is spare.
LEMMA DestroyStageRefines == ASSUME IInv, IInv', DestroyStage PROVE AbsStep
<1>0. /\ op.pc \in {"rec_stage", "end_stage"} /\ op.pc # "idle" /\ op # Idle
      /\ Loaded.reserved = 0 /\ Loaded' = Loaded
  BY IdleFact, LoadedSame, Zenon DEF DestroyStage, FlashSame, Destroy, IInv, Recovering, Setting
<1>1. \A s \in Slots : nvm'[s] = nvm[s]
  <2>1. nvm' = nvm \/ Wrote(Stage, NoObj)
    BY Zenon DEF DestroyStage, FlashSame, Destroy, Wrote
  <2> QED
    BY <2>1, WroteFact, NoObjFact, Consts, Zenon DEF IInv
<1>2. \A s \in Slots : SameSlot(s) /\ Holds(s) = nvm[s]
  BY <1>0, <1>1, HoldsPlain, HoldsPlainNext, Zenon DEF SameSlot
<1>3. CASE op.pc = "rec_stage"
  <2>1. SameRequest /\ reply' = reply
    BY <1>0, <1>3, Goes, Zenon DEF DestroyStage
  <2> QED
    BY <1>2, <2>1, Unseen, Zenon
<1>4. CASE op.pc = "end_stage"
  <2>1. /\ op.kind = "set" /\ op.id \in Slots /\ nvm[op.id].label = op.label
        /\ nvm[op.id].val = op.val /\ nvm[op.id].once = op.once
    BY <1>4, Zenon DEF IInv, Setting, SetPcs
  <2>2. op' = Idle /\ reply' = Told("ok", "none")
    BY <1>4, Zenon DEF DestroyStage, Answer
  <2>3. \E s \in Slots : /\ Holds(s).label = op.label /\ Holds(s).val = op.val
                         /\ Holds(s).once = op.once
    BY <1>2, <2>1, Zenon
  <2> QED
    BY <1>0, <1>2, <2>1, <2>2, <2>3, Confirmed, Zenon
<1> QED
  BY <1>0, <1>3, <1>4, Zenon

\* wt_hsm_vault_get returns what the map holds.
LEMMA GetRefines == ASSUME IInv, IInv', GetMain PROVE AbsStep
<1>0. /\ op.pc = "main" /\ op.kind = "get" /\ op # Idle /\ op.label \in Labels /\ ~Undecided
      /\ Loaded.reserved = 0 /\ nvm' = nvm /\ tbl' = tbl
  BY IdleFact, Zenon DEF GetMain, FlashSame, IInv, Recovering, Serving, Undecided
<1>1. CASE Refuse
  BY <1>0, <1>1, Cut, Zenon DEF Refuse, Answer
<1>2. ASSUME NEW s \in Slots, nvm[s].label = op.label, Answer("ok", nvm[s].val)
      PROVE  AbsStep
  <2>1. op' = Idle /\ reply' = Told("ok", nvm[s].val)
    BY <1>2, Zenon DEF Answer
  <2>2. ~Undecided'
    BY <2>1, IdleFact, Zenon DEF Undecided
  <2>3. Store' = Store
    BY <1>0, <2>2, FlashQuiet, SameStore, Zenon
  <2>4. Store[op.label] = Entry(nvm[s])
    BY <1>0, <1>2, ViewFact, HoldsPlain, Zenon DEF View, Store
  <2>5. nvm[s].val # "absent"
    BY <1>0, <1>2, SlotFact, VaultAssumption, Consts, Zenon DEF Whole
  <2>6. Store[op.label].val = nvm[s].val /\ Store[op.label] # Abs!Absent
    BY <2>4, <2>5 DEF Entry, Abs!Absent
  <2>7. Asked.kind = "get" /\ Asked.label = op.label /\ Asked' = Abs!NoReq
    BY <1>0, <2>1, AskedFact, AskedDone, Zenon
  <2>8. Abs!Succeed
    BY <2>1, <2>3, <2>6, <2>7, Zenon DEF Abs!Succeed, Abs!Told, Told, Store
  <2> QED
    BY <2>8, Zenon DEF AbsStep, Abs!Next
<1>3. CASE ~Refuse
  <2> DEFINE s == CHOOSE s \in Named(nvm, op.label) : TRUE
  <2>1. Named(nvm, op.label) # {} /\ Answer("ok", nvm[s].val)
    BY <1>3, Zenon DEF GetMain
  <2>2. s \in Named(nvm, op.label)
    BY <2>1, Zenon
  <2>3. s \in Slots /\ nvm[s].label = op.label
    BY <2>2, Zenon DEF Named
  <2> HIDE DEF s
  <2> QED
    BY <1>2, <2>1, <2>3, Zenon
<1> QED
  BY <1>1, <1>3, Zenon

\* wt_hsm_vault_set up to its first write: nothing moves.
LEMMA SetMainRefines == ASSUME IInv, IInv', SetMain PROVE AbsStep
<1>0. op.pc = "main" /\ op # Idle /\ op \in Ops /\ ~Undecided
  BY IdleFact, Zenon DEF SetMain, IInv, TypeOK, Undecided
<1>1. CASE FlashSame /\ Refuse
  BY <1>0, <1>1, Cut, Zenon DEF FlashSame, Refuse, Answer
<1>2. CASE ~(FlashSame /\ Refuse)
  <2>1. PICK s, repl : SetPlan(s, repl)
    BY <1>2, SetMainCases, Zenon
  <2>2. reply' = reply
    BY <1>2, Zenon DEF SetMain
  <2>3. /\ op'.pc \in {"set_table", "set_add"} /\ op'.kind = op.kind /\ op'.label = op.label
        /\ op'.val = op.val /\ op'.once = op.once /\ nvm' = nvm /\ tbl' = tbl
    BY <1>0, <2>1, Zenon DEF SetPlan, Ops
  <2>4. SameRequest /\ ~Undecided'
    BY <1>0, <2>3, IdleFact, Zenon DEF SameRequest, Undecided
  <2>5. \A s1 \in Slots : SameSlot(s1)
    BY <1>0, <2>3, <2>4, FlashQuiet, Zenon
  <2> QED
    BY <2>2, <2>4, <2>5, Unseen, Zenon
<1> QED
  BY <1>1, <1>2, Zenon

\* The table goes first: it reserves the slot while the object there is intact.
LEMMA SetTableRefines == ASSUME IInv, IInv', SetTable PROVE AbsStep
<1>0. op.pc = "set_table" /\ op # Idle /\ op.pc # "idle" /\ ~Undecided
  BY IdleFact, Zenon DEF SetTable, Undecided
<1>1. CASE FlashSame /\ Refuse
  BY <1>0, <1>1, Cut, Zenon DEF FlashSame, Refuse, Answer
<1>2. CASE StoreTable(op.tb) /\ \E x \in {"set_stage", "set_add"} : Go(x)
  <2>1. SameRequest /\ reply' = reply
    BY <1>0, <1>2, Goes, Zenon
  <2>2. nvm' = nvm /\ Loaded' = op.tb
    BY <1>0, <1>2, StoredFact, Zenon DEF StoreTable, IInv, Serving
  <2>3. Loaded.reserved = 0 /\ nvm[Stage] = NoObj /\ op.tb.reserved \in {0, op.id} /\ op.id \in Slots
    BY <1>0, Zenon DEF IInv, Setting, SetPcs
  <2>4. ASSUME NEW s \in Slots PROVE SameSlot(s)
    <3>1. ~Authentic(nvm'[Stage], Loaded'.slot[s]) /\ Loaded'.reserved # N + s
      BY <2>2, <2>3, NoObjFact, Consts DEF Authentic, Slots
    <3>2. Holds(s)' = nvm[s]
      BY <2>2, <3>1, Zenon DEF Holds
    <3> QED
      BY <2>3, <3>2, HoldsPlain, Zenon DEF SameSlot
  <2> QED
    BY <2>1, <2>4, Unseen, Zenon
<1> QED
  BY <1>1, <1>2, Zenon DEF SetTable

\* The copy of the object about to be replaced is that object.
LEMMA SetStageRefines == ASSUME IInv, IInv', SetStage PROVE AbsStep
<1>0. /\ op.pc = "set_stage" /\ op # Idle /\ op.pc # "idle" /\ ~Undecided /\ op.id \in Slots
      /\ Loaded.reserved = op.id /\ nvm[Stage] = NoObj
  BY IdleFact, Zenon DEF SetStage, IInv, Setting, SetPcs, Undecided
<1>1. CASE FlashSame /\ Refuse
  BY <1>0, <1>1, Cut, Zenon DEF FlashSame, Refuse, Answer
<1>2. CASE Wrote(Stage, [nvm[op.id] EXCEPT !.ro = FALSE]) /\ tbl' = tbl /\ Go("set_add")
  <2>1. SameRequest /\ reply' = reply /\ op'.pc = "set_add"
    BY <1>0, <1>2, Goes, Zenon
  <2>2. ~Authentic(nvm[Stage], Loaded.slot[op.id])
    BY <1>0, NoObjFact, Zenon DEF Authentic
  <2>3. nvm[op.id] \in Objects /\ ~nvm[op.id].ro
    BY <1>0, <2>2, SlotFact, Consts, Zenon DEF IInv, FlashOK, Replacing, Whole
  <2>4. [nvm[op.id] EXCEPT !.ro = FALSE] = nvm[op.id]
    BY <2>3, SameRo, Zenon
  <2>5. Wrote(Stage, nvm[op.id])
    BY <1>2, <2>4, Zenon
  <2>6. /\ nvm'[Stage] = nvm[op.id] /\ Loaded' = Loaded
        /\ \A s \in Slots : nvm'[s] = nvm[s]
    BY <1>2, <2>3, <2>5, WroteFact, LoadedSame, Consts, Zenon DEF IInv
  <2>7. ASSUME NEW s \in Slots PROVE SameSlot(s)
    <3>1. Loaded.reserved # N + s
      BY <1>0, Consts DEF Slots
    <3>2. Holds(s) = nvm[s]
      BY <1>0, <2>2, <3>1, Zenon DEF Holds
    <3>3. Holds(s)' = nvm[s]
      BY <1>0, <2>6, <3>1, Zenon DEF Holds
    <3> QED
      BY <3>2, <3>3, Zenon DEF SameSlot
  <2> QED
    BY <2>1, <2>7, Unseen, Zenon
<1> QED
  BY <1>1, <1>2, Zenon DEF SetStage, AddObject, Wrote

\* An object that replaces nothing sealed is there at once; one that does stays
\* hidden behind the staged copy.
LEMMA SetAddRefines == ASSUME IInv, IInv', SetAdd PROVE AbsStep
<1>0. /\ op.pc = "set_add" /\ op # Idle /\ op.pc # "idle" /\ ~Undecided
  BY IdleFact, Zenon DEF SetAdd, Undecided
<1>1. CASE FlashSame /\ Refuse
  BY <1>0, <1>1, Cut, Zenon DEF FlashSame, Refuse, Answer
<1>2. CASE /\ Wrote(op.id, Added) /\ tbl' = tbl
           /\ IF op.repl THEN GoWith("set_commit", Committing) ELSE Answer("ok", "none")
  <2>0. PICK s \in Slots : s = op.id
    BY <1>0, SetAddFact, Zenon
  <2>1. /\ nvm'[s] = Added /\ Loaded' = Loaded /\ nvm'[Stage] = nvm[Stage]
        /\ \A u \in Slots : u # s => nvm'[u] = nvm[u]
    <3>1. Wrote(s, Added) /\ Added \in Objects /\ s \in Ids /\ TypeOK
      BY <1>0, <1>2, <2>0, SetAddFact, Consts, Zenon DEF IInv
    <3>2. nvm'[s] = Added /\ \A j \in Ids : j # s => nvm'[j] = nvm[j]
      BY <3>1, WroteFact, Zenon
    <3> QED
      BY <1>2, <3>2, LoadedSame, Consts, Zenon
  <2>2. /\ Added.label = op.label /\ Added.val = op.val /\ Added.once = op.once
        /\ op.label \in Labels /\ op.kind = "set"
    BY <1>0, SetAddFact, Zenon
  <2>3. CASE op.repl
    <3>1. SameRequest /\ reply' = reply /\ op'.pc = "set_commit"
      BY <1>0, <1>2, <2>3, Goes, Zenon
    <3>2. Loaded.reserved = s /\ Authentic(nvm[Stage], Loaded.slot[s])
      BY <1>0, <2>0, <2>3, Zenon DEF IInv, Setting
    <3>3. ASSUME NEW u \in Slots PROVE Holds(u)' = Holds(u)
      <4>1. Loaded.reserved # N + u
        BY <3>2, Consts DEF Slots
      <4> QED
        BY <2>1, <3>2, <4>1, Zenon DEF Holds
    <3> QED
      BY <3>1, <3>3, Unseen, Zenon DEF SameSlot
  <2>4. CASE ~op.repl
    <3>1. op' = Idle /\ reply' = Told("ok", "none")
      BY <1>2, <2>4, Zenon DEF Answer
    <3>2. Loaded.reserved = 0 /\ Loaded'.reserved = 0 /\ Target
      BY <1>0, <2>1, <2>4, Zenon DEF IInv, Setting
    <3>3. \A u \in Slots : Holds(u) = nvm[u] /\ Holds(u)' = nvm'[u]
      BY <3>2, HoldsPlain, HoldsPlainNext, Zenon
    <3>4. \A u \in Slots \ {s} : nvm[u].label # op.label
      BY <2>0, <2>2, <2>4, <3>2, Consts, Zenon DEF Target, IInv, FlashOK, Unique
    <3>5. (nvm[s].label = op.label /\ ~nvm[s].once) \/ nvm[s].label \notin Labels
      BY <2>0, <2>4, <3>2, Consts, Zenon DEF Target
    <3>6. Effect(s)
      BY <1>0, <2>1, <2>2, <3>3, <3>4, <3>5 DEF Effect, SameSlot, Outside
    <3> QED
      BY <3>1, <3>6, Finished, Zenon
  <2> QED
    BY <2>3, <2>4, Zenon
<1> QED
  BY <1>1, <1>2, Zenon DEF SetAdd, AddObject, Wrote, Added, Sealing, Committing

\* The replacement is in effect when its table is stored.
LEMMA SetCommitRefines == ASSUME IInv, IInv', SetCommit PROVE AbsStep
<1>0. /\ op.pc = "set_commit" /\ op # Idle /\ op.pc # "idle" /\ ~Undecided
  BY IdleFact, Zenon DEF SetCommit, Undecided
<1>1. CASE FlashSame /\ Refuse
  BY <1>0, <1>1, Cut, Zenon DEF FlashSame, Refuse, Answer
<1>2. CASE StoreTable(op.tb) /\ Go("end_stage")
  <2>0. PICK s \in Slots : s = op.id
    BY <1>0, Zenon DEF IInv, Setting, SetPcs
  <2>1. SameRequest /\ reply' = reply
    BY <1>0, <1>2, Goes, Zenon
  <2>2. nvm' = nvm /\ Loaded' = op.tb
    BY <1>0, <1>2, StoredFact, Zenon DEF StoreTable, IInv, Serving
  <2>3. /\ op.kind = "set" /\ op.label \in Labels /\ Loaded.reserved = s
        /\ Authentic(nvm[Stage], Loaded.slot[s])
        /\ nvm[s].label = op.label /\ nvm[s].val = op.val /\ nvm[s].once = op.once
    BY <1>0, <2>0, Zenon DEF IInv, Setting, Serving, SetPcs
  <2>4. (op.pc = "end_stage" => Loaded.reserved = 0)' /\ op'.pc = "end_stage"
    BY <1>0, <1>2, Goes DEF IInv, Setting
  <2>5. \A u \in Slots : Holds(u)' = nvm[u]
    BY <2>2, <2>4, HoldsPlainNext, Zenon
  <2>6. Holds(s) = nvm[Stage] /\ nvm[Stage].label = op.label /\ ~nvm[Stage].once
    BY <2>3, Zenon DEF Holds, IInv, FlashOK, Replacing
  <2>7. ASSUME NEW u \in Slots \ {s} PROVE Holds(u) = nvm[u] /\ nvm[u].label # op.label
    <3>1. Loaded.reserved # N + u /\ Loaded.reserved # u
      BY <2>3, Consts DEF Slots
    <3> QED
      BY <2>3, <3>1, Consts, Zenon DEF Holds, IInv, FlashOK, Unique
  <2>8. Effect(s)
    BY <1>0, <2>3, <2>5, <2>6, <2>7 DEF Effect, SameSlot
  <2> QED
    BY <2>1, <2>8, Committed, Zenon
<1> QED
  BY <1>1, <1>2, Zenon DEF SetCommit

\* The marker alone removes nothing while the removal may be cancelled.
LEMMA RemoveMainRefines == ASSUME IInv, IInv', RemoveMain PROVE AbsStep
<1>0. /\ op.pc = "main" /\ op # Idle /\ op \in Ops /\ op.tb = Loaded /\ op.tb \in Tables
      /\ Loaded.reserved = 0
  BY IdleFact, LoadedFact, Zenon DEF RemoveMain, IInv, TypeOK, Recovering, Serving
<1>1. CASE FlashSame /\ Refuse
  BY <1>0, <1>1, Cut, Zenon DEF FlashSame, Refuse, Answer
<1>2. ASSUME nvm' = nvm, reply' = reply, NEW s \in Slots, NEW t \in Tables,
             op' = [op EXCEPT !.id = s, !.tb = t, !.pc = "rm_destroy"]
               \/ op' = [op EXCEPT !.id = s, !.pc = "rm_destroy"]
      PROVE  AbsStep
  <2>1. /\ op'.pc = "rm_destroy" /\ op'.kind = op.kind /\ op'.label = op.label
        /\ op'.val = op.val /\ op'.once = op.once
    BY <1>0, <1>2, Zenon DEF Ops
  <2>2. SameRequest
    BY <1>0, <2>1, IdleFact, Zenon DEF SameRequest
  <2>3. (Undecided => \A u \in Slots : Holds(u) = nvm[u])'
    BY UndecidedHolds, PTL
  <2>4. \A u \in Slots : Holds(u)' = nvm'[u]
    BY <2>1, <2>3, Zenon DEF Undecided
  <2>5. \A u \in Slots : SameSlot(u)
    BY <1>0, <1>2, <2>4, HoldsPlain, Zenon DEF SameSlot
  <2> QED
    BY <1>2, <2>2, <2>5, Unseen, Zenon
<1>3. ASSUME NEW s \in Named(nvm, op.label), FlashSame, reply' = reply,
             op' = [op EXCEPT !.id = s, !.pc = "rm_destroy"]
      PROVE  AbsStep
  BY <1>0, <1>2, <1>3, Zenon DEF Named, FlashSame
<1>4. ASSUME NEW s \in Named(nvm, op.label), StoreTable(Marked(s)), reply' = reply,
             op' = [op EXCEPT !.id = s, !.tb = Marked(s), !.pc = "rm_destroy"]
      PROVE  AbsStep
  <2>1. s \in Slots /\ N + s \in 0..(N + N) /\ nvm' = nvm
    BY <1>4, Consts DEF Named, Slots, StoreTable
  <2>2. Marked(s) \in Tables
    BY <1>0, <2>1, Zenon DEF Marked, DELETE_MARKER_BASE, Tables
  <2> HIDE DEF Marked
  <2> QED
    BY <1>2, <1>4, <2>1, <2>2, Zenon
<1> QED
  BY <1>1, <1>3, <1>4, Zenon DEF RemoveMain, Marked

\* The removal is in effect when the object is destroyed.
LEMMA RemoveDestroyRefines == ASSUME IInv, IInv', RemoveDestroy PROVE AbsStep
<1>0. op.pc = "rm_destroy" /\ op.pc # "idle" /\ Undecided
  BY Zenon DEF RemoveDestroy, Undecided
<1>1. PICK s \in Slots : s = op.id
  BY <1>0, UndecidedFact, Zenon
<1>2. /\ op # Idle /\ op.kind = "remove" /\ op.label \in Labels
      /\ nvm[s].label = op.label /\ ~nvm[s].once /\ Loaded.reserved \in {0, N + s}
      /\ \A u \in Slots : Holds(u) = nvm[u]
      /\ \A u \in Slots \ {s} : Holds(u).label # op.label
  BY <1>0, <1>1, UndecidedFact, Zenon
<1>3. /\ nvm'[s] = NoObj /\ Loaded' = Loaded /\ nvm'[Stage] = nvm[Stage]
      /\ \A u \in Slots : u # s => nvm'[u] = nvm[u]
  <2>1. Wrote(s, NoObj) /\ tbl' = tbl
    BY <1>1, Zenon DEF RemoveDestroy, Destroy, Wrote
  <2> QED
    BY <2>1, WroteFact, NoObjFact, LoadedSame, Consts, Zenon DEF IInv
<1>4. ASSUME NEW u \in Slots PROVE Holds(u)' = nvm'[u]
  <2>1. Loaded'.reserved # u /\ (u # s => Loaded'.reserved # N + u)
    BY <1>2, <1>3, Consts DEF Slots
  <2> QED
    BY <1>3, <2>1, Zenon DEF Holds
<1>5. Effect(s)
  BY <1>2, <1>3, <1>4, NoObjFact, Consts DEF Effect, SameSlot, Outside
<1>6. CASE op' = Idle /\ reply' = Told("ok", "none")
  BY <1>5, <1>6, Finished, Zenon
<1>7. CASE \E t : GoWith("rm_table", t)
  <2>1. SameRequest /\ reply' = reply
    BY <1>0, <1>7, Goes, Zenon
  <2> QED
    BY <1>5, <2>1, Committed, Zenon
<1> QED
  BY <1>6, <1>7, Zenon DEF RemoveDestroy, Answer

\* The failed destroy of a sealed object: the marker is to go again.
LEMMA RemoveFailedRefines == ASSUME IInv, IInv', RemoveFailed PROVE AbsStep
<1>0. op.pc = "rm_destroy" /\ op.pc # "idle" /\ Undecided /\ op # Idle /\ nvm' = nvm /\ tbl' = tbl
  BY IdleFact, Zenon DEF RemoveFailed, Undecided, FlashSame
<1>1. CASE Refuse
  BY <1>0, <1>1, Cut, Zenon DEF Refuse, Answer
<1>2. CASE \E t : GoWith("rm_cancel", t)
  <2>1. SameRequest /\ reply' = reply /\ op'.pc = "rm_cancel"
    BY <1>0, <1>2, Goes, Zenon
  <2>2. \A s \in Slots : SameSlot(s)
    BY <1>0, <2>1, FlashQuiet, Zenon DEF Undecided
  <2> QED
    BY <2>1, <2>2, Unseen, Zenon
<1> QED
  BY <1>1, <1>2, Zenon DEF RemoveFailed

\* The table that ends a removal, or takes the marker of a failed one back.
LEMMA RemoveTableRefines == ASSUME IInv, IInv', RemoveTable PROVE AbsStep
<1>0. /\ op.pc \in {"rm_table", "rm_cancel"} /\ op # Idle /\ op.kind = "remove"
      /\ op.id \in Slots /\ op.tb \in Tables /\ Loaded \in Tables
  BY IdleFact, LoadedFact, Zenon DEF RemoveTable, IInv, Dropping, RmPcs, Serving
<1>1. CASE FlashSame /\ Refuse
  BY <1>0, <1>1, Cut, Zenon DEF FlashSame, Refuse, Answer
<1>2. CASE StoreTable(op.tb) /\ Answer(IF op.pc = "rm_table" THEN "ok" ELSE "fail", "none")
  <2>1. nvm' = nvm /\ Loaded' = op.tb /\ op' = Idle
    BY <1>0, <1>2, StoredFact, Zenon DEF StoreTable, Answer
  <2>2. CASE op.pc = "rm_table"
    <3>1. /\ Loaded.reserved = N + op.id /\ op.tb = Settle(Loaded, op.id) /\ nvm[op.id] = NoObj
          /\ \A u \in Slots : nvm[u].label # op.label
      BY <2>2, Zenon DEF IInv, Dropping
    <3>2. op.tb.reserved = 0
      <4>1. Settle(Loaded, op.id).reserved = 0
        BY <1>0, SettledFree, Zenon
      <4> QED
        BY <3>1, <4>1, Zenon
    <3>3. \A s \in Slots : Holds(s)' = nvm[s]
      BY <2>1, <3>2, HoldsPlainNext, Zenon
    <3>4. ASSUME NEW s \in Slots PROVE Holds(s) = nvm[s]
      <4>1. Loaded.reserved # s /\ (Loaded.reserved = N + s => s = op.id)
        BY <1>0, <3>1, Consts DEF Slots
      <4> QED
        BY <3>1, <4>1, Zenon DEF Holds
    <3>5. \A s \in Slots : SameSlot(s) /\ Holds(s).label # op.label
      BY <3>1, <3>3, <3>4, Zenon DEF SameSlot
    <3>6. reply' = Told("ok", "none")
      BY <1>2, <2>2, Zenon DEF Answer
    <3> QED
      BY <1>0, <2>1, <3>5, <3>6, Confirmed, Zenon
  <2>3. CASE op.pc = "rm_cancel"
    <3>1. op.tb = [Loaded EXCEPT !.reserved = 0] /\ Undecided
      BY <2>3, Zenon DEF IInv, Dropping, Undecided
    <3>2. op.tb.reserved = 0
      BY <1>0, <3>1, TableEdits, Zenon
    <3>3. \A s \in Slots : Holds(s)' = nvm[s]
      BY <2>1, <3>2, HoldsPlainNext, Zenon
    <3>4. \A s \in Slots : SameSlot(s)
      BY <3>1, <3>3, UndecidedFact, Zenon DEF SameSlot
    <3>5. reply' = Told("fail", "none")
      BY <1>2, <2>3, Zenon DEF Answer
    <3> QED
      BY <1>0, <2>1, <3>4, <3>5, Refused, Zenon
  <2> QED
    BY <1>0, <2>2, <2>3, Zenon
<1> QED
  BY <1>1, <1>2, Zenon DEF RemoveTable

\* The key writer touches no storage object, and recovery lets its keys stay.
LEMMA KeySlot ==
  ASSUME IInv, NEW s \in Slots, Visible(s) PROVE Outside(nvm[s]) /\ Outside(Holds(s))
<1>1. nvm[s].label \notin Labels
  BY SlotFact, NoObjFact, Consts, Zenon DEF Visible, Whole
<1>2. Holds(s).label \in {nvm[s].label, "none"}
  BY HoldsFact, Zenon
<1> QED
  BY <1>1, <1>2, Consts, Zenon DEF Outside

LEMMA KeyWrite ==
  ASSUME IInv, IInv', NEW s \in Slots, Visible(s), NEW o \in Objects, Wrote(s, o),
         o.label \notin Labels, tbl' = tbl, op' = op, op = Idle, reply' = reply
  PROVE  AbsStep
<1>1. /\ nvm'[s] = o /\ nvm'[Stage] = nvm[Stage] /\ Loaded' = Loaded /\ Loaded \in Tables
      /\ \A u \in Slots : u # s => nvm'[u] = nvm[u]
  BY WroteFact, LoadedSame, LoadedFact, Consts, Zenon DEF IInv
<1>2. Outside(nvm[s]) /\ Outside(Holds(s))
  BY KeySlot, Zenon
<1>3. ASSUME NEW u \in Slots, u # s PROVE Holds(u)' = Holds(u)
  BY <1>1, <1>3, Zenon DEF Holds, Undecided
<1>4. Outside(Holds(s)')
  <2>1. ~(Loaded.reserved = s /\ Authentic(nvm[Stage], Loaded.slot[s]))
    BY <1>2, Zenon DEF IInv, FlashOK, Replacing, Outside
  <2>2. Holds(s)' = nvm'[s] \/ Holds(s)' = NoObj
    BY <1>1, <2>1, Zenon DEF Holds
  <2> QED
    BY <1>1, <2>2, NoObjFact, Consts, Zenon DEF Outside
<1> QED
  BY <1>2, <1>3, <1>4, Unseen, Zenon DEF SameSlot

LEMMA KeyRefines ==
  ASSUME IInv, IInv', KeyAdd \/ KeyDestroy \/ \E k \in KeyLabels : KeyLookup(k) \/ KeyFind(k)
  PROVE  AbsStep
<1>1. CASE FlashSame /\ op' = op /\ reply' = reply
  <2>1. \A s \in Slots : SameSlot(s)
    BY <1>1, FlashQuiet, Zenon DEF FlashSame, Undecided
  <2> QED
    BY <1>1, <2>1, Unseen, Zenon
<1>2. CASE KeyAdd
  <2>1. /\ kv.id \in Slots /\ kv.label \in KeyLabels /\ op = Idle /\ op' = op /\ reply' = reply
        /\ tbl' = tbl
    BY <1>2, Zenon DEF KeyAdd, IInv, KeyWriter
  <2>2. CASE Visible(kv.id) /\ Wrote(kv.id, Key(kv.label))
    BY <2>1, <2>2, KeyFact, KeyWrite, Consts, Zenon
  <2>3. CASE nvm' = nvm
    <3>1. \A s \in Slots : SameSlot(s)
      BY <2>1, <2>3, FlashQuiet, Zenon DEF Undecided
    <3> QED
      BY <2>1, <3>1, Unseen, Zenon
  <2> QED
    BY <1>2, <2>2, <2>3, Zenon DEF KeyAdd, Wrote, Key
<1>3. CASE KeyDestroy
  <2>1. kv.id \in Slots /\ op = Idle /\ op' = op /\ reply' = reply
    BY <1>3, Zenon DEF KeyDestroy, IInv, KeyWriter
  <2>2. CASE Visible(kv.id) /\ Wrote(kv.id, NoObj) /\ tbl' = tbl
    BY <2>1, <2>2, NoObjFact, KeyWrite, Consts, Zenon
  <2> QED
    BY <1>1, <1>3, <2>1, <2>2, Zenon DEF KeyDestroy, Destroy, Wrote
<1> QED
  BY <1>1, <1>2, <1>3, Zenon DEF KeyLookup, KeyFind

LEMMA NextRefines == IInv /\ IInv' /\ [Next]_vars => AbsStep
<1> SUFFICES ASSUME IInv, IInv', [Next]_vars PROVE AbsStep
  BY Zenon
<1>1. CASE UNCHANGED vars
  <2>1. nvm' = nvm /\ tbl' = tbl /\ op' = op /\ reply' = reply
    BY <1>1, Zenon DEF vars
  <2>2. \A s \in Slots : SameSlot(s)
    BY <2>1, FlashQuiet, Zenon DEF Undecided
  <2> QED
    BY <2>1, <2>2, Unseen, Zenon
<1> QED
  BY <1>1, BeginRefines, RecoverRefines, RecTableRefines, DestroyStageRefines, GetRefines,
     SetMainRefines, SetTableRefines, SetStageRefines, SetAddRefines, SetCommitRefines,
     RemoveMainRefines, RemoveDestroyRefines, RemoveFailedRefines, RemoveTableRefines,
     CutRefines, KeyRefines, Zenon DEF Next

LEMMA InitRefines == Init => Abs!Init
<1> SUFFICES ASSUME Init PROVE Abs!Init
  BY Zenon
<1>1. IInv /\ View
  BY InitInv, ViewFact, Zenon
<1>2. Loaded.reserved = 0
  BY Zenon DEF Init, Loaded, NoTable
<1>3. \A s \in Slots : Holds(s).label = "none"
  BY <1>2, HoldsPlain, NoObjFact, Consts, Zenon DEF Init
<1>4. \A l \in Labels : Settled(l) = Missing
  BY <1>1, <1>3, Consts, Zenon DEF View
<1>5. Asked = Abs!NoReq
  BY <1>1, AskedFact, Zenon DEF Init
<1> QED
  BY <1>4, <1>5, Zenon DEF Init, Abs!Init, Missing, Abs!Absent, Told, Abs!Told

\* The vault of wt_hsm_vault.c, with power loss, faults and failing flash writes
\* between any two of its writes and the key writer at work beside it, implements
\* the map of VaultStore: a request takes effect entirely, in one step and never
\* on a write-once object, or not at all, and a get returns what the map holds.
THEOREM VaultRefinesStore == Spec => AbsSpec
<1>1. Init => Abs!Init
  BY InitRefines, Zenon
<1>2. IInv /\ IInv' /\ [Next]_vars => [Abs!Next]_(Abs!avars)
  BY NextRefines, Zenon DEF AbsStep
<1> QED
  BY <1>1, <1>2, VaultInvariance, PTL DEF Spec, AbsSpec, Abs!Spec

=============================================================================
