---------------------------- MODULE VaultProofs ----------------------------
(***************************************************************************)
(* What holds of the vault for every number of slots, names and values:    *)
(* the inductive invariant behind its directory, its staged copies and its *)
(* counters, whatever request, recovery or key write is cut off where.     *)
(***************************************************************************)
EXTENDS Vault, TLAPS

Names == Labels \cup KeyLabels
Objects == [label : Names \cup {"none"}, key : BOOLEAN, seal : BOOLEAN, once : BOOLEAN,
            val : Values \cup {"none", "key"}, ctr : Nat, ro : BOOLEAN]
Tables == [reserved : 0..(N + N), global : Nat, slot : [Slots -> Nat]]

RecPcs == {"rec_destroy", "rec_restore", "rec_live", "rec_table", "rec_deleted", "rec_stage"}
SetPcs == {"set_table", "set_stage", "set_add", "set_commit", "end_stage"}
RmPcs == {"rm_destroy", "rm_table", "rm_cancel"}
Ops == [pc : {"idle", "main"} \cup RecPcs \cup SetPcs \cup RmPcs,
        kind : {"none", "set", "get", "remove"}, label : Labels \cup {"none"},
        seal : BOOLEAN, once : BOOLEAN, val : Values \cup {"none"},
        tb : Tables \cup {NoTable}, id : 0..N, repl : BOOLEAN]

TypeOK ==
  /\ nvm \in [Ids -> Objects]
  /\ tbl \in Tables \cup {NoTable}
  /\ op \in Ops
  /\ kv \in [pc : {"idle", "add", "destroy"}, label : KeyLabels \cup {"none"}, id : 0..N]
  /\ seals \in [1..CtrMax -> Nat]

-----------------------------------------------------------------------------
(* What the flash holds, whoever is cut off where.                         *)

\* A free slot, a key, or a storage object; only a write-once object refuses
\* to be overwritten.
Whole(o) ==
  /\ o.label = "none" => o = NoObj
  /\ o.label \in KeyLabels => o.key /\ ~o.seal /\ ~o.once /\ ~o.ro
  /\ o.label \in Labels => ~o.key /\ o.val \in Values /\ o.ro = o.once

\* lookup_in: a name is in one slot.
Unique == \A s, u \in Slots : nvm[s].label = nvm[u].label /\ nvm[s].label # "none" => s = u

\* The table has the counter of every sealed object, but one being replaced.
Counted ==
  \A s \in Slots : nvm[s].seal /\ s # Loaded.reserved => Authentic(nvm[s], Loaded.slot[s])

\* A replacement under way: the prior object is staged, or not yet disturbed.
Replacing ==
  Loaded.reserved \in Slots =>
    LET r == Loaded.reserved
        p == IF Authentic(nvm[Stage], Loaded.slot[r]) THEN nvm[Stage] ELSE nvm[r]
    IN /\ Authentic(p, Loaded.slot[r]) /\ ~p.once
       /\ p.label = nvm[r].label /\ p.label \in Labels
       /\ p = nvm[Stage] \/ nvm[Stage] = NoObj

\* A removal under way: the sealed object is there, or gone, or a key has its slot.
Removing ==
  Loaded.reserved > N =>
    /\ nvm[Stage] = NoObj
    /\ LET o == nvm[Loaded.reserved - N] IN ~o.once /\ (o.label \in Labels => o.seal)

\* A counter that was used is persisted, and never used again.
Spent == \A c \in 1..CtrMax : seals[c] <= 1 /\ (seals[c] # 0 => c <= Loaded.global)

\* Between the key writer's look-up and its write only storage objects move.
KeyWriter ==
  /\ kv.pc = "idle" => kv = KvIdle
  /\ kv.pc # "idle" => kv.label \in KeyLabels /\ kv.id \in Slots
  /\ kv.pc = "add" => ~nvm[kv.id].key /\ \A s \in Slots : nvm[s].label # kv.label
  /\ kv.pc = "destroy" => nvm[kv.id].label = kv.label

-----------------------------------------------------------------------------
(* What the request being served has done so far.                          *)

Settle(t, s) == [t EXCEPT !.slot[s] = 0, !.reserved = 0]

Recovering ==
  LET t == Loaded
      r == Loaded.reserved
  IN /\ op.pc \in {"rec_destroy", "rec_restore", "rec_live", "rec_stage", "main"} => op.tb = t
     /\ op.pc = "rec_destroy" => r > N
     /\ op.pc = "rec_restore" => r \in Slots /\ Authentic(nvm[Stage], t.slot[r])
     /\ op.pc = "rec_live" => r \in Slots /\ ~Authentic(nvm[Stage], t.slot[r])
     /\ op.pc = "rec_table" =>
          /\ r \in Slots /\ op.tb = [t EXCEPT !.reserved = 0]
          /\ Authentic(nvm[r], t.slot[r])
          /\ Authentic(nvm[Stage], t.slot[r]) => nvm[r] = nvm[Stage]
     /\ op.pc = "rec_deleted" =>
          r > N /\ op.tb = Settle(t, r - N) /\ nvm[r - N].label \notin Labels
     /\ op.pc \in {"rec_stage", "main"} => r = 0
     /\ op.pc = "main" => nvm[Stage] = NoObj

\* The slot a set works on: free and nobody's, or one with the old object.
Target ==
  IF op.repl THEN nvm[op.id].label = op.label
  ELSE /\ ~nvm[op.id].seal /\ ~nvm[op.id].once
       /\ \/ nvm[op.id].label = op.label
          \/ nvm[op.id].label = "none" /\ \A s \in Slots : nvm[s].label # op.label

\* A counter about to be sealed under.
Unspent ==
  op.seal => op.tb.global # 0 /\ \A c \in 1..CtrMax : c = op.tb.global => seals[c] = 0

Setting ==
  LET t == Loaded
      s == op.id
  IN /\ op.pc \in SetPcs => op.kind = "set" /\ s \in Slots
     /\ op.pc \in {"set_table", "set_stage", "set_add"} => Target
     /\ op.pc = "set_table" =>
          /\ op.tb.global = t.global + (IF op.seal THEN 1 ELSE 0)
          /\ t.reserved = 0 /\ nvm[Stage] = NoObj
          /\ IF op.repl
             THEN /\ op.tb.reserved = s /\ op.tb.slot = t.slot
                  /\ Authentic(nvm[s], t.slot[s]) /\ ~nvm[s].once
             ELSE /\ op.tb.reserved = 0
                  /\ op.tb.slot = [t.slot EXCEPT ![s] = IF op.seal THEN op.tb.global ELSE 0]
     /\ op.pc \in {"set_stage", "set_add"} => op.tb = t /\ Unspent
     /\ op.pc = "set_stage" => op.repl /\ t.reserved = s /\ nvm[Stage] = NoObj
     /\ op.pc = "set_add" =>
          IF op.repl THEN t.reserved = s /\ Authentic(nvm[Stage], t.slot[s])
          ELSE t.reserved = 0 /\ t.slot[s] = IF op.seal THEN t.global ELSE 0
     /\ op.pc = "set_commit" =>
          /\ op.repl /\ t.reserved = s /\ Authentic(nvm[Stage], t.slot[s])
          /\ op.tb = [t EXCEPT !.slot[s] = nvm[s].ctr, !.reserved = 0]
          /\ nvm[s].seal => nvm[s].ctr # 0
     /\ op.pc = "end_stage" => t.reserved = 0
     /\ op.pc \in {"set_commit", "end_stage"} =>
          nvm[s].label = op.label /\ nvm[s].val = op.val /\ nvm[s].once = op.once

Dropping ==
  LET t == Loaded
      s == op.id
  IN /\ op.pc \in RmPcs => op.kind = "remove" /\ s \in Slots
     /\ op.pc \in {"rm_destroy", "rm_cancel"} => nvm[s].label = op.label /\ ~nvm[s].once
     /\ op.pc = "rm_destroy" =>
          op.tb = t /\ nvm[Stage] = NoObj /\ t.reserved = IF nvm[s].seal THEN N + s ELSE 0
     /\ op.pc = "rm_cancel" =>
          t.reserved = N + s /\ op.tb = [t EXCEPT !.reserved = 0] /\ nvm[s].seal
     /\ op.pc = "rm_table" =>
          /\ t.reserved = N + s /\ op.tb = Settle(t, s) /\ nvm[s] = NoObj
          /\ \A u \in Slots : nvm[u].label # op.label

Serving ==
  /\ op.pc = "idle" <=> op = Idle
  /\ op.pc # "idle" => op.kind # "none" /\ op.label \in Labels /\ op.tb \in Tables
  /\ op.kind = "set" => op.val \in Values

FlashOK == (\A i \in Ids : Whole(nvm[i])) /\ Unique /\ Counted /\ Replacing /\ Removing
IInv == TypeOK /\ FlashOK /\ Spent /\ KeyWriter /\ Serving /\ Recovering /\ Setting /\ Dropping

-----------------------------------------------------------------------------
(* Facts about the table and about writes.                                 *)

LEMMA Consts ==
  /\ N \in Nat \ {0} /\ Stage \in Ids /\ Stage \notin Slots /\ Slots \subseteq Ids
  /\ "none" \notin Labels /\ "none" \notin KeyLabels /\ Labels \cap KeyLabels = {}
BY VaultAssumption DEF Stage, Ids, Slots

LEMMA TableFact ==
  /\ NoTable \notin Tables
  /\ [NoTable EXCEPT !.reserved = 0, !.global = 0] \in Tables
<1> DEFINE z == [s \in Slots |-> 0]
<1>1. NoTable = [reserved |-> -1, global |-> -1, slot |-> z]
  BY Zenon DEF NoTable
<1>2. z \in [Slots -> Nat] /\ 0 \in 0..(N + N) /\ -1 \notin 0..(N + N)
  BY VaultAssumption
<1> HIDE DEF z
<1>3. NoTable \notin Tables
  BY <1>1, <1>2, Zenon DEF Tables
<1>4. NoTable \in [reserved : Int, global : Int, slot : [Slots -> Nat]]
  BY <1>1, <1>2
<1>5. [NoTable EXCEPT !.reserved = 0, !.global = 0] \in Tables
  BY <1>2, <1>4, Zenon DEF Tables
<1> QED
  BY <1>3, <1>5, Zenon

\* wt_hsm_vault_table_load always yields a table.
LEMMA LoadedFact == TypeOK => Loaded \in Tables
BY TableFact, Zenon DEF TypeOK, Loaded

\* Storing a table is seen by the next load.
LEMMA StoredFact == ASSUME NEW t \in Tables, tbl' = t PROVE Loaded' = t
BY TableFact, Zenon DEF Loaded

LEMMA LoadedSame == tbl' = tbl => Loaded' = Loaded
BY Zenon DEF Loaded, NoTable

LEMMA NoObjFact ==
  /\ NoObj \in Objects /\ Whole(NoObj) /\ NoObj.label = "none" /\ ~NoObj.key
  /\ ~NoObj.seal /\ ~NoObj.once /\ ~NoObj.ro
<1>1. /\ NoObj.label = "none" /\ NoObj.key = FALSE /\ NoObj.seal = FALSE
      /\ NoObj.once = FALSE /\ NoObj.ro = FALSE
  BY Zenon DEF NoObj, Object
<1>2. NoObj \in Objects
  BY Zenon DEF NoObj, Object, Objects
<1>3. Whole(NoObj)
  BY <1>1, VaultAssumption, Zenon DEF Whole
<1> QED
  BY <1>1, <1>2, <1>3, Zenon

\* A slot written, and the others left.
Wrote(i, o) == nvm' = [nvm EXCEPT ![i] = o]

LEMMA WroteFact ==
  ASSUME TypeOK, NEW i \in Ids, NEW o \in Objects, Wrote(i, o)
  PROVE  /\ nvm' \in [Ids -> Objects] /\ nvm'[i] = o
         /\ \A j \in Ids : j # i => nvm'[j] = nvm[j]
BY Zenon DEF Wrote, TypeOK

\* The states of a request that has not touched the flash.
LEMMA IdleFact ==
  /\ Idle \in Ops /\ Idle.pc = "idle" /\ Idle.kind = "none" /\ KvIdle.pc = "idle"
  /\ KvIdle \in [pc : {"idle", "add", "destroy"}, label : KeyLabels \cup {"none"}, id : 0..N]
BY VaultAssumption DEF Idle, KvIdle, Ops

\* The invariant holds of a fresh vault (wt_hsm_vault_init).
LEMMA InitInv == Init => IInv
<1> SUFFICES ASSUME Init PROVE IInv
  BY Zenon
<1>1. TypeOK
  BY IdleFact, NoObjFact, Zenon DEF Init, TypeOK
<1>2. Loaded = [NoTable EXCEPT !.reserved = 0, !.global = 0]
  BY Zenon DEF Init, Loaded
<1>3. Loaded.reserved = 0 /\ Loaded.global = 0
  BY <1>2, Zenon DEF NoTable
<1>4. \A i \in Ids : nvm[i] = NoObj
  BY Zenon DEF Init
<1>5. FlashOK
  BY <1>3, <1>4, NoObjFact, Consts DEF FlashOK, Unique, Counted, Replacing, Removing, Slots
<1>6. Spent
  BY <1>3 DEF Spent, Init
<1>7. KeyWriter /\ Serving /\ Recovering /\ Setting /\ Dropping
  BY IdleFact, Zenon DEF Init, KeyWriter, Serving, Recovering, Setting, Dropping, SetPcs, RmPcs
<1> QED
  BY <1>1, <1>5, <1>6, <1>7, Zenon DEF IInv

-----------------------------------------------------------------------------
(* A request that stops, and one that goes on without touching the flash.  *)

LEMMA FlashKept ==
  ASSUME FlashOK, nvm' = nvm, tbl' = tbl PROVE FlashOK'
BY LoadedSame, Zenon DEF FlashOK, Unique, Counted, Replacing, Removing

\* Stopping is always sound: nothing the flash holds depends on the request.
LEMMA Stops ==
  ASSUME TypeOK', FlashOK', Spent', KeyWriter', op' = Idle PROVE IInv'
<1>1. op'.pc = "idle" /\ op'.kind = "none"
  BY IdleFact, Zenon
<1>2. Serving' /\ Recovering' /\ Setting' /\ Dropping'
  BY <1>1, Zenon DEF Serving, Recovering, Setting, Dropping, SetPcs, RmPcs
<1> QED
  BY <1>2, Zenon DEF IInv

LEMMA CutOff ==
  ASSUME IInv, FlashSame, op' = Idle, seals' = seals, kv' \in {kv, KvIdle} PROVE IInv'
<1>1. TypeOK'
  BY IdleFact, Zenon DEF IInv, TypeOK, FlashSame
<1>2. FlashOK'
  BY FlashKept, Zenon DEF IInv, FlashSame
<1>3. Spent'
  BY LoadedSame, Zenon DEF IInv, Spent, FlashSame
<1>4. KeyWriter'
  BY IdleFact, Zenon DEF IInv, KeyWriter, FlashSame
<1> QED
  BY <1>1, <1>2, <1>3, <1>4, Stops, Zenon

\* The request moves on with the flash as it was.
LEMMA Continues ==
  ASSUME IInv, FlashSame, UNCHANGED <<kv, seals>>, op' \in Ops,
         Serving', Recovering', Setting', Dropping'
  PROVE  IInv'
<1>1. TypeOK'
  BY Zenon DEF IInv, TypeOK, FlashSame
<1>2. FlashOK'
  BY FlashKept, Zenon DEF IInv, FlashSame
<1>3. Spent'
  BY LoadedSame, Zenon DEF IInv, Spent, FlashSame
<1>4. KeyWriter'
  BY Zenon DEF IInv, KeyWriter, FlashSame
<1> QED
  BY <1>1, <1>2, <1>3, <1>4, Zenon DEF IInv

\* wt_hsm_vault_set, _get, _remove: a request starts where recovery must.
LEMMA BeginStep ==
  ASSUME IInv, NEW k \in {"set", "get", "remove"}, NEW l \in Labels, NEW sl \in BOOLEAN,
         NEW on \in BOOLEAN, NEW v \in Values \cup {"none"}, k = "set" => v \in Values,
         Begin(k, l, sl, on, v)
  PROVE  IInv'
<1>1. Loaded \in Tables
  BY LoadedFact, Zenon DEF IInv
<1>2. Loaded.reserved \in 0..(N + N)
  BY <1>1, Zenon DEF Tables
<1>3. RecoverEntry(Loaded) \in {"main", "rec_stage", "rec_destroy", "rec_restore", "rec_live"}
  BY Zenon DEF RecoverEntry
<1>4. /\ op' \in Ops /\ op'.pc = RecoverEntry(Loaded) /\ op'.kind = k /\ op'.label = l
      /\ op'.tb = Loaded /\ op'.val = v
  <2>1. op' = [pc |-> RecoverEntry(Loaded), kind |-> k, label |-> l, seal |-> sl, once |-> on,
               val |-> v, tb |-> Loaded, id |-> 0, repl |-> FALSE]
    BY Zenon DEF Begin, Idle
  <2> QED
    BY <1>1, <1>3, <2>1, Consts DEF Ops, RecPcs
<1>5. FlashSame /\ UNCHANGED <<kv, seals>>
  BY Zenon DEF Begin
<1>6. Loaded' = Loaded /\ nvm' = nvm
  BY <1>5, LoadedSame, Zenon DEF FlashSame
<1>7. Serving'
  BY <1>1, <1>3, <1>4, IdleFact, Zenon DEF Serving
<1>8. Recovering'
  BY <1>2, <1>4, <1>6, Consts DEF Recovering, RecoverEntry, DELETE_MARKER_BASE, Slots
<1>9. Setting' /\ Dropping'
  BY <1>3, <1>4, Zenon DEF Setting, Dropping, SetPcs, RmPcs
<1> QED
  BY <1>4, <1>5, <1>7, <1>8, <1>9, Continues, Zenon

LEMMA RequestStep == ASSUME IInv, Set \/ Get \/ Remove PROVE IInv'
<1>1. CASE Set
  <2> PICK l \in Labels, s \in BOOLEAN, o \in BOOLEAN, v \in Values : Begin("set", l, s, o, v)
    BY <1>1, Zenon DEF Set
  <2> QED
    BY BeginStep, Zenon
<1>2. CASE Get
  <2> PICK l \in Labels : Begin("get", l, FALSE, FALSE, "none")
    BY <1>2, Zenon DEF Get
  <2> QED
    BY BeginStep, Zenon
<1>3. CASE Remove
  <2> PICK l \in Labels : Begin("remove", l, FALSE, FALSE, "none")
    BY <1>3, Zenon DEF Remove
  <2> QED
    BY BeginStep, Zenon
<1> QED
  BY <1>1, <1>2, <1>3, Zenon

\* Any failing wolfHSM call, and power loss, at any point.
LEMMA CutStep == ASSUME IInv, IoError \/ PowerLoss PROVE IInv'
BY CutOff, Zenon DEF IoError, PowerLoss, Refuse, Answer

\* wt_hsm_vault_get
LEMMA GetStep == ASSUME IInv, GetMain PROVE IInv'
BY CutOff, Zenon DEF GetMain, Refuse, Answer

-----------------------------------------------------------------------------
(* Recovery.                                                               *)

Pcs == {"idle", "main"} \cup RecPcs \cup SetPcs \cup RmPcs

LEMMA GoFact ==
  ASSUME op \in Ops, NEW x \in Pcs, NEW t \in Tables \cup {NoTable},
         op' = [op EXCEPT !.pc = x, !.tb = t] \/ (op' = [op EXCEPT !.pc = x] /\ t = op.tb)
  PROVE  /\ op' \in Ops /\ op'.pc = x /\ op'.tb = t /\ op'.kind = op.kind
         /\ op'.label = op.label /\ op'.seal = op.seal /\ op'.once = op.once
         /\ op'.val = op.val /\ op'.id = op.id /\ op'.repl = op.repl
BY Zenon DEF Ops, Pcs

LEMMA SlotFact == ASSUME IInv, NEW i \in Ids PROVE nvm[i] \in Objects /\ Whole(nvm[i])
BY Zenon DEF IInv, FlashOK, TypeOK

LEMMA TableEdits ==
  ASSUME NEW t \in Tables, NEW s \in Slots
  PROVE  /\ [t EXCEPT !.reserved = 0] \in Tables /\ Settle(t, s) \in Tables
         /\ Settle(t, s).reserved = 0 /\ Settle(t, s).global = t.global
         /\ Settle(t, s).slot = [t.slot EXCEPT ![s] = 0]
         /\ [t EXCEPT !.reserved = 0].reserved = 0 /\ [t EXCEPT !.reserved = 0].global = t.global
         /\ [t EXCEPT !.reserved = 0].slot = t.slot
<1>1. 0 \in 0..(N + N) /\ t.slot \in [Slots -> Nat] /\ [t.slot EXCEPT ![s] = 0] \in [Slots -> Nat]
  BY Consts DEF Tables
<1>2. /\ [t EXCEPT !.reserved = 0] \in Tables /\ [t EXCEPT !.reserved = 0].reserved = 0
      /\ [t EXCEPT !.reserved = 0].global = t.global /\ [t EXCEPT !.reserved = 0].slot = t.slot
  BY <1>1, Zenon DEF Tables
<1>3. Settle(t, s) = [t EXCEPT !.slot = [t.slot EXCEPT ![s] = 0], !.reserved = 0]
  BY Zenon DEF Settle, Tables
<1>4. Settle(t, s) \in Tables
  BY <1>1, <1>3, Zenon DEF Tables
<1>5. /\ Settle(t, s).reserved = 0 /\ Settle(t, s).global = t.global
      /\ Settle(t, s).slot = [t.slot EXCEPT ![s] = 0]
  BY <1>3, Zenon DEF Tables
<1> QED
  BY <1>2, <1>4, <1>5, Zenon

LEMMA SettledFree == ASSUME NEW t \in Tables, NEW s \in Slots PROVE Settle(t, s).reserved = 0
BY TableEdits, Zenon

\* wh_Nvm_DestroyObjects of a slot no replacement is pending on, or of a
\* staged copy none needs.
LEMMA Destroyed ==
  ASSUME IInv, NEW i \in Ids, Wrote(i, NoObj), tbl' = tbl, i # Loaded.reserved,
         i = Stage => Loaded.reserved \notin Slots
  PROVE  FlashOK'
<1>1. nvm'[i] = NoObj /\ \A j \in Ids : j # i => nvm'[j] = nvm[j]
  BY WroteFact, NoObjFact, Zenon DEF IInv
<1>2. Loaded' = Loaded /\ Loaded \in Tables
  BY LoadedSame, LoadedFact, Zenon DEF IInv
<1>3. \A j \in Ids : Whole(nvm'[j])
  BY <1>1, NoObjFact, Zenon DEF IInv, FlashOK
<1>4. Unique'
  BY <1>1, NoObjFact, Consts DEF IInv, FlashOK, Unique
<1>5. Counted'
  BY <1>1, <1>2, NoObjFact, Consts, Zenon DEF IInv, FlashOK, Counted
<1>6. Replacing'
  BY <1>1, <1>2, Consts, Zenon DEF IInv, FlashOK, Replacing
<1>7. Removing'
  <2> SUFFICES ASSUME Loaded.reserved > N PROVE Removing'
    BY <1>2, Zenon DEF Removing
  <2>1. Loaded.reserved - N \in Slots
    BY <1>2, Consts DEF Tables, Slots
  <2> QED
    BY <1>1, <1>2, <2>1, NoObjFact, Consts, Zenon DEF IInv, FlashOK, Removing
<1> QED
  BY <1>3, <1>4, <1>5, <1>6, <1>7, Zenon DEF FlashOK

\* Writes of the vault leave the key writer's two calls what they found.
LEMMA KeyWriterKept ==
  ASSUME IInv, NEW i \in Ids, NEW o \in Objects, Wrote(i, o), nvm[i].label \notin KeyLabels,
         o.label \notin KeyLabels, ~o.key, kv' = kv
  PROVE  KeyWriter'
<1>1. nvm'[i] = o /\ \A j \in Ids : j # i => nvm'[j] = nvm[j]
  BY WroteFact, Zenon DEF IInv
<1> QED
  BY <1>1, Consts, Zenon DEF IInv, KeyWriter

\* The counters used stay persisted while the table only grows.
LEMMA SpentKept ==
  ASSUME IInv, seals' = seals, Loaded'.global \in Nat, Loaded'.global >= Loaded.global
  PROVE  Spent'
<1>1. Loaded.global \in Nat
  BY LoadedFact, Zenon DEF IInv, Tables
<1> QED
  BY <1>1 DEF IInv, Spent

LEMMA RecDestroyStep == ASSUME IInv, RecDestroy PROVE IInv'
<1> DEFINE t == Loaded
           s == t.reserved - N
<1>1. op.pc = "rec_destroy" /\ op.tb = t /\ t.reserved > N /\ t \in Tables
  BY LoadedFact, Zenon DEF RecDestroy, IInv, Recovering
<1>2. s \in Slots /\ s \in Ids /\ s # t.reserved /\ s # Stage
  BY <1>1, Consts DEF Tables, Slots
<1>3. UNCHANGED <<kv, seals>> /\ op \in Ops
  BY Zenon DEF RecDestroy, IInv, TypeOK
<1>4. op.tb.reserved - DELETE_MARKER_BASE = s
  BY <1>1, Zenon DEF DELETE_MARKER_BASE
<1>5. \/ FlashSame /\ Refuse
      \/ /\ FlashSame /\ (nvm[s] = NoObj \/ ReusedByKey(nvm[s]))
         /\ GoWith("rec_deleted", Settle(t, s))
      \/ /\ Destroy(s) /\ ~ReusedByKey(nvm[s]) /\ GoWith("rec_deleted", Settle(t, s))
  BY <1>1, <1>4, Zenon DEF RecDestroy, Settle
<1> HIDE DEF t, s
<1>6. ASSUME GoWith("rec_deleted", Settle(t, s)), Loaded' = t, nvm'[s].label \notin Labels
      PROVE  op' \in Ops /\ Serving' /\ Recovering' /\ Setting' /\ Dropping'
  <2>1. /\ op' \in Ops /\ op'.pc = "rec_deleted" /\ op'.tb = Settle(t, s)
        /\ op'.kind = op.kind /\ op'.label = op.label /\ op'.val = op.val
    <3>1. Settle(t, s) \in Tables \cup {NoTable}
      BY <1>1, <1>2, TableEdits, Zenon
    <3>2. op' = [op EXCEPT !.pc = "rec_deleted", !.tb = Settle(t, s)]
      BY <1>6, Zenon DEF GoWith
    <3> QED
      BY <1>3, <3>1, <3>2, GoFact, Zenon DEF Pcs, RecPcs
  <2>2. Serving'
    BY <1>1, <1>2, <2>1, TableEdits, IdleFact, Zenon DEF Serving, IInv
  <2>3. Recovering'
    BY <1>1, <1>6, <2>1, Zenon DEF Recovering, s
  <2>4. Setting' /\ Dropping'
    BY <2>1, Zenon DEF Setting, Dropping, SetPcs, RmPcs
  <2> QED
    BY <2>1, <2>2, <2>3, <2>4, Zenon
<1>7. CASE FlashSame /\ Refuse
  BY <1>3, <1>7, CutOff, Zenon DEF Refuse, Answer
<1>8. CASE /\ FlashSame /\ (nvm[s] = NoObj \/ ReusedByKey(nvm[s]))
           /\ GoWith("rec_deleted", Settle(t, s))
  <2>1. Loaded' = t /\ nvm' = nvm
    BY <1>8, LoadedSame, Zenon DEF FlashSame, t
  <2>2. nvm[s].label \notin Labels
    BY <1>2, <1>8, SlotFact, NoObjFact, Consts, Zenon DEF Whole, ReusedByKey
  <2> QED
    BY <1>3, <1>6, <1>8, <2>1, <2>2, Continues, Zenon
<1>9. CASE Destroy(s) /\ ~ReusedByKey(nvm[s]) /\ GoWith("rec_deleted", Settle(t, s))
  <2>1. Wrote(s, NoObj) /\ tbl' = tbl
    BY <1>9, Zenon DEF Destroy, Wrote
  <2>2. Loaded' = t /\ nvm'[s] = NoObj /\ nvm' \in [Ids -> Objects]
    BY <1>2, <2>1, LoadedSame, WroteFact, NoObjFact, Zenon DEF IInv, t
  <2>3. FlashOK'
    BY <1>2, <2>1, Destroyed, Zenon DEF t
  <2>4. nvm[s].label \notin KeyLabels
    BY <1>2, <1>9, SlotFact, Consts, Zenon DEF Whole, ReusedByKey
  <2>5. KeyWriter'
    BY <1>2, <1>3, <2>1, <2>4, NoObjFact, Consts, KeyWriterKept, Zenon
  <2>6. Spent'
    BY <1>1, <1>3, <2>2, SpentKept DEF t, Tables
  <2>7. TypeOK' /\ Serving' /\ Recovering' /\ Setting' /\ Dropping'
    BY <1>3, <1>6, <1>9, <2>1, <2>2, NoObjFact, Consts, Zenon DEF TypeOK, IInv
  <2> QED
    BY <2>3, <2>5, <2>6, <2>7, Zenon DEF IInv
<1> QED
  BY <1>5, <1>7, <1>8, <1>9, Zenon

\* The staged copy stands while the slot it came from is rewritten.
LEMMA Rewritten ==
  ASSUME IInv, NEW i \in Slots, i = Loaded.reserved, Authentic(nvm[Stage], Loaded.slot[i]),
         NEW o \in Objects, Whole(o), o.label = nvm[i].label, Wrote(i, o), tbl' = tbl
  PROVE  FlashOK'
<1>1. nvm'[i] = o /\ \A j \in Ids : j # i => nvm'[j] = nvm[j]
  BY WroteFact, Consts DEF IInv
<1>2. Loaded' = Loaded /\ Loaded \in Tables
  BY LoadedSame, LoadedFact, Zenon DEF IInv
<1>3. \A j \in Ids : Whole(nvm'[j])
  BY <1>1, Zenon DEF IInv, FlashOK
<1>4. Unique'
  BY <1>1, Consts DEF IInv, FlashOK, Unique
<1>5. Counted'
  BY <1>1, <1>2, Consts, Zenon DEF IInv, FlashOK, Counted
<1>6. Replacing'
  BY <1>1, <1>2, Consts, Zenon DEF IInv, FlashOK, Replacing
<1>7. Removing'
  BY <1>2, Consts DEF Removing, Slots, Tables
<1> QED
  BY <1>3, <1>4, <1>5, <1>6, <1>7, Zenon DEF FlashOK

\* A table without a pending slot, which has every sealed object's counter.
LEMMA TableStored ==
  ASSUME IInv, nvm' = nvm, NEW u \in Tables, tbl' = u, u.reserved = 0,
         \A s \in Slots : nvm[s].seal => Authentic(nvm[s], u.slot[s])
  PROVE  FlashOK' /\ Loaded' = u
<1>1. Loaded' = u
  BY StoredFact, Zenon
<1>2. Counted' /\ Replacing' /\ Removing'
  BY <1>1, Consts DEF Counted, Replacing, Removing, Slots
<1> QED
  BY <1>1, <1>2, Zenon DEF IInv, FlashOK, Unique

LEMMA SameRo == ASSUME NEW o \in Objects, ~o.ro PROVE [o EXCEPT !.ro = FALSE] = o
BY Zenon DEF Objects

LEMMA RecRestoreStep == ASSUME IInv, RecRestore PROVE IInv'
<1> DEFINE t == Loaded
           s == t.reserved
           u == [t EXCEPT !.reserved = 0]
<1>1. /\ op.pc = "rec_restore" /\ op.tb = t /\ s \in Slots /\ t \in Tables
      /\ Authentic(nvm[Stage], t.slot[s])
  BY LoadedFact, Zenon DEF RecRestore, IInv, Recovering
<1>2. UNCHANGED <<kv, seals, tbl>> /\ op \in Ops
  BY Zenon DEF RecRestore, IInv, TypeOK
<1>3. /\ nvm[Stage] \in Objects /\ Whole(nvm[Stage]) /\ ~nvm[Stage].once
      /\ nvm[Stage].label \in Labels /\ nvm[s].label = nvm[Stage].label
  BY <1>1, SlotFact, Consts, Zenon DEF IInv, FlashOK, Replacing
<1>4. [nvm[Stage] EXCEPT !.ro = FALSE] = nvm[Stage]
  BY <1>3, SameRo, Zenon DEF Whole
<1>5. \/ UNCHANGED <<nvm, used>> /\ Refuse
      \/ Wrote(s, nvm[Stage]) /\ GoWith("rec_table", u)
  BY <1>1, <1>4, Zenon DEF RecRestore, Wrote
<1>6. CASE UNCHANGED <<nvm, used>> /\ Refuse
  BY <1>2, <1>6, CutOff, Zenon DEF Refuse, Answer, FlashSame
<1>7. CASE Wrote(s, nvm[Stage]) /\ GoWith("rec_table", u)
  <2>1. Loaded' = t
    BY <1>2, LoadedSame, Zenon
  <2>2. nvm' \in [Ids -> Objects] /\ nvm'[s] = nvm[Stage] /\ nvm'[Stage] = nvm[Stage]
    BY <1>1, <1>3, <1>7, WroteFact, Consts DEF IInv
  <2>3. u \in Tables
    BY <1>1, TableEdits, Zenon
  <2>4. /\ op' \in Ops /\ op'.pc = "rec_table" /\ op'.tb = u
        /\ op'.kind = op.kind /\ op'.label = op.label /\ op'.val = op.val
    <3>1. op' = [op EXCEPT !.pc = "rec_table", !.tb = u]
      BY <1>7, Zenon DEF GoWith
    <3> HIDE DEF u
    <3> QED
      BY <1>2, <2>3, <3>1, GoFact, Zenon DEF Pcs, RecPcs
  <2>5. FlashOK'
    BY <1>1, <1>2, <1>3, <1>7, Rewritten, Zenon
  <2>6. KeyWriter'
    BY <1>1, <1>2, <1>3, <1>7, KeyWriterKept, Consts, Zenon DEF Whole
  <2>7. Spent'
    BY <1>1, <1>2, <2>1, SpentKept DEF Tables
  <2>8. TypeOK'
    BY <1>2, <2>2, <2>4, Zenon DEF TypeOK, IInv
  <2>9. Serving'
    BY <1>1, <2>3, <2>4, IdleFact, Zenon DEF Serving, IInv
  <2>10. Recovering'
    BY <1>1, <2>1, <2>2, <2>4, Zenon DEF Recovering
  <2>11. Setting' /\ Dropping'
    BY <2>4, Zenon DEF Setting, Dropping, SetPcs, RmPcs
  <2> QED
    BY <2>5, <2>6, <2>7, <2>8, <2>9, <2>10, <2>11, Zenon DEF IInv
<1> QED
  BY <1>5, <1>6, <1>7, Zenon

LEMMA RecLiveStep == ASSUME IInv, RecLive PROVE IInv'
<1> DEFINE t == Loaded
           s == t.reserved
           u == [t EXCEPT !.reserved = 0]
<1>1. /\ op.pc = "rec_live" /\ op.tb = t /\ s \in Slots /\ t \in Tables
      /\ ~Authentic(nvm[Stage], t.slot[s])
  BY LoadedFact, Zenon DEF RecLive, IInv, Recovering
<1>2. UNCHANGED <<kv, seals>> /\ op \in Ops
  BY Zenon DEF RecLive, IInv, TypeOK
<1>3. Authentic(nvm[s], t.slot[s])
  BY <1>1, Zenon DEF IInv, FlashOK, Replacing
<1>4. FlashSame /\ GoWith("rec_table", u)
  BY <1>1, <1>3, Zenon DEF RecLive
<1>5. u \in Tables
  BY <1>1, TableEdits, Zenon
<1>6. /\ op' \in Ops /\ op'.pc = "rec_table" /\ op'.tb = u
      /\ op'.kind = op.kind /\ op'.label = op.label /\ op'.val = op.val
  <2>1. op' = [op EXCEPT !.pc = "rec_table", !.tb = u]
    BY <1>4, Zenon DEF GoWith
  <2> HIDE DEF u
  <2> QED
    BY <1>2, <1>5, <2>1, GoFact, Zenon DEF Pcs, RecPcs
<1>7. Loaded' = t /\ nvm' = nvm
  BY <1>4, LoadedSame, Zenon DEF FlashSame
<1>8. Serving'
  BY <1>1, <1>5, <1>6, IdleFact, Zenon DEF Serving, IInv
<1>9. Recovering'
  BY <1>1, <1>3, <1>6, <1>7, Zenon DEF Recovering
<1>10. Setting' /\ Dropping'
  BY <1>6, Zenon DEF Setting, Dropping, SetPcs, RmPcs
<1> QED
  BY <1>2, <1>4, <1>6, <1>8, <1>9, <1>10, Continues, Zenon

\* A step that only stores the request's table.
LEMMA StoreFact ==
  ASSUME IInv, StoreTable(op.tb), UNCHANGED <<kv, seals>>, op.tb \in Tables, op' \in Ops,
         op.tb.global >= Loaded.global
  PROVE  TypeOK' /\ Spent' /\ KeyWriter' /\ Loaded' = op.tb /\ nvm' = nvm /\ tbl' = op.tb
<1>1. tbl' = op.tb /\ nvm' = nvm
  BY Zenon DEF StoreTable
<1>2. Loaded' = op.tb
  BY <1>1, StoredFact, Zenon
<1>3. TypeOK'
  BY <1>1, Zenon DEF IInv, TypeOK
<1>4. Spent'
  BY <1>2, SpentKept, Zenon DEF Tables
<1>5. KeyWriter'
  BY <1>1, Zenon DEF IInv, KeyWriter
<1> QED
  BY <1>1, <1>2, <1>3, <1>4, <1>5, Zenon

LEMMA RecTableStep == ASSUME IInv, RecTable PROVE IInv'
<1>1. op.pc \in {"rec_table", "rec_deleted"} /\ UNCHANGED <<kv, seals>> /\ op \in Ops
  BY Zenon DEF RecTable, IInv, TypeOK
<1>2. op.tb \in Tables /\ Loaded \in Tables
  BY <1>1, LoadedFact, Zenon DEF IInv, Serving
<1>3. CASE FlashSame /\ Refuse
  BY <1>1, <1>3, CutOff, Zenon DEF Refuse, Answer
<1>4. CASE op.pc = "rec_table" /\ StoreTable(op.tb) /\ Go("rec_stage")
  <2>1. /\ op' \in Ops /\ op'.pc = "rec_stage" /\ op'.tb = op.tb
        /\ op'.kind = op.kind /\ op'.label = op.label /\ op'.val = op.val
    BY <1>1, <1>2, <1>4, GoFact, Zenon DEF Pcs, RecPcs, Go
  <2>2. /\ Loaded.reserved \in Slots /\ op.tb = [Loaded EXCEPT !.reserved = 0]
        /\ Authentic(nvm[Loaded.reserved], Loaded.slot[Loaded.reserved])
    BY <1>4, Zenon DEF IInv, Recovering
  <2>3. op.tb.reserved = 0 /\ op.tb.global = Loaded.global /\ op.tb.slot = Loaded.slot
    BY <1>2, <2>2, TableEdits
  <2>4. TypeOK' /\ Spent' /\ KeyWriter' /\ Loaded' = op.tb /\ nvm' = nvm /\ tbl' = op.tb
    BY <1>1, <1>2, <1>4, <2>1, <2>3, StoreFact DEF Tables
  <2>5. \A s \in Slots : nvm[s].seal => Authentic(nvm[s], op.tb.slot[s])
    BY <2>2, <2>3, Zenon DEF IInv, FlashOK, Counted
  <2>6. FlashOK'
    BY <1>2, <2>3, <2>4, <2>5, TableStored, Zenon
  <2>7. Serving'
    BY <1>1, <1>2, <2>1, IdleFact, Zenon DEF Serving, IInv
  <2>8. Recovering'
    BY <2>1, <2>3, <2>4, Zenon DEF Recovering
  <2>9. Setting' /\ Dropping'
    BY <2>1, Zenon DEF Setting, Dropping, SetPcs, RmPcs
  <2> QED
    BY <2>4, <2>6, <2>7, <2>8, <2>9, Zenon DEF IInv
<1>5. CASE op.pc = "rec_deleted" /\ StoreTable(op.tb) /\ Go("main")
  <2> DEFINE d == Loaded.reserved - N
  <2>1. /\ op' \in Ops /\ op'.pc = "main" /\ op'.tb = op.tb
        /\ op'.kind = op.kind /\ op'.label = op.label /\ op'.val = op.val
    BY <1>1, <1>2, <1>5, GoFact, Zenon DEF Pcs, Go
  <2>2. /\ Loaded.reserved > N /\ op.tb = Settle(Loaded, d) /\ nvm[d].label \notin Labels
    BY <1>5, Zenon DEF IInv, Recovering
  <2>3. d \in Slots /\ d \in Ids
    BY <1>2, <2>2, Consts DEF Tables, Slots
  <2> HIDE DEF d
  <2>4. /\ op.tb.reserved = 0 /\ op.tb.global = Loaded.global
        /\ op.tb.slot = [Loaded.slot EXCEPT ![d] = 0]
    <3>1. /\ Settle(Loaded, d).reserved = 0 /\ Settle(Loaded, d).global = Loaded.global
          /\ Settle(Loaded, d).slot = [Loaded.slot EXCEPT ![d] = 0]
      BY <1>2, <2>3, TableEdits, Zenon
    <3> QED
      BY <2>2, <3>1, Zenon
  <2>5. TypeOK' /\ Spent' /\ KeyWriter' /\ Loaded' = op.tb /\ nvm' = nvm /\ tbl' = op.tb
    BY <1>1, <1>2, <1>5, <2>1, <2>4, StoreFact DEF Tables
  <2>6. ~nvm[d].seal
    BY <2>2, <2>3, SlotFact, NoObjFact, Zenon DEF Whole, Objects, Names
  <2>7. \A s \in Slots : nvm[s].seal => Authentic(nvm[s], op.tb.slot[s])
    <3> SUFFICES ASSUME NEW s \in Slots, nvm[s].seal PROVE Authentic(nvm[s], op.tb.slot[s])
      BY Zenon
    <3>1. s # d /\ s # Loaded.reserved
      BY <2>2, <2>6, Consts DEF Slots
    <3>2. op.tb.slot[s] = Loaded.slot[s]
      BY <1>2, <2>4, <3>1, Zenon DEF Tables
    <3> QED
      BY <3>1, <3>2, Zenon DEF IInv, FlashOK, Counted
  <2>8. FlashOK'
    BY <1>2, <2>4, <2>5, <2>7, TableStored, Zenon
  <2>9. Serving'
    BY <1>1, <1>2, <2>1, IdleFact, Zenon DEF Serving, IInv
  <2>10. Recovering'
    BY <2>1, <2>2, <2>4, <2>5, Zenon DEF Recovering, IInv, FlashOK, Removing
  <2>11. Setting' /\ Dropping'
    BY <2>1, Zenon DEF Setting, Dropping, SetPcs, RmPcs
  <2> QED
    BY <2>5, <2>8, <2>9, <2>10, <2>11, Zenon DEF IInv
<1> QED
  BY <1>1, <1>3, <1>4, <1>5, Zenon DEF RecTable

LEMMA DestroyStageStep == ASSUME IInv, DestroyStage PROVE IInv'
<1>1. /\ op.pc \in {"rec_stage", "end_stage"} /\ UNCHANGED <<kv, seals, tbl>> /\ op \in Ops
      /\ Loaded \in Tables
  BY LoadedFact, Zenon DEF DestroyStage, Destroy, FlashSame, IInv, TypeOK
<1>2. Loaded' = Loaded /\ Loaded.reserved = 0
  BY <1>1, LoadedSame, Zenon DEF IInv, Recovering, Setting
<1>3. /\ nvm' \in [Ids -> Objects] /\ nvm'[Stage] = NoObj
      /\ \A j \in Ids : j # Stage => nvm'[j] = nvm[j]
  <2>1. CASE Destroy(Stage)
    BY <2>1, WroteFact, NoObjFact, Consts, Zenon DEF Destroy, Wrote, IInv
  <2>2. CASE nvm[Stage] = NoObj /\ nvm' = nvm
    BY <2>2, Zenon DEF IInv, TypeOK
  <2> QED
    BY <2>1, <2>2, Zenon DEF DestroyStage, FlashSame
<1>4. FlashOK'
  <2>1. CASE Destroy(Stage)
    <3>1. Wrote(Stage, NoObj) /\ 0 \notin Slots /\ Stage # 0
      BY <2>1, Consts DEF Destroy, Wrote, Slots, Stage
    <3> QED
      BY <1>1, <1>2, <3>1, Destroyed, Consts, Zenon
  <2>2. CASE nvm' = nvm
    BY <1>1, <2>2, FlashKept, Zenon DEF IInv
  <2> QED
    BY <2>1, <2>2, Zenon DEF DestroyStage, FlashSame
<1>5. KeyWriter'
  BY <1>1, <1>3, Consts, Zenon DEF IInv, KeyWriter
<1>6. Spent'
  BY <1>1, <1>2, SpentKept DEF Tables
<1>7. CASE op.pc = "rec_stage" /\ Go("main")
  <2>1. /\ op' \in Ops /\ op'.pc = "main" /\ op'.tb = op.tb
        /\ op'.kind = op.kind /\ op'.label = op.label /\ op'.val = op.val
    BY <1>1, <1>7, GoFact, Zenon DEF Pcs, Go, Ops
  <2>2. TypeOK'
    BY <1>1, <1>3, <2>1, Zenon DEF TypeOK, IInv
  <2>3. Serving'
    BY <1>7, <2>1, IdleFact, Zenon DEF Serving, IInv
  <2>4. Recovering'
    BY <1>2, <1>3, <1>7, <2>1, Zenon DEF Recovering, IInv
  <2>5. Setting' /\ Dropping'
    BY <2>1, Zenon DEF Setting, Dropping, SetPcs, RmPcs
  <2> QED
    BY <1>4, <1>5, <1>6, <2>2, <2>3, <2>4, <2>5, Zenon DEF IInv
<1>8. CASE op' = Idle
  <2>1. TypeOK'
    BY <1>1, <1>3, <1>8, IdleFact, Zenon DEF TypeOK, IInv
  <2> QED
    BY <1>4, <1>5, <1>6, <1>8, <2>1, Stops, Zenon
<1> QED
  BY <1>1, <1>7, <1>8, Zenon DEF DestroyStage, Answer

-----------------------------------------------------------------------------
(* wt_hsm_vault_set                                                        *)

LEMMA TableExt ==
  ASSUME NEW t \in Tables, NEW u \in Tables, t.reserved = u.reserved, t.global = u.global,
         t.slot = u.slot
  PROVE  t = u
BY DEF Tables

\* The tables a set prepares.
Pending(t, g, s) == [[t EXCEPT !.global = g] EXCEPT !.reserved = s]
Prepared(t, g, s, c) == [[t EXCEPT !.global = g] EXCEPT !.slot[s] = c]

LEMMA BumpFact ==
  ASSUME NEW t \in Tables, NEW g \in Nat, NEW s \in Slots, NEW c \in Nat
  PROVE  /\ Pending(t, g, s) \in Tables /\ Pending(t, g, s).reserved = s
         /\ Pending(t, g, s).global = g /\ Pending(t, g, s).slot = t.slot
         /\ Prepared(t, g, s, c) \in Tables /\ Prepared(t, g, s, c).reserved = t.reserved
         /\ Prepared(t, g, s, c).global = g
         /\ Prepared(t, g, s, c).slot = [t.slot EXCEPT ![s] = c]
<1> DEFINE b == [t EXCEPT !.global = g]
<1>1. /\ b \in Tables /\ b.reserved = t.reserved /\ b.global = g /\ b.slot = t.slot
  BY Zenon DEF Tables
<1> HIDE DEF b
<1>2. s \in 0..(N + N)
  BY Consts DEF Slots
<1>3. LET u == [b EXCEPT !.reserved = s]
      IN u \in Tables /\ u.reserved = s /\ u.global = g /\ u.slot = t.slot
  BY <1>1, <1>2, Zenon DEF Tables
<1>4. [t.slot EXCEPT ![s] = c] \in [Slots -> Nat]
  BY Zenon DEF Tables
<1>5. [b EXCEPT !.slot[s] = c] = [b EXCEPT !.slot = [t.slot EXCEPT ![s] = c]]
  BY <1>1, Zenon DEF Tables
<1>6. LET w == [b EXCEPT !.slot = [t.slot EXCEPT ![s] = c]]
      IN /\ w \in Tables /\ w.reserved = t.reserved /\ w.global = g
         /\ w.slot = [t.slot EXCEPT ![s] = c]
  BY <1>1, <1>4, Zenon DEF Tables
<1> QED
  BY <1>3, <1>5, <1>6, Zenon DEF b, Pending, Prepared

\* What the look-up and the reservation decide, whichever slot they choose.
SetPlan(s, repl) ==
  LET g == NextCounter(op.tb, s, op.seal)
      b == [op.tb EXCEPT !.global = g]
  IN /\ op' = [op EXCEPT !.id = s, !.repl = repl,
                 !.pc = IF SetNeeds(repl, s) > 1 THEN "set_table" ELSE "set_add",
                 !.tb = IF repl THEN [b EXCEPT !.reserved = s]
                        ELSE [b EXCEPT !.slot[s] = IF op.seal THEN g ELSE 0]]
     /\ UNCHANGED <<nvm, tbl>>

LEMMA SetMainCases ==
  ASSUME IInv, SetMain
  PROVE  \/ FlashSame /\ Refuse
         \/ \E s \in Slots, repl \in BOOLEAN :
              /\ SetPlan(s, repl)
              /\ \/ nvm[s].label = op.label /\ ~nvm[s].once
                    /\ repl = (nvm[s].seal /\ Authentic(nvm[s], op.tb.slot[s]))
                 \/ nvm[s] = NoObj /\ repl = FALSE /\ \A u \in Slots : nvm[u].label # op.label
<1>1. CASE FlashSame /\ Refuse
  BY <1>1, Zenon
<1>2. CASE ~(FlashSame /\ Refuse)
  <2> DEFINE found == Named(nvm, op.label)
             Repl(s) == s \in found /\ nvm[s].seal /\ Authentic(nvm[s], op.tb.slot[s])
  <2>1. PICK s \in Slots : /\ IF found = {} THEN FirstFree(nvm, s) ELSE s \in found /\ ~nvm[s].once
                           /\ SetPlan(s, Repl(s))
    BY <1>2, Zenon DEF SetMain, SetPlan
  <2>2. Repl(s) \in BOOLEAN
    BY Zenon
  <2>3. CASE found = {}
    <3>1. nvm[s] = NoObj /\ Repl(s) = FALSE /\ \A u \in Slots : nvm[u].label # op.label
      BY <2>1, <2>3, Zenon DEF FirstFree, Free, Named
    <3> HIDE DEF Repl
    <3> QED
      BY <2>1, <2>2, <3>1, Zenon
  <2>4. CASE found # {}
    <3>1. nvm[s].label = op.label /\ ~nvm[s].once
      BY <2>1, <2>4, Zenon DEF Named
    <3>2. Repl(s) = (nvm[s].seal /\ Authentic(nvm[s], op.tb.slot[s]))
      BY <2>1, <2>4, Zenon
    <3> HIDE DEF Repl
    <3> QED
      BY <2>1, <2>2, <3>1, <3>2, Zenon
  <2> QED
    BY <2>3, <2>4, Zenon
<1> QED
  BY <1>1, <1>2, Zenon

LEMMA SetMainStep == ASSUME IInv, SetMain PROVE IInv'
<1>1. /\ op.pc = "main" /\ op.kind = "set" /\ UNCHANGED <<kv, seals>> /\ op \in Ops
      /\ op.tb = Loaded /\ Loaded.reserved = 0 /\ nvm[Stage] = NoObj /\ Loaded \in Tables
      /\ op.label \in Labels
  BY LoadedFact, Zenon DEF SetMain, IInv, TypeOK, Recovering, Serving
<1>2. CASE FlashSame /\ Refuse
  BY <1>1, <1>2, CutOff, Zenon DEF Refuse, Answer
<1>3. ASSUME NEW s \in Slots, NEW repl \in BOOLEAN, SetPlan(s, repl),
             \/ nvm[s].label = op.label /\ ~nvm[s].once
                /\ repl = (nvm[s].seal /\ Authentic(nvm[s], op.tb.slot[s]))
             \/ nvm[s] = NoObj /\ repl = FALSE /\ \A u \in Slots : nvm[u].label # op.label
      PROVE  IInv'
  <2> DEFINE t == Loaded
             g == NextCounter(t, s, op.seal)
             b == [t EXCEPT !.global = g]
             c == IF op.seal THEN g ELSE 0
             tb == IF repl THEN [b EXCEPT !.reserved = s] ELSE [b EXCEPT !.slot[s] = c]
             pc == IF SetNeeds(repl, s) > 1 THEN "set_table" ELSE "set_add"
  <2>1. g = t.global + (IF op.seal THEN 1 ELSE 0) /\ g \in Nat /\ c \in Nat
    BY <1>1 DEF NextCounter, Tables
  <2>2. op' = [op EXCEPT !.id = s, !.repl = repl, !.pc = pc, !.tb = tb] /\ nvm' = nvm /\ tbl' = tbl
    BY <1>1, <1>3, Zenon DEF SetPlan
  <2>3. /\ tb \in Tables /\ tb.global = g
        /\ repl => tb.reserved = s /\ tb.slot = t.slot
        /\ ~repl => tb.reserved = 0 /\ tb.slot = [t.slot EXCEPT ![s] = c]
    <3>1. t.reserved = 0 /\ t \in Tables
      BY <1>1, Zenon
    <3>a. g \in Nat /\ c \in Nat
      BY <2>1, Zenon
    <3> HIDE DEF g, t, c, b, tb
    <3>2. /\ Pending(t, g, s) \in Tables /\ Pending(t, g, s).reserved = s
          /\ Pending(t, g, s).global = g /\ Pending(t, g, s).slot = t.slot
          /\ Prepared(t, g, s, c) \in Tables /\ Prepared(t, g, s, c).reserved = t.reserved
          /\ Prepared(t, g, s, c).global = g
          /\ Prepared(t, g, s, c).slot = [t.slot EXCEPT ![s] = c]
      BY <3>a, <3>1, BumpFact
    <3>3. tb = IF repl THEN Pending(t, g, s) ELSE Prepared(t, g, s, c)
      BY Zenon DEF Pending, Prepared, b, tb
    <3> QED
      BY <3>1, <3>2, <3>3, Zenon
  <2>4. pc \in {"set_table", "set_add"}
    BY Zenon
  <2>5. pc = "set_add" => ~repl /\ ~op.seal /\ t.slot[s] = 0
    BY <1>1 DEF SetNeeds
  <2> HIDE DEF tb, pc, g, c, b, t
  <2>6. /\ op' \in Ops /\ op'.id = s /\ op'.repl = repl /\ op'.pc = pc /\ op'.tb = tb
        /\ op'.kind = op.kind /\ op'.label = op.label /\ op'.seal = op.seal /\ op'.once = op.once
        /\ op'.val = op.val
    <3>1. s \in 0..N
      BY Consts DEF Slots
    <3> QED
      BY <1>1, <2>2, <2>3, <2>4, <3>1, Zenon DEF Ops, SetPcs
  <2>7. Loaded' = t
    BY <2>2, LoadedSame, Zenon DEF t
  <2>8. Serving'
    BY <1>1, <2>3, <2>4, <2>6, IdleFact, Zenon DEF Serving, IInv
  <2>9. Recovering' /\ Dropping'
    BY <2>4, <2>6, Zenon DEF Recovering, Dropping, RmPcs
  <2>10. /\ repl => nvm[s].label = op.label /\ ~nvm[s].once /\ Authentic(nvm[s], t.slot[s])
         /\ ~repl => /\ ~nvm[s].seal /\ ~nvm[s].once
                     /\ \/ nvm[s].label = op.label
                        \/ nvm[s].label = "none" /\ \A u \in Slots : nvm[u].label # op.label
    BY <1>1, <1>3, NoObjFact, Consts DEF IInv, FlashOK, Counted, t, Slots
  <2>11. Target'
    BY <2>2, <2>6, <2>10, Zenon DEF Target
  <2>12. pc = "set_add" => tb = t
    <3> SUFFICES ASSUME pc = "set_add" PROVE tb = t
      BY Zenon
    <3>1. ~repl /\ ~op.seal /\ t.slot[s] = 0 /\ t \in Tables
      BY <1>1, <2>5, Zenon DEF t
    <3>2. g = t.global
      BY <2>1, <3>1 DEF Tables
    <3>3. tb.slot = t.slot
      BY <2>3, <3>1, Zenon DEF c, Tables
    <3>4. tb.reserved = t.reserved
      BY <1>1, <2>3, <3>1, Zenon DEF t
    <3> QED
      BY <2>3, <3>1, <3>2, <3>3, <3>4, TableExt, Zenon
  <2>13. Setting'
    <3>1. CASE pc = "set_table"
      <4>1. tb.slot = IF repl THEN t.slot ELSE [t.slot EXCEPT ![s] = IF op.seal THEN tb.global ELSE 0]
        BY <2>3, Zenon DEF c
      <4> QED
        BY <1>1, <2>1, <2>2, <2>3, <2>6, <2>7, <2>10, <2>11, <3>1, <4>1 DEF Setting, SetPcs, t
    <3>2. CASE pc = "set_add"
      BY <1>1, <2>2, <2>5, <2>6, <2>7, <2>11, <2>12, <3>2, Zenon DEF Setting, SetPcs, Unspent, t
    <3> QED
      BY <2>4, <3>1, <3>2, Zenon
  <2>14. TypeOK'
    BY <1>1, <2>2, <2>6, Zenon DEF IInv, TypeOK
  <2>15. FlashOK' /\ Spent' /\ KeyWriter'
    <3>1. FlashOK'
      BY <2>2, FlashKept, Zenon DEF IInv
    <3>2. Spent'
      BY <1>1, <2>7, Zenon DEF IInv, Spent, t
    <3>3. KeyWriter'
      BY <1>1, <2>2, Zenon DEF IInv, KeyWriter
    <3> QED
      BY <3>1, <3>2, <3>3, Zenon
  <2> QED
    BY <2>8, <2>9, <2>13, <2>14, <2>15, Zenon DEF IInv
<1> QED
  BY <1>2, <1>3, SetMainCases, Zenon

LEMMA SetTableStep == ASSUME IInv, SetTable PROVE IInv'
<1> DEFINE t == Loaded
           s == op.id
<1>1. /\ op.pc = "set_table" /\ op.kind = "set" /\ UNCHANGED <<kv, seals>> /\ op \in Ops
      /\ t \in Tables /\ op.tb \in Tables /\ op.label \in Labels /\ s \in Slots /\ s \in Ids
  BY LoadedFact, Consts, Zenon DEF SetTable, IInv, TypeOK, Serving, Setting, SetPcs
<1>2. /\ op.tb.global = t.global + (IF op.seal THEN 1 ELSE 0)
      /\ t.reserved = 0 /\ nvm[Stage] = NoObj /\ Target
  BY <1>1, Zenon DEF IInv, Setting
<1>3. t.global \in Nat /\ op.tb.global \in Nat /\ op.tb.global >= t.global
  BY <1>1, <1>2 DEF Tables
<1>4. CASE FlashSame /\ Refuse
  BY <1>1, <1>4, CutOff, Zenon DEF Refuse, Answer
<1>5. ASSUME StoreTable(op.tb), NEW x \in {"set_stage", "set_add"}, Go(x),
             x = IF op.repl THEN "set_stage" ELSE "set_add"
      PROVE  IInv'
  <2>1. /\ op' \in Ops /\ op'.pc = x /\ op'.tb = op.tb /\ op'.kind = op.kind
        /\ op'.label = op.label /\ op'.seal = op.seal /\ op'.once = op.once
        /\ op'.val = op.val /\ op'.id = op.id /\ op'.repl = op.repl
    <3>1. x \in Pcs /\ op' = [op EXCEPT !.pc = x] /\ op.tb \in Tables \cup {NoTable}
      BY <1>1, <1>5, Zenon DEF Pcs, SetPcs, Go
    <3> QED
      BY <1>1, <3>1, GoFact, Zenon
  <2>2. TypeOK' /\ Spent' /\ KeyWriter' /\ Loaded' = op.tb /\ nvm' = nvm /\ tbl' = op.tb
    BY <1>1, <1>3, <1>5, <2>1, StoreFact, Zenon
  <2>3. Target'
    BY <1>2, <2>1, <2>2, Zenon DEF Target
  <2>4. Unspent'
    <3> SUFFICES ASSUME op.seal PROVE /\ op.tb.global # 0
                                      /\ \A c \in 1..CtrMax : c = op.tb.global => seals[c] = 0
      BY <1>1, <2>1, Zenon DEF Unspent
    <3>1. op.tb.global = t.global + 1
      BY <1>2, Zenon
    <3> QED
      BY <1>3, <3>1 DEF IInv, Spent
  <2>5. Serving'
    BY <1>1, <2>1, IdleFact, Zenon DEF Serving, IInv
  <2>6. Recovering' /\ Dropping'
    BY <2>1, Zenon DEF Recovering, Dropping, RmPcs
  <2>7. CASE op.repl
    <3>1. op.tb.reserved = s /\ op.tb.slot = t.slot /\ Authentic(nvm[s], t.slot[s]) /\ ~nvm[s].once
      BY <1>1, <2>7, Zenon DEF IInv, Setting
    <3>2. nvm[s].label = op.label
      BY <1>2, <2>7, Zenon DEF Target
    <3>3. Counted'
      BY <1>2, <2>2, <3>1, Consts DEF IInv, FlashOK, Counted, Slots
    <3>4. ~Authentic(nvm[Stage], op.tb.slot[s])
      BY <1>2, NoObjFact, Zenon DEF Authentic
    <3>5. Replacing'
      BY <1>1, <1>2, <2>2, <3>1, <3>2, <3>4, Zenon DEF Replacing
    <3>6. Removing'
      BY <1>1, <2>2, <3>1, Consts DEF Removing, Slots
    <3>7. FlashOK'
      BY <2>2, <3>3, <3>5, <3>6, Zenon DEF IInv, FlashOK, Unique
    <3>8. Setting'
      BY <1>1, <1>2, <1>5, <2>1, <2>2, <2>3, <2>4, <2>7, <3>1, Zenon DEF Setting, SetPcs
    <3> QED
      BY <2>2, <2>5, <2>6, <3>7, <3>8, Zenon DEF IInv
  <2>8. CASE ~op.repl
    <3>1. op.tb.reserved = 0 /\ op.tb.slot = [t.slot EXCEPT ![s] = IF op.seal THEN op.tb.global ELSE 0]
      BY <1>1, <2>8, Zenon DEF IInv, Setting
    <3>2. ~nvm[s].seal
      BY <1>2, <2>8, Zenon DEF Target
    <3>3. \A u \in Slots : nvm[u].seal => Authentic(nvm[u], op.tb.slot[u])
      <4> SUFFICES ASSUME NEW u \in Slots, nvm[u].seal PROVE Authentic(nvm[u], op.tb.slot[u])
        BY Zenon
      <4>1. u # s /\ u # t.reserved
        BY <1>2, <3>2, Consts DEF Slots
      <4>2. op.tb.slot[u] = t.slot[u]
        BY <1>1, <3>1, <4>1, Zenon DEF Tables
      <4> QED
        BY <4>1, <4>2, Zenon DEF IInv, FlashOK, Counted
    <3>4. FlashOK'
      BY <1>1, <2>2, <3>1, <3>3, TableStored, Zenon
    <3>5. op.tb.slot[s] = IF op.seal THEN op.tb.global ELSE 0
      BY <1>1, <3>1, Zenon DEF Tables
    <3>6. Setting'
      BY <1>1, <1>5, <2>1, <2>2, <2>3, <2>4, <2>8, <3>1, <3>5 DEF Setting, SetPcs
    <3> QED
      BY <2>2, <2>5, <2>6, <3>4, <3>6, Zenon DEF IInv
  <2> QED
    BY <2>7, <2>8, Zenon
<1> QED
  BY <1>1, <1>4, <1>5, Zenon DEF SetTable

LEMMA SetStageStep == ASSUME IInv, SetStage PROVE IInv'
<1> DEFINE t == Loaded
           s == op.id
<1>1. /\ op.pc = "set_stage" /\ op.kind = "set" /\ UNCHANGED <<kv, seals, tbl>> /\ op \in Ops
      /\ t \in Tables /\ op.tb \in Tables /\ op.label \in Labels /\ s \in Slots /\ s \in Ids
  BY LoadedFact, Consts
    , Zenon DEF SetStage, AddObject, FlashSame, IInv, TypeOK, Serving, Setting, SetPcs
<1>2. op.repl /\ t.reserved = s /\ nvm[Stage] = NoObj /\ Target /\ op.tb = t /\ Unspent
  BY <1>1, Zenon DEF IInv, Setting
<1>3. ~Authentic(nvm[Stage], t.slot[s])
  BY <1>2, NoObjFact, Zenon DEF Authentic
<1>4. Authentic(nvm[s], t.slot[s]) /\ ~nvm[s].once /\ nvm[s].label \in Labels
  BY <1>1, <1>2, <1>3, Zenon DEF IInv, FlashOK, Replacing
<1>5. nvm[s] \in Objects /\ Whole(nvm[s]) /\ [nvm[s] EXCEPT !.ro = FALSE] = nvm[s]
  BY <1>1, <1>4, SlotFact, SameRo, Zenon DEF Whole
<1>6. CASE FlashSame /\ Refuse
  BY <1>1, <1>6, CutOff, Zenon DEF Refuse, Answer
<1>7. CASE Wrote(Stage, nvm[s]) /\ Go("set_add")
  <2>1. /\ op' \in Ops /\ op'.pc = "set_add" /\ op'.tb = op.tb /\ op'.kind = op.kind
        /\ op'.label = op.label /\ op'.seal = op.seal /\ op'.once = op.once
        /\ op'.val = op.val /\ op'.id = op.id /\ op'.repl = op.repl
    BY <1>1, <1>7, GoFact, Zenon DEF Pcs, SetPcs, Go
  <2>2. /\ nvm' \in [Ids -> Objects] /\ nvm'[Stage] = nvm[s]
        /\ \A j \in Ids : j # Stage => nvm'[j] = nvm[j]
    BY <1>5, <1>7, WroteFact, Consts, Zenon DEF IInv
  <2>3. Loaded' = t
    BY <1>1, LoadedSame, Zenon
  <2>4. \A u \in Slots : nvm'[u] = nvm[u]
    BY <2>2, Consts, Zenon
  <2>5. (\A i \in Ids : Whole(nvm'[i])) /\ Unique' /\ Counted'
    BY <1>5, <2>2, <2>3, <2>4 DEF IInv, FlashOK, Unique, Counted
  <2>6. Replacing' /\ Removing'
    <3>1. /\ Loaded'.reserved = s /\ ~(s > N) /\ nvm'[s] = nvm[s] /\ nvm'[Stage] = nvm[s]
          /\ Loaded'.slot[s] = t.slot[s]
      BY <1>1, <1>2, <2>2, <2>3, <2>4, Consts DEF Slots
    <3>2. Removing'
      BY <3>1, Zenon DEF Removing
    <3>3. Replacing'
      BY <1>4, <3>1, Zenon DEF Replacing
    <3> QED
      BY <3>2, <3>3, Zenon
  <2>7. KeyWriter'
    BY <1>1, <2>4, Zenon DEF IInv, KeyWriter
  <2>8. Spent'
    BY <1>1, <2>3, SpentKept DEF Tables
  <2>9. TypeOK'
    BY <1>1, <2>1, <2>2, Zenon DEF IInv, TypeOK
  <2>10. Serving'
    BY <1>1, <2>1, IdleFact, Zenon DEF Serving, IInv
  <2>11. Recovering' /\ Dropping'
    BY <2>1, Zenon DEF Recovering, Dropping, RmPcs
  <2>12. Target' /\ Unspent'
    <3>1. Target'
      BY <1>1, <1>2, <2>1, <2>4 DEF Target
    <3>2. Unspent'
      BY <1>1, <1>2, <2>1, Zenon DEF Unspent
    <3> QED
      BY <3>1, <3>2, Zenon
  <2>13. Setting'
    BY <1>1, <1>2, <1>4, <2>1, <2>2, <2>3, <2>12, Zenon DEF Setting, SetPcs
  <2> QED
    BY <2>5, <2>6, <2>7, <2>8, <2>9, <2>10, <2>11, <2>13, Zenon DEF IInv, FlashOK
<1> QED
  BY <1>1, <1>5, <1>6, <1>7, Zenon DEF SetStage, AddObject, Wrote

\* The object a set adds, and the counter it is sealed under.
Sealing == IF op.seal THEN op.tb.global ELSE 0
Added == Object(op.label, FALSE, op.seal, op.once, op.val, Sealing)
Committing == [op.tb EXCEPT !.slot[op.id] = Sealing, !.reserved = 0]

LEMMA SetAddFact ==
  ASSUME IInv, op.pc = "set_add"
  PROVE  /\ op.kind = "set" /\ op.id \in Slots /\ op.id \in Ids /\ op \in Ops
         /\ op.label \in Labels /\ op.tb = Loaded /\ Loaded \in Tables
         /\ Added \in Objects /\ Whole(Added) /\ Added.label = op.label /\ Added.key = FALSE
         /\ Added.seal = op.seal /\ Added.once = op.once /\ Added.val = op.val
         /\ Added.ctr = Sealing /\ Sealing \in Nat /\ (op.seal => Sealing # 0)
<1>1. /\ op.kind = "set" /\ op.id \in Slots /\ op.id \in Ids /\ op \in Ops
      /\ op.label \in Labels /\ op.tb = Loaded /\ Loaded \in Tables /\ op.val \in Values /\ Unspent
  BY LoadedFact, Consts, Zenon DEF IInv, TypeOK, Serving, Setting, SetPcs
<1>2. op.seal \in BOOLEAN /\ op.once \in BOOLEAN
  BY <1>1, Zenon DEF Ops
<1>3. Sealing \in Nat /\ (op.seal => Sealing # 0)
  BY <1>1, Zenon DEF Sealing, Tables, Unspent
<1>4. /\ Added \in Objects /\ Whole(Added) /\ Added.label = op.label /\ Added.key = FALSE
      /\ Added.seal = op.seal /\ Added.once = op.once /\ Added.val = op.val
      /\ Added.ctr = Sealing
  <2>1. /\ Added.label = op.label /\ Added.key = FALSE /\ Added.seal = op.seal
        /\ Added.once = op.once /\ Added.val = op.val /\ Added.ctr = Sealing /\ Added.ro = op.once
    BY Zenon DEF Added, Object
  <2>2. Added \in Objects
    BY <1>1, <1>2, <1>3, Zenon DEF Added, Object, Objects, Names
  <2>3. Whole(Added)
    BY <1>1, <2>1, Consts, Zenon DEF Whole
  <2> QED
    BY <2>1, <2>2, <2>3, Zenon
<1> QED
  BY <1>1, <1>3, <1>4, Zenon

\* The counter is used once it is persisted.
LEMMA SealedOnce ==
  ASSUME IInv, op.pc = "set_add", tbl' = tbl,
         seals' = IF op.seal THEN [seals EXCEPT ![Sealing] = @ + 1] ELSE seals
  PROVE  Spent' /\ seals' \in [1..CtrMax -> Nat]
<1>1. op.tb = Loaded /\ Loaded \in Tables /\ Unspent /\ Loaded' = Loaded
  BY LoadedFact, LoadedSame, Zenon DEF IInv, Setting
<1>2. seals \in [1..CtrMax -> Nat] /\ Loaded.global \in Nat
  BY <1>1, Zenon DEF IInv, TypeOK, Tables
<1>3. CASE op.seal
  <2>1. Sealing = Loaded.global
    BY <1>1, <1>3, Zenon DEF Sealing
  <2>2. seals' = [seals EXCEPT ![Loaded.global] = @ + 1]
    BY <1>3, <2>1, Zenon
  <2>3. \A c \in 1..CtrMax : seals'[c] = IF c = Loaded.global THEN 1 ELSE seals[c]
    BY <1>1, <1>2, <1>3, <2>2 DEF Unspent
  <2>4. seals' \in [1..CtrMax -> Nat]
    <3>1. CASE Loaded.global \in 1..CtrMax
      BY <1>2, <2>2, <3>1
    <3>2. CASE Loaded.global \notin 1..CtrMax
      <4>1. seals' = seals
        BY <1>2, <2>2, <3>2
      <4> QED
        BY <1>2, <4>1, Zenon
    <3> QED
      BY <3>1, <3>2, Zenon
  <2> QED
    BY <1>1, <1>2, <2>3, <2>4 DEF IInv, Spent
<1>4. CASE ~op.seal
  BY <1>1, <1>2, <1>4, Zenon DEF IInv, Spent
<1> QED
  BY <1>3, <1>4, Zenon

\* A new name, or a new unsealed object in place of one.
LEMMA AddedFlash ==
  ASSUME IInv, op.pc = "set_add", ~op.repl, Wrote(op.id, Added), tbl' = tbl PROVE FlashOK'
<1> DEFINE s == op.id
<1>1. /\ s \in Slots /\ s \in Ids /\ op.label \in Labels /\ Added \in Objects /\ Whole(Added)
      /\ Added.label = op.label /\ Added.seal = op.seal /\ Added.ctr = Sealing
      /\ (op.seal => Sealing # 0)
  BY SetAddFact, Zenon
<1>2. Loaded' = Loaded /\ Loaded.reserved = 0 /\ op.tb = Loaded
  BY LoadedSame, Zenon DEF IInv, Setting
<1>3. Loaded.slot[s] = Sealing /\ Target
  BY <1>2, Zenon DEF IInv, Setting, Sealing
<1>4. nvm'[s] = Added /\ \A j \in Ids : j # s => nvm'[j] = nvm[j]
  BY <1>1, WroteFact, Zenon DEF IInv
<1>5. \A j \in Ids : Whole(nvm'[j])
  BY <1>1, <1>4, Zenon DEF IInv, FlashOK
<1>6. \A u \in Slots : u # s => nvm[u].label # op.label
  BY <1>1, <1>3, Consts, Zenon DEF IInv, FlashOK, Unique, Target
<1>7. Unique'
  BY <1>1, <1>4, <1>6, Consts DEF IInv, FlashOK, Unique
<1>8. Counted'
  BY <1>1, <1>2, <1>3, <1>4, Consts DEF IInv, FlashOK, Counted, Authentic
<1>9. Replacing' /\ Removing'
  <2>1. Loaded'.reserved = 0 /\ 0 \notin Slots /\ ~(0 > N)
    BY <1>2, Consts DEF Slots
  <2> QED
    BY <2>1, Zenon DEF Replacing, Removing
<1> QED
  BY <1>5, <1>7, <1>8, <1>9, Zenon DEF FlashOK

LEMMA CommittingFact ==
  ASSUME NEW t \in Tables, NEW s \in Slots, NEW c \in Nat
  PROVE  [t EXCEPT !.slot[s] = c, !.reserved = 0] \in Tables
<1>1. [t.slot EXCEPT ![s] = c] \in [Slots -> Nat] /\ 0 \in 0..(N + N)
  BY Consts DEF Tables
<1>2. [t EXCEPT !.slot[s] = c, !.reserved = 0] =
        [t EXCEPT !.slot = [t.slot EXCEPT ![s] = c], !.reserved = 0]
  BY Zenon DEF Tables
<1> QED
  BY <1>1, <1>2, Zenon DEF Tables

LEMMA SetAddStep == ASSUME IInv, SetAdd PROVE IInv'
<1> DEFINE t == Loaded
           s == op.id
<1>1. op.pc = "set_add" /\ kv' = kv
  BY Zenon DEF SetAdd
<1>2. /\ op.kind = "set" /\ s \in Slots /\ s \in Ids /\ op \in Ops
      /\ op.label \in Labels /\ op.tb = t /\ t \in Tables
      /\ Added \in Objects /\ Whole(Added) /\ Added.label = op.label /\ Added.key = FALSE
      /\ Added.seal = op.seal /\ Added.once = op.once /\ Added.val = op.val
      /\ Added.ctr = Sealing /\ Sealing \in Nat /\ (op.seal => Sealing # 0)
  BY <1>1, SetAddFact, Zenon
<1>3. seals' = IF op.seal THEN [seals EXCEPT ![Sealing] = @ + 1] ELSE seals
  BY Zenon DEF SetAdd, Sealing
<1>4. tbl' = tbl /\ Loaded' = t
  BY LoadedSame, Zenon DEF SetAdd, AddObject, FlashSame
<1>5. Spent' /\ seals' \in [1..CtrMax -> Nat]
  BY <1>1, <1>3, <1>4, SealedOnce, Zenon
<1>6. nvm[s].label \notin KeyLabels
  <2>1. Target
    BY <1>1, Zenon DEF IInv, Setting
  <2> QED
    BY <1>2, <2>1, Consts, Zenon DEF Target
<1>7. ASSUME Wrote(s, Added)
      PROVE  /\ KeyWriter' /\ nvm' \in [Ids -> Objects] /\ nvm'[s] = Added
             /\ nvm'[Stage] = nvm[Stage]
  <2>1. KeyWriter'
    BY <1>1, <1>2, <1>6, <1>7, KeyWriterKept, Consts, Zenon
  <2> QED
    BY <1>2, <1>7, <2>1, WroteFact, Consts DEF IInv
<1>8. CASE FlashSame /\ Refuse
  <2>1. op' = Idle
    BY <1>8, Zenon DEF Refuse, Answer
  <2>2. TypeOK'
    BY <1>1, <1>5, <1>8, <2>1, IdleFact, Zenon DEF IInv, TypeOK, FlashSame
  <2>3. FlashOK'
    BY <1>8, FlashKept, Zenon DEF IInv, FlashSame
  <2>4. KeyWriter'
    BY <1>1, <1>8, Zenon DEF IInv, KeyWriter, FlashSame
  <2> QED
    BY <1>5, <2>1, <2>2, <2>3, <2>4, Stops, Zenon
<1>9. CASE Wrote(s, Added) /\ ~op.repl /\ Answer("ok", "none")
  <2>1. op' = Idle
    BY <1>9, Zenon DEF Answer
  <2>2. TypeOK'
    BY <1>1, <1>4, <1>5, <1>7, <1>9, <2>1, IdleFact, Zenon DEF IInv, TypeOK
  <2>3. FlashOK'
    BY <1>1, <1>4, <1>9, AddedFlash, Zenon
  <2> QED
    BY <1>5, <1>7, <1>9, <2>1, <2>2, <2>3, Stops, Zenon
<1>10. CASE Wrote(s, Added) /\ op.repl /\ GoWith("set_commit", Committing)
  <2>1. t.reserved = s /\ Authentic(nvm[Stage], t.slot[s]) /\ nvm[s].label = op.label
    BY <1>1, <1>10, Zenon DEF IInv, Setting, Target
  <2>2. Committing \in Tables
    BY <1>2, CommittingFact, Zenon DEF Committing
  <2>3. /\ op' \in Ops /\ op'.pc = "set_commit" /\ op'.tb = Committing /\ op'.kind = op.kind
        /\ op'.label = op.label /\ op'.seal = op.seal /\ op'.once = op.once
        /\ op'.val = op.val /\ op'.id = op.id /\ op'.repl = op.repl
    BY <1>2, <1>10, <2>2, GoFact, Zenon DEF Pcs, SetPcs, GoWith
  <2>4. FlashOK'
    BY <1>2, <1>4, <1>10, <2>1, Rewritten, Zenon
  <2>5. TypeOK'
    BY <1>1, <1>4, <1>5, <1>7, <1>10, <2>3, Zenon DEF IInv, TypeOK
  <2>6. Serving'
    BY <1>1, <2>2, <2>3, IdleFact, Zenon DEF Serving, IInv
  <2>7. Recovering' /\ Dropping'
    BY <2>3, Zenon DEF Recovering, Dropping, RmPcs
  <2>8. op'.tb = [Loaded' EXCEPT !.slot[op'.id] = nvm'[op'.id].ctr, !.reserved = 0]
    <3>1. nvm'[op'.id].ctr = Sealing /\ op'.id = op.id /\ Loaded' = op.tb
      BY <1>2, <1>4, <1>7, <1>10, <2>3, Zenon
    <3> QED
      BY <2>3, <3>1, Zenon DEF Committing
  <2>9. nvm'[s].seal => nvm'[s].ctr # 0
    BY <1>2, <1>7, <1>10, Zenon
  <2>10. Setting'
    BY <1>2, <1>4, <1>7, <1>10, <2>1, <2>3, <2>8, <2>9 DEF Setting, SetPcs
  <2> QED
    BY <1>5, <1>7, <1>10, <2>4, <2>5, <2>6, <2>7, <2>10, Zenon DEF IInv
<1> QED
  BY <1>1, <1>8, <1>9, <1>10, Zenon DEF SetAdd, AddObject, Wrote, Added, Sealing, Committing

LEMMA SetCommitStep == ASSUME IInv, SetCommit PROVE IInv'
<1> DEFINE t == Loaded
           s == op.id
<1>1. /\ op.pc = "set_commit" /\ op.kind = "set" /\ UNCHANGED <<kv, seals>> /\ op \in Ops
      /\ t \in Tables /\ op.tb \in Tables /\ op.label \in Labels /\ s \in Slots /\ s \in Ids
  BY LoadedFact, Consts, Zenon DEF SetCommit, IInv, TypeOK, Serving, Setting, SetPcs
<1>2. /\ op.repl /\ t.reserved = s /\ (nvm[s].seal => nvm[s].ctr # 0)
      /\ op.tb = [t EXCEPT !.slot[s] = nvm[s].ctr, !.reserved = 0]
      /\ nvm[s].label = op.label /\ nvm[s].val = op.val /\ nvm[s].once = op.once
  BY <1>1, Zenon DEF IInv, Setting
<1>3. /\ op.tb.reserved = 0 /\ op.tb.global = t.global
      /\ op.tb.slot = [t.slot EXCEPT ![s] = nvm[s].ctr]
  BY <1>1, <1>2, Zenon DEF Tables
<1>4. CASE FlashSame /\ Refuse
  BY <1>1, <1>4, CutOff, Zenon DEF Refuse, Answer
<1>5. CASE StoreTable(op.tb) /\ Go("end_stage")
  <2>1. /\ op' \in Ops /\ op'.pc = "end_stage" /\ op'.tb = op.tb /\ op'.kind = op.kind
        /\ op'.label = op.label /\ op'.once = op.once /\ op'.val = op.val /\ op'.id = op.id
    BY <1>1, <1>5, GoFact, Zenon DEF Pcs, SetPcs, Go
  <2>2. TypeOK' /\ Spent' /\ KeyWriter' /\ Loaded' = op.tb /\ nvm' = nvm /\ tbl' = op.tb
    BY <1>1, <1>3, <1>5, <2>1, StoreFact DEF Tables
  <2>3. \A u \in Slots : nvm[u].seal => Authentic(nvm[u], op.tb.slot[u])
    <3> SUFFICES ASSUME NEW u \in Slots, nvm[u].seal PROVE Authentic(nvm[u], op.tb.slot[u])
      BY Zenon
    <3>1. CASE u = s
      BY <1>1, <1>2, <1>3, <3>1 DEF Tables, Authentic
    <3>2. CASE u # s
      <4>1. op.tb.slot[u] = t.slot[u]
        BY <1>1, <1>3, <3>2, Zenon DEF Tables
      <4> QED
        BY <1>2, <3>2, <4>1, Zenon DEF IInv, FlashOK, Counted
    <3> QED
      BY <3>1, <3>2, Zenon
  <2>4. FlashOK'
    BY <1>1, <1>3, <2>2, <2>3, TableStored, Zenon
  <2>5. Serving'
    BY <1>1, <2>1, IdleFact, Zenon DEF Serving, IInv
  <2>6. Recovering' /\ Dropping'
    BY <2>1, Zenon DEF Recovering, Dropping, RmPcs
  <2>7. Setting'
    BY <1>1, <1>2, <1>3, <2>1, <2>2 DEF Setting, SetPcs
  <2> QED
    BY <2>2, <2>4, <2>5, <2>6, <2>7, Zenon DEF IInv
<1> QED
  BY <1>1, <1>4, <1>5, Zenon DEF SetCommit

-----------------------------------------------------------------------------
(* wt_hsm_vault_remove                                                     *)

Marked(s) == [op.tb EXCEPT !.reserved = DELETE_MARKER_BASE + s]

LEMMA RemoveMainStep == ASSUME IInv, RemoveMain PROVE IInv'
<1> DEFINE t == Loaded
<1>1. /\ op.pc = "main" /\ op.kind = "remove" /\ UNCHANGED <<kv, seals>> /\ op \in Ops
      /\ op.tb = t /\ t.reserved = 0 /\ nvm[Stage] = NoObj /\ t \in Tables /\ op.label \in Labels
  BY LoadedFact, Zenon DEF RemoveMain, IInv, TypeOK, Recovering, Serving
<1>2. CASE FlashSame /\ Refuse
  BY <1>1, <1>2, CutOff, Zenon DEF Refuse, Answer
<1>3. ASSUME NEW s \in Named(nvm, op.label), ~nvm[s].once, ~nvm[s].seal, FlashSame,
             op' = [op EXCEPT !.id = s, !.pc = "rm_destroy"]
      PROVE  IInv'
  <2>1. s \in Slots /\ s \in 0..N /\ nvm[s].label = op.label
    BY Consts DEF Named, Slots
  <2>2. /\ op' \in Ops /\ op'.pc = "rm_destroy" /\ op'.id = s /\ op'.tb = op.tb
        /\ op'.kind = op.kind /\ op'.label = op.label /\ op'.val = op.val
    BY <1>1, <1>3, <2>1, Zenon DEF Ops, RmPcs
  <2>3. Loaded' = t /\ nvm' = nvm
    BY <1>3, LoadedSame, Zenon DEF FlashSame
  <2>4. Serving'
    BY <1>1, <2>2, IdleFact, Zenon DEF Serving, IInv
  <2>5. Recovering' /\ Setting'
    BY <2>2, Zenon DEF Recovering, Setting, SetPcs
  <2>6. Dropping'
    BY <1>1, <1>3, <2>1, <2>2, <2>3, Zenon DEF Dropping, RmPcs
  <2> QED
    BY <1>1, <1>3, <2>2, <2>4, <2>5, <2>6, Continues, Zenon
<1>4. ASSUME NEW s \in Named(nvm, op.label), ~nvm[s].once, nvm[s].seal, StoreTable(Marked(s)),
             op' = [op EXCEPT !.id = s, !.tb = Marked(s), !.pc = "rm_destroy"]
      PROVE  IInv'
  <2>1. s \in Slots /\ s \in 0..N /\ nvm[s].label = op.label /\ N + s \notin Slots
    BY Consts DEF Named, Slots
  <2>2. /\ Marked(s) \in Tables /\ Marked(s).reserved = N + s /\ Marked(s).global = t.global
        /\ Marked(s).slot = t.slot
    <3>1. N + s \in 0..(N + N)
      BY <2>1, Consts DEF Slots
    <3> QED
      BY <1>1, <3>1, Zenon DEF Marked, DELETE_MARKER_BASE, Tables
  <2>3. /\ op' \in Ops /\ op'.pc = "rm_destroy" /\ op'.id = s /\ op'.tb = Marked(s)
        /\ op'.kind = op.kind /\ op'.label = op.label /\ op'.val = op.val
    BY <1>1, <1>4, <2>1, <2>2, Zenon DEF Ops, RmPcs
  <2>4. tbl' = Marked(s) /\ nvm' = nvm
    BY <1>4, Zenon DEF StoreTable
  <2>5. Loaded' = Marked(s)
    BY <2>2, <2>4, StoredFact, Zenon
  <2>6. Counted'
    BY <1>1, <2>1, <2>2, <2>4, <2>5, Consts DEF IInv, FlashOK, Counted, Slots
  <2>7. Replacing'
    BY <2>1, <2>2, <2>5, Zenon DEF Replacing
  <2>8. Removing'
    <3>1. Loaded'.reserved - N = s
      BY <2>1, <2>2, <2>5, Consts DEF Slots
    <3>2. nvm'[Stage] = NoObj /\ nvm'[Loaded'.reserved - N] = nvm[s]
      BY <1>1, <2>4, <3>1, Zenon
    <3> QED
      BY <1>4, <3>2, Zenon DEF Removing
  <2>9. FlashOK'
    BY <2>4, <2>6, <2>7, <2>8, Zenon DEF IInv, FlashOK, Unique
  <2>10. TypeOK'
    BY <1>1, <2>2, <2>3, <2>4, Zenon DEF IInv, TypeOK
  <2>11. Spent'
    BY <1>1, <2>2, <2>5, SpentKept DEF Tables
  <2>12. KeyWriter'
    BY <1>1, <2>4, Zenon DEF IInv, KeyWriter
  <2>13. Serving'
    BY <1>1, <2>2, <2>3, IdleFact, Zenon DEF Serving, IInv
  <2>14. Recovering' /\ Setting'
    BY <2>3, Zenon DEF Recovering, Setting, SetPcs
  <2>15. Dropping'
    BY <1>1, <1>4, <2>1, <2>2, <2>3, <2>4, <2>5, Zenon DEF Dropping, RmPcs
  <2> QED
    BY <2>9, <2>10, <2>11, <2>12, <2>13, <2>14, <2>15, Zenon DEF IInv
<1> QED
  BY <1>2, <1>3, <1>4, Zenon DEF RemoveMain, Marked

LEMMA RemoveDestroyStep == ASSUME IInv, RemoveDestroy PROVE IInv'
<1> DEFINE t == Loaded
           s == op.id
<1>1. /\ op.pc = "rm_destroy" /\ op.kind = "remove" /\ UNCHANGED <<kv, seals, tbl>> /\ op \in Ops
      /\ t \in Tables /\ op.label \in Labels /\ s \in Slots /\ s \in Ids /\ op.tb = t
      /\ nvm[s].label = op.label /\ t.reserved = IF nvm[s].seal THEN N + s ELSE 0
  BY LoadedFact, Consts, Zenon DEF RemoveDestroy, Destroy, IInv, TypeOK, Serving, Dropping, RmPcs
<1>2. Wrote(s, NoObj)
  BY Zenon DEF RemoveDestroy, Destroy, Wrote
<1>3. /\ nvm' \in [Ids -> Objects] /\ nvm'[s] = NoObj
      /\ \A j \in Ids : j # s => nvm'[j] = nvm[j]
  BY <1>1, <1>2, WroteFact, NoObjFact, Zenon DEF IInv
<1>4. FlashOK'
  <2>1. s # t.reserved /\ s # Stage
    BY <1>1, Consts DEF Slots
  <2> QED
    BY <1>1, <1>2, <2>1, Destroyed, Zenon
<1>5. KeyWriter'
  BY <1>1, <1>2, NoObjFact, Consts, KeyWriterKept, Zenon
<1>6. Loaded' = t
  BY <1>1, LoadedSame, Zenon
<1>7. Spent'
  BY <1>1, <1>6, SpentKept DEF Tables
<1>8. CASE op' = Idle
  <2>1. TypeOK'
    BY <1>1, <1>3, <1>8, IdleFact, Zenon DEF IInv, TypeOK
  <2> QED
    BY <1>4, <1>5, <1>7, <1>8, <2>1, Stops, Zenon
<1>9. CASE nvm[s].seal /\ GoWith("rm_table", Settle(t, s))
  <2>1. Settle(t, s) \in Tables
    BY <1>1, TableEdits, Zenon
  <2>2. /\ op' \in Ops /\ op'.pc = "rm_table" /\ op'.tb = Settle(t, s)
        /\ op'.kind = op.kind /\ op'.label = op.label /\ op'.val = op.val /\ op'.id = op.id
    <3>1. op' = [op EXCEPT !.pc = "rm_table", !.tb = Settle(t, s)]
      BY <1>9, Zenon DEF GoWith
    <3> QED
      BY <1>1, <2>1, <3>1, GoFact, Zenon DEF Pcs, RmPcs
  <2>3. TypeOK'
    BY <1>1, <1>3, <2>2, Zenon DEF IInv, TypeOK
  <2>4. Serving'
    BY <1>1, <2>1, <2>2, IdleFact, Zenon DEF Serving, IInv
  <2>5. Recovering' /\ Setting'
    BY <2>2, Zenon DEF Recovering, Setting, SetPcs
  <2>6. \A u \in Slots : nvm'[u].label # op.label
    BY <1>1, <1>3, NoObjFact, Consts, Zenon DEF IInv, FlashOK, Unique
  <2>7. Dropping'
    BY <1>1, <1>3, <1>6, <1>9, <2>2, <2>6 DEF Dropping, RmPcs
  <2> QED
    BY <1>4, <1>5, <1>7, <2>3, <2>4, <2>5, <2>7, Zenon DEF IInv
<1> QED
  BY <1>1, <1>8, <1>9, Zenon DEF RemoveDestroy, Answer, Settle

LEMMA RemoveFailedStep == ASSUME IInv, RemoveFailed PROVE IInv'
<1> DEFINE t == Loaded
           s == op.id
           u == [t EXCEPT !.reserved = 0]
<1>1. /\ op.pc = "rm_destroy" /\ op.kind = "remove" /\ UNCHANGED <<kv, seals>> /\ op \in Ops
      /\ t \in Tables /\ op.label \in Labels /\ s \in Slots /\ s \in Ids /\ op.tb = t
      /\ nvm[s].label = op.label /\ t.reserved = IF nvm[s].seal THEN N + s ELSE 0
      /\ ~nvm[s].once /\ FlashSame
  BY LoadedFact, Consts, Zenon DEF RemoveFailed, IInv, TypeOK, Serving, Dropping, RmPcs
<1>2. CASE Refuse
  BY <1>1, <1>2, CutOff, Zenon DEF Refuse, Answer
<1>3. CASE nvm[s].seal /\ GoWith("rm_cancel", u)
  <2>1. u \in Tables
    BY <1>1, TableEdits, Zenon
  <2>2. /\ op' \in Ops /\ op'.pc = "rm_cancel" /\ op'.tb = u
        /\ op'.kind = op.kind /\ op'.label = op.label /\ op'.val = op.val /\ op'.id = op.id
    <3>1. op' = [op EXCEPT !.pc = "rm_cancel", !.tb = u]
      BY <1>3, Zenon DEF GoWith
    <3>2. "rm_cancel" \in Pcs
      BY Zenon DEF Pcs, RmPcs
    <3> HIDE DEF u
    <3> QED
      BY <1>1, <2>1, <3>1, <3>2, GoFact, Zenon
  <2>3. Loaded' = t /\ nvm' = nvm
    BY <1>1, LoadedSame, Zenon DEF FlashSame
  <2>4. Serving'
    BY <1>1, <2>1, <2>2, IdleFact, Zenon DEF Serving, IInv
  <2>5. Recovering' /\ Setting'
    BY <2>2, Zenon DEF Recovering, Setting, SetPcs
  <2>6. Dropping'
    BY <1>1, <1>3, <2>2, <2>3, Zenon DEF Dropping, RmPcs
  <2> QED
    BY <1>1, <2>2, <2>4, <2>5, <2>6, Continues, Zenon
<1> QED
  BY <1>1, <1>2, <1>3, Zenon DEF RemoveFailed

LEMMA RemoveTableStep == ASSUME IInv, RemoveTable PROVE IInv'
<1> DEFINE t == Loaded
           s == op.id
<1>1. /\ op.pc \in {"rm_table", "rm_cancel"} /\ UNCHANGED <<kv, seals>> /\ op \in Ops
      /\ t \in Tables /\ op.tb \in Tables /\ s \in Slots /\ s \in Ids
      /\ t.reserved = N + s /\ op' = Idle
  BY LoadedFact, Consts, Zenon DEF RemoveTable, IInv, TypeOK, Serving, Dropping, RmPcs, Refuse, Answer
<1>2. CASE FlashSame
  BY <1>1, <1>2, CutOff, Zenon
<1>3. CASE StoreTable(op.tb)
  <2>1. op.tb.reserved = 0 /\ op.tb.global = t.global
    <3>1. CASE op.pc = "rm_table"
      <4>1. op.tb = Settle(t, s)
        BY <3>1, Zenon DEF IInv, Dropping
      <4>2. Settle(t, s).reserved = 0 /\ Settle(t, s).global = t.global
        BY <1>1, TableEdits, Zenon
      <4> QED
        BY <4>1, <4>2, Zenon
    <3>2. CASE op.pc = "rm_cancel"
      BY <1>1, <3>2, TableEdits, Zenon DEF IInv, Dropping
    <3> QED
      BY <1>1, <3>1, <3>2, Zenon
  <2>2. TypeOK' /\ Spent' /\ KeyWriter' /\ Loaded' = op.tb /\ nvm' = nvm /\ tbl' = op.tb
    <3>1. op' \in Ops
      BY <1>1, IdleFact, Zenon
    <3> QED
      BY <1>1, <1>3, <2>1, <3>1, StoreFact DEF Tables
  <2>3. ASSUME NEW u \in Slots, nvm[u].seal PROVE Authentic(nvm[u], op.tb.slot[u])
    <3>1. u # t.reserved
      BY <1>1, Consts DEF Slots
    <3>2. Authentic(nvm[u], t.slot[u])
      BY <2>3, <3>1, Zenon DEF IInv, FlashOK, Counted
    <3>3. op.tb.slot[u] = t.slot[u]
      <4>1. CASE op.pc = "rm_table"
        <5>1. op.tb = Settle(t, s) /\ nvm[s] = NoObj
          BY <4>1, Zenon DEF IInv, Dropping
        <5>2. op.tb.slot = [t.slot EXCEPT ![s] = 0]
          <6>1. Settle(t, s).slot = [t.slot EXCEPT ![s] = 0]
            BY <1>1, TableEdits, Zenon
          <6> QED
            BY <5>1, <6>1, Zenon
        <5>3. u # s
          BY <2>3, <5>1, NoObjFact, Zenon
        <5> QED
          BY <1>1, <5>2, <5>3, Zenon DEF Tables
      <4>2. CASE op.pc = "rm_cancel"
        BY <1>1, <4>2, TableEdits, Zenon DEF IInv, Dropping
      <4> QED
        BY <1>1, <4>1, <4>2, Zenon
    <3> QED
      BY <3>2, <3>3, Zenon
  <2>4. FlashOK'
    BY <1>1, <2>1, <2>2, <2>3, TableStored, Zenon
  <2> QED
    BY <1>1, <2>2, <2>4, Stops, Zenon
<1> QED
  BY <1>2, <1>3, Zenon DEF RemoveTable

-----------------------------------------------------------------------------
(* The key writer.                                                         *)

Key(k) == Object(k, TRUE, FALSE, FALSE, "key", 0)

LEMMA KeyFact ==
  ASSUME NEW k \in KeyLabels
  PROVE  /\ Key(k) \in Objects /\ Whole(Key(k)) /\ Key(k).label = k /\ Key(k).key = TRUE
         /\ Key(k).seal = FALSE /\ Key(k).once = FALSE
<1>1. /\ Key(k).label = k /\ Key(k).key = TRUE /\ Key(k).seal = FALSE /\ Key(k).once = FALSE
      /\ Key(k).ro = FALSE
  BY Zenon DEF Key, Object
<1>2. Key(k) \in Objects
  BY Zenon DEF Key, Object, Objects, Names
<1>3. Whole(Key(k))
  BY <1>1, Consts, Zenon DEF Whole
<1> QED
  BY <1>1, <1>2, <1>3, Zenon

\* wt_hsm_kv_store and wt_hsm_keyvault_destroy, the look-up.
LEMMA KeyLookupStep ==
  ASSUME IInv, NEW k \in KeyLabels, KeyLookup(k) \/ KeyFind(k) PROVE IInv'
<1>1. FlashSame /\ op' = Idle /\ seals' = seals /\ Loaded' = Loaded /\ nvm' = nvm
  BY LoadedSame, Zenon DEF KeyLookup, KeyFind, FlashSame
<1>2. /\ kv' \in [pc : {"idle", "add", "destroy"}, label : KeyLabels \cup {"none"}, id : 0..N]
      /\ KeyWriter'
  <2>1. CASE KeyLookup(k)
    <3>1. PICK s \in Slots : FirstFree(nvm, s) /\ kv' = [pc |-> "add", label |-> k, id |-> s]
      BY <2>1, Zenon DEF KeyLookup
    <3>2. nvm[s] = NoObj /\ \A u \in Slots : nvm[u].label # k
      BY <2>1, <3>1, Zenon DEF FirstFree, Free, KeyLookup, Named
    <3> QED
      BY <1>1, <3>1, <3>2, NoObjFact, Consts DEF KeyWriter, Slots
  <2>2. CASE KeyFind(k)
    <3>1. PICK s \in Slots : nvm[s].label = k /\ kv' = [pc |-> "destroy", label |-> k, id |-> s]
      BY <2>2, Zenon DEF KeyFind, Named
    <3> QED
      BY <1>1, <3>1, Consts DEF KeyWriter, Slots
  <2> QED
    BY <2>1, <2>2, Zenon
<1>3. TypeOK'
  BY <1>1, <1>2, IdleFact, Zenon DEF IInv, TypeOK, FlashSame
<1>4. FlashOK'
  BY <1>1, FlashKept, Zenon DEF IInv, FlashSame
<1>5. Spent'
  BY <1>1, Zenon DEF IInv, Spent
<1> QED
  BY <1>1, <1>2, <1>3, <1>4, <1>5, Stops, Zenon

\* The pending slot of a replacement holds a storage object.
LEMMA PendingNotKey ==
  ASSUME IInv, NEW i \in Slots, nvm[i].label \notin Labels PROVE i # Loaded.reserved
BY Zenon DEF IInv, FlashOK, Replacing

LEMMA KeyAddStep == ASSUME IInv, KeyAdd PROVE IInv'
<1> DEFINE i == kv.id
<1>1. /\ op' = Idle /\ seals' = seals /\ tbl' = tbl /\ kv' = KvIdle
      /\ kv.label \in KeyLabels /\ i \in Slots /\ i \in Ids /\ ~nvm[i].key
      /\ \A s \in Slots : nvm[s].label # kv.label
  BY Consts, Zenon DEF KeyAdd, IInv, KeyWriter
<1>2. Loaded' = Loaded /\ Loaded \in Tables
  BY <1>1, LoadedSame, LoadedFact, Zenon DEF IInv
<1>3. Spent'
  BY <1>1, <1>2, Zenon DEF IInv, Spent
<1>4. KeyWriter'
  BY <1>1, IdleFact, Zenon DEF KeyWriter
<1>5. CASE nvm' = nvm
  <2>1. TypeOK'
    BY <1>1, <1>5, IdleFact, Zenon DEF IInv, TypeOK
  <2>2. FlashOK'
    BY <1>1, <1>5, FlashKept, Zenon DEF IInv
  <2> QED
    BY <1>1, <1>3, <1>4, <2>1, <2>2, Stops, Zenon
<1>6. CASE nvm[i] = NoObj /\ Wrote(i, Key(kv.label))
  <2>1. /\ Key(kv.label) \in Objects /\ Whole(Key(kv.label)) /\ Key(kv.label).label = kv.label
        /\ Key(kv.label).seal = FALSE /\ Key(kv.label).once = FALSE
    BY <1>1, KeyFact, Zenon
  <2>2. /\ nvm' \in [Ids -> Objects] /\ nvm'[i] = Key(kv.label)
        /\ \A j \in Ids : j # i => nvm'[j] = nvm[j]
    BY <1>1, <1>6, <2>1, WroteFact, Zenon DEF IInv
  <2>3. TypeOK'
    BY <1>1, <2>2, IdleFact, Zenon DEF IInv, TypeOK
  <2>4. \A j \in Ids : Whole(nvm'[j])
    BY <2>1, <2>2, Zenon DEF IInv, FlashOK
  <2>5. Unique'
    BY <1>1, <2>1, <2>2, Consts DEF IInv, FlashOK, Unique
  <2>6. Counted'
    BY <1>1, <1>2, <2>1, <2>2, Consts, Zenon DEF IInv, FlashOK, Counted
  <2>7. i # Loaded.reserved
    BY <1>1, <1>6, NoObjFact, Consts, PendingNotKey, Zenon
  <2>8. Replacing'
    BY <1>1, <1>2, <2>2, <2>7, Consts, Zenon DEF IInv, FlashOK, Replacing
  <2>9. Removing'
    <3> SUFFICES ASSUME Loaded.reserved > N PROVE Removing'
      BY <1>2, Zenon DEF Removing
    <3>1. Loaded.reserved - N \in Slots /\ i # Stage
      BY <1>1, <1>2, Consts DEF Tables, Slots
    <3> QED
      BY <1>1, <1>2, <2>1, <2>2, <3>1, Consts, Zenon DEF IInv, FlashOK, Removing
  <2> QED
    BY <1>1, <1>3, <1>4, <2>3, <2>4, <2>5, <2>6, <2>8, <2>9, Stops, Zenon DEF FlashOK
<1> QED
  BY <1>1, <1>5, <1>6, Zenon DEF KeyAdd, Visible, Wrote, Key

LEMMA KeyDestroyStep == ASSUME IInv, KeyDestroy PROVE IInv'
<1> DEFINE i == kv.id
<1>1. /\ op' = Idle /\ seals' = seals /\ tbl' = tbl /\ kv' = KvIdle
      /\ kv.label \in KeyLabels /\ i \in Slots /\ i \in Ids /\ nvm[i].label = kv.label
  BY Consts, Zenon DEF KeyDestroy, Destroy, FlashSame, IInv, KeyWriter
<1>2. Loaded' = Loaded
  BY <1>1, LoadedSame, Zenon
<1>3. Spent'
  BY <1>1, <1>2, Zenon DEF IInv, Spent
<1>4. KeyWriter'
  BY <1>1, IdleFact, Zenon DEF KeyWriter
<1>5. CASE nvm' = nvm
  <2>1. TypeOK'
    BY <1>1, <1>5, IdleFact, Zenon DEF IInv, TypeOK
  <2>2. FlashOK'
    BY <1>1, <1>5, FlashKept, Zenon DEF IInv
  <2> QED
    BY <1>1, <1>3, <1>4, <2>1, <2>2, Stops, Zenon
<1>6. CASE Wrote(i, NoObj)
  <2>1. nvm' \in [Ids -> Objects]
    BY <1>1, <1>6, WroteFact, NoObjFact, Zenon DEF IInv
  <2>2. TypeOK'
    BY <1>1, <2>1, IdleFact, Zenon DEF IInv, TypeOK
  <2>3. i # Loaded.reserved /\ i # Stage
    BY <1>1, Consts, PendingNotKey, Zenon
  <2>4. FlashOK'
    BY <1>1, <1>6, <2>3, Destroyed, Zenon
  <2> QED
    BY <1>1, <1>3, <1>4, <2>2, <2>4, Stops, Zenon
<1> QED
  BY <1>5, <1>6, Zenon DEF KeyDestroy, Destroy, FlashSame, Wrote

-----------------------------------------------------------------------------
LEMMA NextInv == IInv /\ [Next]_vars => IInv'
<1> SUFFICES ASSUME IInv, [Next]_vars PROVE IInv'
  BY Zenon
<1>1. CASE UNCHANGED vars
  <2>1. Loaded' = Loaded
    BY <1>1, LoadedSame, Zenon DEF vars
  <2>2. FlashOK'
    BY <1>1, FlashKept, Zenon DEF IInv, vars
  <2>3. TypeOK' /\ Spent' /\ KeyWriter' /\ Serving'
    BY <1>1, <2>1, Zenon DEF IInv, vars, TypeOK, Spent, KeyWriter, Serving
  <2>4. Recovering' /\ Setting' /\ Dropping'
    BY <1>1, <2>1 DEF IInv, vars, Recovering, Setting, Dropping, Target, Unspent
  <2> QED
    BY <2>2, <2>3, <2>4, Zenon DEF IInv
<1>2. CASE \E k \in KeyLabels : KeyLookup(k) \/ KeyFind(k)
  BY <1>2, KeyLookupStep, Zenon
<1> QED
  BY <1>1, <1>2, RequestStep, RecDestroyStep, RecRestoreStep, RecLiveStep, RecTableStep,
     DestroyStageStep, GetStep, SetMainStep, SetTableStep, SetStageStep, SetAddStep,
     SetCommitStep, RemoveMainStep, RemoveDestroyStep, RemoveFailedStep, RemoveTableStep,
     CutStep, KeyAddStep, KeyDestroyStep, Zenon DEF Next

\* Every reachable state, whatever is cut off where, satisfies the invariant
\* behind wt_hsm_vault_recover: the prior object of a pending replacement is
\* staged or untouched, a marked slot holds nothing but what may go, and the
\* table has the counter of every other sealed object.
THEOREM VaultInvariance == Spec => []IInv
<1>1. Init => IInv
  BY InitInv, Zenon
<1>2. IInv /\ [Next]_vars => IInv'
  BY NextInv, Zenon
<1> QED
  BY <1>1, <1>2, PTL DEF Spec

\* wt_hsm_vault_lookup_in finds the only slot of a name, and wt_hsm_vault_set
\* never seals twice under one counter.
THEOREM DirectoryStaysOK == Spec => []DirectoryOK
<1>1. IInv => NamesUnique
  <2> SUFFICES ASSUME IInv, NEW l \in Labels \cup KeyLabels
               PROVE  \A s, u \in Named(nvm, l) : s = u
    BY Zenon DEF NamesUnique
  <2> QED
    BY Consts, Zenon DEF IInv, FlashOK, Unique, Named
<1>2. IInv => NonceOnce
  BY Zenon DEF IInv, TypeOK, Spent, NonceOnce
<1> QED
  BY <1>1, <1>2, VaultInvariance, PTL DEF DirectoryOK

\* While table.reserved names a slot, wt_hsm_vault_recover finds a copy of the
\* prior object that the committed counter authenticates.
THEOREM PriorAlwaysSurvives == Spec => []PriorSurvives
<1>1. IInv => PriorSurvives
  <2> SUFFICES ASSUME IInv, tbl.reserved \in Slots
               PROVE  \/ Authentic(nvm[Stage], tbl.slot[tbl.reserved])
                      \/ Authentic(nvm[tbl.reserved], tbl.slot[tbl.reserved])
    BY Zenon DEF PriorSurvives
  <2>1. tbl # NoTable
    BY DEF NoTable, Slots
  <2>2. Loaded = tbl
    BY <2>1, Zenon DEF Loaded
  <2> QED
    BY <2>2, Zenon DEF IInv, FlashOK, Replacing
<1> QED
  BY <1>1, VaultInvariance, PTL

\* A slot with a key is written by no step but the key writer's destroy.
KeyStays ==
  \A s \in Slots : nvm[s].key /\ nvm'[s] # nvm[s] =>
    kv.pc = "destroy" /\ kv.label = nvm[s].label

LEMMA OneWrite ==
  ASSUME IInv, NEW i \in Ids, NEW o, nvm' = [nvm EXCEPT ![i] = o],
         i \in Slots => ~nvm[i].key
  PROVE  KeyStays
BY Consts, Zenon DEF IInv, TypeOK, KeyStays

LEMMA StorageNotKey ==
  ASSUME IInv, NEW i \in Slots, nvm[i].label \in Labels \cup {"none"} PROVE ~nvm[i].key
BY SlotFact, NoObjFact, Consts DEF Whole

LEMMA NextKeysStay == IInv /\ [Next]_vars => KeyStays
<1> SUFFICES ASSUME IInv, [Next]_vars PROVE KeyStays
  BY Zenon
<1>1. CASE nvm' = nvm
  BY <1>1, Zenon DEF KeyStays
<1>2. CASE RecDestroy /\ nvm' # nvm
  <2> DEFINE s == Loaded.reserved - N
  <2>1. op.tb = Loaded /\ Loaded.reserved > N /\ Loaded \in Tables
    BY <1>2, LoadedFact, Zenon DEF IInv, Recovering, RecDestroy
  <2>2. s \in Slots /\ s \in Ids
    BY <2>1, Consts DEF Tables, Slots
  <2>3. nvm' = [nvm EXCEPT ![s] = NoObj] /\ ~ReusedByKey(nvm[s])
    BY <1>2, <2>1, Zenon DEF RecDestroy, Destroy, FlashSame, DELETE_MARKER_BASE
  <2>4. ~nvm[s].key
    BY <2>2, <2>3, SlotFact, NoObjFact, Consts, Zenon DEF Whole, ReusedByKey, Objects, Names
  <2> QED
    BY <2>2, <2>3, <2>4, OneWrite, Zenon
<1>3. CASE RecRestore /\ nvm' # nvm
  <2> DEFINE s == Loaded.reserved
  <2>1. op.tb = Loaded /\ s \in Slots /\ s \in Ids
    BY <1>3, Consts, Zenon DEF IInv, Recovering, RecRestore
  <2>2. nvm' = [nvm EXCEPT ![s] = [nvm[Stage] EXCEPT !.ro = FALSE]]
    BY <1>3, <2>1, Zenon DEF RecRestore
  <2>3. nvm[s].label \in Labels
    BY <2>1, Zenon DEF IInv, FlashOK, Replacing
  <2> QED
    BY <2>1, <2>2, <2>3, OneWrite, StorageNotKey, Zenon
<1>4. CASE RecLive /\ nvm' # nvm
  <2> DEFINE s == Loaded.reserved
  <2>1. op.tb = Loaded /\ s \in Slots /\ s \in Ids
    BY <1>4, Consts, Zenon DEF IInv, Recovering, RecLive
  <2>2. nvm' = [nvm EXCEPT ![s] = NoObj]
    BY <1>4, <2>1, Zenon DEF RecLive, Destroy, FlashSame
  <2>3. nvm[s].label \in Labels
    BY <2>1, Zenon DEF IInv, FlashOK, Replacing
  <2> QED
    BY <2>1, <2>2, <2>3, OneWrite, StorageNotKey, Zenon
<1>5. CASE DestroyStage /\ nvm' # nvm
  BY <1>5, OneWrite, Consts, Zenon DEF DestroyStage, Destroy, FlashSame
<1>6. CASE SetStage /\ nvm' # nvm
  BY <1>6, OneWrite, Consts, Zenon DEF SetStage, AddObject, FlashSame
<1>7. CASE SetAdd /\ nvm' # nvm
  <2>1. op.pc = "set_add" /\ nvm' = [nvm EXCEPT ![op.id] = Added]
    BY <1>7, Zenon DEF SetAdd, AddObject, FlashSame, Added, Sealing
  <2>2. op.id \in Slots /\ op.id \in Ids /\ nvm[op.id].label \in Labels \cup {"none"}
    BY <2>1, SetAddFact, Zenon DEF IInv, Setting, Target
  <2> QED
    BY <2>1, <2>2, OneWrite, StorageNotKey, Zenon
<1>8. CASE RemoveDestroy /\ nvm' # nvm
  <2>1. op.pc = "rm_destroy" /\ nvm' = [nvm EXCEPT ![op.id] = NoObj]
    BY <1>8, Zenon DEF RemoveDestroy, Destroy
  <2>2. op.id \in Slots /\ op.id \in Ids /\ nvm[op.id].label \in Labels
    BY <2>1, Consts, Zenon DEF IInv, Dropping, Serving, RmPcs
  <2> QED
    BY <2>1, <2>2, OneWrite, StorageNotKey, Zenon
<1>9. CASE KeyAdd /\ nvm' # nvm
  <2>1. kv.id \in Slots /\ kv.id \in Ids /\ ~nvm[kv.id].key
    BY <1>9, Consts, Zenon DEF KeyAdd, IInv, KeyWriter
  <2>2. nvm' = [nvm EXCEPT ![kv.id] = Key(kv.label)]
    BY <1>9, Zenon DEF KeyAdd, Key
  <2> QED
    BY <2>1, <2>2, OneWrite, Zenon
<1>10. CASE KeyDestroy /\ nvm' # nvm
  <2>1. /\ kv.pc = "destroy" /\ kv.id \in Slots /\ kv.id \in Ids /\ nvm[kv.id].label = kv.label
        /\ nvm' = [nvm EXCEPT ![kv.id] = NoObj]
    BY <1>10, Consts, Zenon DEF KeyDestroy, Destroy, FlashSame, IInv, KeyWriter
  <2> QED
    BY <2>1, Consts, Zenon DEF IInv, TypeOK, KeyStays
<1> QED
  BY <1>1, <1>2, <1>3, <1>4, <1>5, <1>6, <1>7, <1>8, <1>9, <1>10, Zenon
     DEF Next, vars, Set, Get, Remove, Begin, RecTable, StoreTable, GetMain, SetMain, SetTable,
         SetCommit, RemoveMain, RemoveFailed, RemoveTable, IoError, PowerLoss, KeyLookup, KeyFind,
         FlashSame

\* wt_hsm_vault_recover, _set and _remove leave every key where it is: a key
\* goes only when wt_hsm_keyvault_destroy asked for it by name.
THEOREM KeysAreKept == Spec => KeysKept
<1>1. IInv /\ [Next]_vars => [KeyStays]_vars
  BY NextKeysStay, Zenon
<1>2. Spec => [][KeyStays]_vars
  BY <1>1, VaultInvariance, PTL DEF Spec
<1> QED
  BY <1>2, Zenon DEF KeysKept, KeyStays
=============================================================================
