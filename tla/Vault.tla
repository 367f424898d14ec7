------------------------------- MODULE Vault -------------------------------
(***************************************************************************)
(* The vault's object store: wt_hsm_vault.c over wolfHSM's flash log, the  *)
(* sealer of wt_hsm_seal.c, and the key writer of keyvault.c, which works  *)
(* in the crypto partition and reaches the same store through the door.    *)
(*                                                                         *)
(* One step is one flash write, so power loss, a vault fault or a failing  *)
(* write can fall between any two.  The vault serves one request at a time *)
(* (op); the key writer's look-up and its write are two door calls (kv),   *)
(* and storage requests may be served between them.  The flash log itself  *)
(* is external: an object is added, or a set of them destroyed with a      *)
(* compaction, entirely or not at all.                                     *)
(***************************************************************************)
EXTENDS Integers, FiniteSets

CONSTANTS N,         \* slots in the vault's id window
          Labels,    \* (owner, sub_owner, uid) of storage objects
          KeyLabels, \* the same, of key objects
          Values,    \* contents of an object
          Cap,       \* directory entries of the flash log left to the vault
          CtrMax     \* bound: sealed writes

ASSUME VaultAssumption ==
  /\ N \in Nat \ {0} /\ Cap \in Nat /\ CtrMax \in Nat
  /\ Labels \cap KeyLabels = {}
  /\ "none" \notin Labels \cup KeyLabels   \* a free slot has no name
  /\ "absent" \notin Values                \* nor a missing object contents

VARIABLES nvm,    \* the live object under each id
          tbl,    \* the persisted counter table, or NoTable
          used,   \* directory entries used up since the last compaction
          op,     \* the storage request the vault is serving
          kv,     \* the key request the crypto partition is serving
          reply,  \* what the last storage request was told
          seals   \* history: how often a counter was used as a GCM nonce

vars == <<nvm, tbl, used, op, kv, reply, seals>>

Slots == 1..N
Stage == N + 1
Ids == 1..Stage
DELETE_MARKER_BASE == N

-----------------------------------------------------------------------------
(* Objects, labels and the counter table.                                  *)

\* A label's name and flags, the NVM flags and the contents.  "ctr" is the
\* counter a sealed object was sealed under, "ro" NONMODIFIABLE and
\* NONDESTROYABLE.
Object(label, key, seal, once, val, ctr) ==
  [label |-> label, key |-> key, seal |-> seal, once |-> once, val |-> val,
   ctr |-> ctr, ro |-> once]

NoObj == Object("none", FALSE, FALSE, FALSE, "none", 0)

NoTable == [reserved |-> -1, global |-> -1, slot |-> [s \in Slots |-> 0]]

\* wt_hsm_vault_table_load: a store without a table starts with a blank one.
Loaded == IF tbl = NoTable THEN [NoTable EXCEPT !.reserved = 0, !.global = 0] ELSE tbl

Named(n, label) == {s \in Slots : n[s].label = label}
Free(n) == {s \in Slots : n[s] = NoObj}
FirstFree(n, s) == s \in Free(n) /\ \A u \in Free(n) : s <= u

\* wt_hsm_vault_read_sealed: GCM authenticates the label, the contents and
\* the counter in the nonce, and counter zero stands for none.
Authentic(o, c) == c # 0 /\ o.seal /\ o.ctr = c

-----------------------------------------------------------------------------
(* The flash log.                                                          *)

Live(n, t) ==
  Cardinality({i \in Ids : n[i] # NoObj}) + (IF t = NoTable THEN 0 ELSE 1)

\* wt_hsm_vault_reserve_in: enough entries are free, or a compaction makes them.
Reservable(k) == Cap - used >= k \/ Cap - Live(nvm, tbl) >= k
UsedAfterReserve(k) == IF Cap - used >= k THEN used ELSE Live(nvm, tbl)

\* wh_Nvm_AddObject
AddObject(id, o) ==
  /\ used < Cap
  /\ nvm' = [nvm EXCEPT ![id] = o]
  /\ used' = used + 1
  /\ UNCHANGED tbl

\* wh_Nvm_DestroyObjects: a compaction that leaves the object behind.
Destroy(id) ==
  /\ nvm' = [nvm EXCEPT ![id] = NoObj]
  /\ used' = Live(nvm', tbl)
  /\ UNCHANGED tbl

\* wt_hsm_vault_table_store
StoreTable(t) ==
  /\ Reservable(1)
  /\ tbl' = t
  /\ used' = UsedAfterReserve(1) + 1
  /\ UNCHANGED nvm

FlashSame == UNCHANGED <<nvm, tbl, used>>

-----------------------------------------------------------------------------
(* Requests.                                                               *)

Idle == [pc |-> "idle", kind |-> "none", label |-> "none", seal |-> FALSE,
         once |-> FALSE, val |-> "none", tb |-> NoTable, id |-> 0, repl |-> FALSE]
KvIdle == [pc |-> "idle", label |-> "none", id |-> 0]

Told(what, val) == [what |-> what, val |-> val]

Answer(what, val) == op' = Idle /\ reply' = Told(what, val)
Refuse == Answer("fail", "none")
Go(next) == op' = [op EXCEPT !.pc = next] /\ UNCHANGED reply
GoWith(next, tb) == op' = [op EXCEPT !.pc = next, !.tb = tb] /\ UNCHANGED reply

\* Mutant: a removal cut short is not resumed.
RecoverEntryUnmarked(tb) ==
  IF tb.reserved \notin Slots THEN IF nvm[Stage] = NoObj THEN "main" ELSE "rec_stage"
  ELSE IF Authentic(nvm[Stage], tb.slot[tb.reserved]) THEN "rec_restore"
  ELSE "rec_live"

\* Where wt_hsm_vault_recover starts.
RecoverEntry(tb) ==
  IF tb.reserved > DELETE_MARKER_BASE THEN "rec_destroy"
  ELSE IF tb.reserved = 0 THEN IF nvm[Stage] = NoObj THEN "main" ELSE "rec_stage"
  ELSE IF Authentic(nvm[Stage], tb.slot[tb.reserved]) THEN "rec_restore"
  ELSE "rec_live"

\* A request reaches the backend, which loads the table and starts recovery.
Begin(kind, label, seal, once, val) ==
  /\ op = Idle
  /\ op' = [Idle EXCEPT !.pc = RecoverEntry(Loaded), !.kind = kind,
              !.label = label, !.seal = seal, !.once = once, !.val = val,
              !.tb = Loaded]
  /\ FlashSame
  /\ UNCHANGED <<kv, reply, seals>>

\* wt_hsm_vault_set, _get and _get_info, _remove
Set == \E l \in Labels, s, o \in BOOLEAN, v \in Values :
         /\ Loaded.global < CtrMax
         /\ Begin("set", l, s, o, v)
Get == \E l \in Labels : Begin("get", l, FALSE, FALSE, "none")
Remove == \E l \in Labels : Begin("remove", l, FALSE, FALSE, "none")

-----------------------------------------------------------------------------
(* wt_hsm_vault_recover and wt_hsm_vault_recover_live                      *)

\* Mutant: a key in the slot of an interrupted removal goes with it.
ReusedByNoKey(o) == FALSE

\* Only the key writer bypasses recovery: a key that reused the slot stays.
ReusedByKey(o) == o.key /\ ~o.seal

RecDestroy ==
  LET s == op.tb.reserved - DELETE_MARKER_BASE
      done == [op.tb EXCEPT !.slot[s] = 0, !.reserved = 0]
  IN /\ op.pc = "rec_destroy"
     /\ IF nvm[s] = NoObj \/ ReusedByKey(nvm[s])
        THEN FlashSame /\ GoWith("rec_deleted", done)
        ELSE IF nvm[s].ro THEN FlashSame /\ Refuse
        ELSE Destroy(s) /\ GoWith("rec_deleted", done)
     /\ UNCHANGED <<kv, seals>>

\* The prior object goes back over the uncommitted one, write-once or not.
RecRestore ==
  LET s == op.tb.reserved
  IN /\ op.pc = "rec_restore"
     /\ IF Reservable(2)
        THEN /\ nvm' = [nvm EXCEPT ![s] = [nvm[Stage] EXCEPT !.ro = FALSE]]
             /\ used' = UsedAfterReserve(2) + 1
             /\ GoWith("rec_table", [op.tb EXCEPT !.reserved = 0])
        ELSE UNCHANGED <<nvm, used>> /\ Refuse
     /\ UNCHANGED <<tbl, kv, seals>>

RecLive ==
  LET s == op.tb.reserved
      cleared == [op.tb EXCEPT !.slot[s] = 0, !.reserved = 0]
  IN /\ op.pc = "rec_live"
     /\ IF Authentic(nvm[s], op.tb.slot[s])
        THEN FlashSame /\ GoWith("rec_table", [op.tb EXCEPT !.reserved = 0])
        ELSE /\ IF nvm[s] = NoObj THEN FlashSame ELSE Destroy(s)
             /\ GoWith("rec_table", cleared)
     /\ UNCHANGED <<kv, seals>>

RecTable ==
  /\ op.pc \in {"rec_table", "rec_deleted"}
  /\ IF Reservable(1)
     THEN /\ StoreTable(op.tb)
          /\ Go(IF op.pc = "rec_table" THEN "rec_stage" ELSE "main")
     ELSE FlashSame /\ Refuse
  /\ UNCHANGED <<kv, seals>>

\* wt_hsm_vault_destroy_stage, of recovery and at the end of a replacement.
DestroyStage ==
  /\ op.pc \in {"rec_stage", "end_stage"}
  /\ IF nvm[Stage] = NoObj THEN FlashSame ELSE Destroy(Stage)
  /\ IF op.pc = "rec_stage" THEN Go("main") ELSE Answer("ok", "none")
  /\ UNCHANGED <<kv, seals>>

-----------------------------------------------------------------------------
(* The operations proper, once the table is settled.                       *)

\* wt_hsm_vault_get: key material is never readable, and a sealed object
\* only under the counter its slot was committed with.
GetMain ==
  /\ op.pc = "main" /\ op.kind = "get"
  /\ IF Named(nvm, op.label) = {} THEN Refuse
     ELSE LET s == CHOOSE s \in Named(nvm, op.label) : TRUE
              o == nvm[s]
          IN IF o.key \/ (o.seal /\ ~Authentic(o, op.tb.slot[s]))
             THEN Refuse ELSE Answer("ok", o.val)
  /\ FlashSame
  /\ UNCHANGED <<kv, seals>>

\* Entries the set reserves before it writes anything.
SetNeeds(repl, s) ==
  IF repl THEN 4 ELSE IF op.seal \/ op.tb.slot[s] # 0 THEN 2 ELSE 1

\* Mutant: a counter per slot.
NextCounterOfSlot(tb, s, seal) == IF seal THEN tb.slot[s] + 1 ELSE tb.global

\* One counter for the whole store.
NextCounter(tb, s, seal) == tb.global + (IF seal THEN 1 ELSE 0)

\* wt_hsm_vault_set up to the reservation: the slot it will write, whether
\* the object there must be staged, and the counter it will seal under.
SetMain ==
  LET found == Named(nvm, op.label)
  IN /\ op.pc = "main" /\ op.kind = "set"
     /\ \/ /\ \E s \in found : nvm[s].key \/ nvm[s].once
           /\ Refuse /\ FlashSame
        \/ /\ found = {} /\ Free(nvm) = {}
           /\ Refuse /\ FlashSame
        \/ \E s \in Slots :
             LET repl == s \in found /\ nvm[s].seal /\ Authentic(nvm[s], op.tb.slot[s])
                 g == NextCounter(op.tb, s, op.seal)
                 bumped == [op.tb EXCEPT !.global = g]
             IN /\ IF found = {} THEN FirstFree(nvm, s)
                   ELSE s \in found /\ ~nvm[s].key /\ ~nvm[s].once
                /\ IF ~Reservable(SetNeeds(repl, s)) THEN Refuse /\ FlashSame
                   ELSE /\ used' = UsedAfterReserve(SetNeeds(repl, s))
                        /\ op' = [op EXCEPT !.id = s, !.repl = repl,
                             !.pc = IF SetNeeds(repl, s) > 1 THEN "set_table" ELSE "set_add",
                             !.tb = IF repl THEN [bumped EXCEPT !.reserved = s]
                                    ELSE [bumped EXCEPT
                                            !.slot[s] = IF op.seal THEN g ELSE 0]]
                        /\ UNCHANGED <<nvm, tbl, reply>>
     /\ UNCHANGED <<kv, seals>>

\* Mutant: the object about to be replaced is not copied.
SetTableUnstaged ==
  /\ op.pc = "set_table"
  /\ IF Reservable(1) THEN StoreTable(op.tb) /\ Go("set_add") ELSE FlashSame /\ Refuse
  /\ UNCHANGED <<kv, seals>>

\* The bumped counter is persisted before any ciphertext exists.
SetTable ==
  /\ op.pc = "set_table"
  /\ IF Reservable(1)
     THEN StoreTable(op.tb) /\ Go(IF op.repl THEN "set_stage" ELSE "set_add")
     ELSE FlashSame /\ Refuse
  /\ UNCHANGED <<kv, seals>>

\* A copy of the sealed object about to be replaced.
SetStage ==
  /\ op.pc = "set_stage"
  /\ IF used < Cap
     THEN AddObject(Stage, [nvm[op.id] EXCEPT !.ro = FALSE]) /\ Go("set_add")
     ELSE FlashSame /\ Refuse
  /\ UNCHANGED <<kv, seals>>

\* Seal under the new counter and add, unless the live object forbids it.
SetAdd ==
  LET c == IF op.seal THEN op.tb.global ELSE 0
      o == Object(op.label, FALSE, op.seal, op.once, op.val, c)
  IN /\ op.pc = "set_add"
     /\ IF nvm[op.id].ro \/ used = Cap THEN FlashSame /\ Refuse
        ELSE /\ AddObject(op.id, o)
             /\ IF op.repl
                THEN GoWith("set_commit", [op.tb EXCEPT !.slot[op.id] = c, !.reserved = 0])
                ELSE Answer("ok", "none")
     /\ seals' = IF op.seal THEN [seals EXCEPT ![c] = @ + 1] ELSE seals
     /\ UNCHANGED kv

\* The replacement is committed with its counter.
SetCommit ==
  /\ op.pc = "set_commit"
  /\ IF Reservable(1) THEN StoreTable(op.tb) /\ Go("end_stage") ELSE FlashSame /\ Refuse
  /\ UNCHANGED <<kv, seals>>

\* wt_hsm_vault_remove up to its first write: a sealed object is marked first.
RemoveMain ==
  /\ op.pc = "main" /\ op.kind = "remove"
  /\ \/ /\ \A s \in Named(nvm, op.label) : nvm[s].key \/ nvm[s].once
        /\ FlashSame /\ Refuse
     \/ \E s \in Named(nvm, op.label) :
          /\ ~nvm[s].key /\ ~nvm[s].once
          /\ IF ~nvm[s].seal
             THEN /\ op' = [op EXCEPT !.id = s, !.pc = "rm_destroy"]
                  /\ FlashSame /\ UNCHANGED reply
             ELSE LET marked == [op.tb EXCEPT !.reserved = DELETE_MARKER_BASE + s]
                  IN IF Reservable(1)
                     THEN /\ StoreTable(marked)
                          /\ op' = [op EXCEPT !.id = s, !.tb = marked, !.pc = "rm_destroy"]
                          /\ UNCHANGED reply
                     ELSE FlashSame /\ Refuse
  /\ UNCHANGED <<kv, seals>>

RemoveDestroy ==
  LET s == op.id
  IN /\ op.pc = "rm_destroy"
     /\ ~nvm[s].ro
     /\ Destroy(s)
     /\ IF nvm[s].seal
        THEN GoWith("rm_table", [op.tb EXCEPT !.slot[s] = 0, !.reserved = 0])
        ELSE Answer("ok", "none")
     /\ UNCHANGED <<kv, seals>>

\* The destroy failed: a sealed object that survived intact is kept.
RemoveFailed ==
  /\ op.pc = "rm_destroy"
  /\ FlashSame
  /\ IF nvm[op.id].seal /\ Authentic(nvm[op.id], op.tb.slot[op.id])
     THEN GoWith("rm_cancel", [op.tb EXCEPT !.reserved = 0])
     ELSE Refuse
  /\ UNCHANGED <<kv, seals>>

RemoveTable ==
  /\ op.pc \in {"rm_table", "rm_cancel"}
  /\ IF Reservable(1)
     THEN StoreTable(op.tb) /\ Answer(IF op.pc = "rm_table" THEN "ok" ELSE "fail", "none")
     ELSE FlashSame /\ Refuse
  /\ UNCHANGED <<kv, seals>>

-----------------------------------------------------------------------------
(* Faults.                                                                 *)

\* Any wolfHSM call may fail; every path of the backend then returns.
IoError ==
  /\ op # Idle
  /\ FlashSame
  /\ Refuse
  /\ UNCHANGED <<kv, seals>>

\* Power loss, or a fault of the vault partition: RAM is gone.
PowerLoss ==
  /\ op # Idle \/ kv # KvIdle
  /\ op' = Idle /\ kv' = KvIdle
  /\ reply' = IF op # Idle THEN Told("fail", "none") ELSE reply
  /\ FlashSame
  /\ UNCHANGED seals

-----------------------------------------------------------------------------
(* The key writer, through the keystore door (the vault is idle meanwhile). *)

\* wt_hsm_kv_store looks for the name and for a free id.
KeyLookup(k) ==
  /\ op = Idle /\ kv = KvIdle
  /\ Named(nvm, k) = {}
  /\ \E s \in Slots : FirstFree(nvm, s) /\ kv' = [pc |-> "add", label |-> k, id |-> s]
  /\ FlashSame
  /\ UNCHANGED <<op, reply, seals>>

\* wt_hsm_vault_nvm_visible: the door shows keys and free slots only.
Visible(id) == nvm[id] = NoObj \/ nvm[id].key

\* wt_hsm_vault_nvm_add_object, one entry kept for a later counter table.
KeyAdd ==
  /\ op = Idle /\ kv.pc = "add"
  /\ IF Visible(kv.id) /\ Reservable(2)
     THEN /\ nvm' = [nvm EXCEPT ![kv.id] =
                       Object(kv.label, TRUE, FALSE, FALSE, "key", 0)]
          /\ used' = UsedAfterReserve(2) + 1
     ELSE UNCHANGED <<nvm, used>>
  /\ kv' = KvIdle
  /\ UNCHANGED <<tbl, op, reply, seals>>

\* wt_hsm_keyvault_destroy looks the key up, then asks the door.
KeyFind(k) ==
  /\ op = Idle /\ kv = KvIdle
  /\ \E s \in Named(nvm, k) : kv' = [pc |-> "destroy", label |-> k, id |-> s]
  /\ FlashSame
  /\ UNCHANGED <<op, reply, seals>>

\* wt_hsm_vault_nvm_destroy
KeyDestroy ==
  /\ op = Idle /\ kv.pc = "destroy"
  /\ IF Visible(kv.id) /\ nvm[kv.id] # NoObj /\ ~nvm[kv.id].ro
     THEN Destroy(kv.id) ELSE FlashSame
  /\ kv' = KvIdle
  /\ UNCHANGED <<op, reply, seals>>

-----------------------------------------------------------------------------
Init ==
  /\ nvm = [i \in Ids |-> NoObj]
  /\ tbl = NoTable
  /\ used = 0
  /\ op = Idle
  /\ kv = KvIdle
  /\ reply = Told("none", "none")
  /\ seals = [c \in 1..CtrMax |-> 0]

Next ==
  \/ Set \/ Get \/ Remove
  \/ RecDestroy \/ RecRestore \/ RecLive \/ RecTable \/ DestroyStage
  \/ GetMain \/ SetMain \/ SetTable \/ SetStage \/ SetAdd \/ SetCommit
  \/ RemoveMain \/ RemoveDestroy \/ RemoveFailed \/ RemoveTable
  \/ IoError \/ PowerLoss
  \/ KeyAdd \/ KeyDestroy
  \/ \E k \in KeyLabels : KeyLookup(k) \/ KeyFind(k)

Spec == Init /\ [][Next]_vars

-----------------------------------------------------------------------------
(* What the store holds, as the next request will find it.                 *)

\* The live object of a slot as a get would show it under table t.
Shown(n, t, label) ==
  LET ss == Named(n, label)
      s == CHOOSE s \in ss : TRUE
  IN IF ss = {} THEN [val |-> "absent", once |-> FALSE]
     ELSE IF n[s].seal /\ ~Authentic(n[s], t.slot[s])
     THEN [val |-> "unreadable", once |-> n[s].once]
     ELSE [val |-> n[s].val, once |-> n[s].once]

\* What recovery would make of the store if it ran now, undisturbed.
Recovered ==
  LET t == Loaded
      r == t.reserved
      d == r - DELETE_MARKER_BASE
  IN CASE r = 0 -> [n |-> nvm, t |-> t]
       [] r > DELETE_MARKER_BASE ->
            [n |-> IF ReusedByKey(nvm[d]) THEN nvm ELSE [nvm EXCEPT ![d] = NoObj],
             t |-> [t EXCEPT !.slot[d] = 0]]
       [] OTHER ->
            IF Authentic(nvm[Stage], t.slot[r])
            THEN [n |-> [nvm EXCEPT ![r] = nvm[Stage]], t |-> t]
            ELSE IF Authentic(nvm[r], t.slot[r]) THEN [n |-> nvm, t |-> t]
            ELSE [n |-> [nvm EXCEPT ![r] = NoObj], t |-> [t EXCEPT !.slot[r] = 0]]

\* A remove that may still be cancelled has not taken effect yet.
Settled(label) ==
  IF op.pc \in {"rm_destroy", "rm_cancel"} /\ op.label = label
  THEN Shown(nvm, op.tb, label)
  ELSE Shown(Recovered.n, Recovered.t, label)

Asked ==
  IF op = Idle THEN [kind |-> "none"]
  ELSE IF op.kind = "set"
  THEN [kind |-> "set", label |-> op.label, val |-> op.val, once |-> op.once]
  ELSE [kind |-> op.kind, label |-> op.label]

Abs == INSTANCE VaultStore WITH store <- [l \in Labels |-> Settled(l)],
                                req <- Asked, reply <- reply

\* The vault is a map that changes only by the request being served, at once
\* and never for a write-once object: whatever power loss, vault fault or
\* failing flash write cuts a set, a remove or a recovery short
\* (wt_hsm_vault_set, _remove, _recover), the next request finds the object
\* as it was or as it was to be, and a get returns what the map holds.
AbsSpec == Abs!Spec

\* "persisted BEFORE the sealed object, so a power loss can never make a GCM
\* nonce repeat": wt_hsm_vault_set seals at most once under any counter.
NonceOnce == \A c \in DOMAIN seals : seals[c] <= 1

\* While a replacement is pending (table.reserved names a slot), a copy that
\* the committed counter authenticates survives, staged or live, so that
\* wt_hsm_vault_recover can always put the prior object back.
PriorSurvives ==
  LET r == tbl.reserved
  IN r \in Slots => \/ Authentic(nvm[Stage], tbl.slot[r])
                    \/ Authentic(nvm[r], tbl.slot[r])

\* A key leaves the store only by wt_hsm_keyvault_destroy: recovery, which
\* the key writer bypasses, "preserve[s] a key that reused the slot", and no
\* storage request overwrites one.
KeysKept ==
  [][\A s \in Slots : nvm[s].key /\ nvm'[s] # nvm[s] =>
       kv.pc = "destroy" /\ kv.label = nvm[s].label]_vars

\* The window is a directory: wt_hsm_vault_lookup_in stops at the first match,
\* so no two slots may carry one name, however the vault's requests and the
\* key writer's look-up and write interleave.
NamesUnique ==
  \A l \in Labels \cup KeyLabels : \A s, u \in Named(nvm, l) : s = u

\* The directory the vault keeps in flash stays sound: one object per name, one
\* sealing per counter (wt_hsm_vault_set, wt_hsm_keyvault_create).
DirectoryOK == NamesUnique /\ NonceOnce
=============================================================================
