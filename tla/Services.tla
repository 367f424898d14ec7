------------------------------ MODULE Services ------------------------------
(***************************************************************************)
(* The request path of the platform services: guests ask the storage,      *)
(* crypto and attestation partitions, storage and crypto work on the vault *)
(* over Secure Partition IPC, and attestation works on crypto.             *)
(*                                                                         *)
(* Storage connects to the vault for one request (storage_service.c); the  *)
(* crypto partition's NVM client and the attestation signer keep their     *)
(* connection between requests and are told when its server restarted      *)
(* (nvm_client.c, initial_attestation.c).  Any partition may fault while   *)
(* it runs; recovery then fails what it was serving, drops the connections *)
(* to it, frees the ones it held and starts it afresh (spm_gate_core.c).   *)
(*                                                                         *)
(* Partitions are coroutines: one runs from a wake-up to its next blocking *)
(* call without another running in between, so that is one step.  The      *)
(* FF-M bookkeeping is module Ffm's and the vault's flash work is module   *)
(* Vault's; here a message is sent, done or failed, and a vault request    *)
(* takes effect at one point of its service.                               *)
(***************************************************************************)
EXTENDS Naturals, Sequences, FiniteSets

CONSTANTS Guests,    \* Non-secure clients
          Asks,      \* the <<partition, operation>> pairs each guest uses
          MaxConns,  \* connection slots left to the Secure Partitions
          MaxFaults  \* bound: faults

VARIABLES guest,     \* what each guest waits for, and what it last saw
          todo,      \* the calls on its server the request still needs
          pc,        \* the call each client partition is blocked in
          msg,       \* how the message of that call stands
          link,      \* the connection that message is on
          res,       \* how the request stands so far
          handle,    \* the connection each client partition remembers
          restarted, \* vault_restarted, g_attest_hsm_restarted
          ready,     \* g_attest_ready
          conn,      \* the SPM's connections between partitions
          inbox,     \* messages for each partition, the one it serves first
          store,     \* storage objects: whose contents each client finds
          keys,      \* key objects, the same
          vault,     \* the reply the vault's request came to
          faults     \* faults so far, for the bound MaxFaults

vars == <<guest, todo, pc, msg, link, res, handle, restarted, ready, conn,
          inbox, store, keys, vault, faults>>

Clients == {"st", "cr", "at"}
Partitions == Clients \cup {"va"}
Server(p) == IF p = "at" THEN "cr" ELSE "va"

\* wt_nvm_client_t and the attestation signer cache their connection.
Caching == {"cr", "at"}

NoOne == "noone"
Conns == 1..MaxConns
NoConn == [owner |-> NoOne, st |-> "free"]
Owned(p) == {c \in Conns : conn[c].owner = p}

\* The client a partition serves.
Job(p) == Head(inbox[p])
Popped(p) == [inbox EXCEPT ![p] = Tail(@)]

-----------------------------------------------------------------------------
(* What a request needs of the server.                                     *)

StorageOps == {"set", "set_flags", "get", "get_info", "remove", "get_support", "create",
               "set_extended", "malformed"}

\* wt_storage_service_call: requests that do not parse or bring too small an
\* out-vector ("malformed", get_info's included), and the optional Protected
\* Storage operations, go no further.
StorageRefuses(op) == op \in {"malformed", "create", "set_extended"}
StorageCalls(op) ==
  IF StorageRefuses(op) \/ op = "get_support" THEN <<>> ELSE <<op>>

\* wt_storage_service_call, connected: flags the frontend does not offer.
FlagsRefused(call) == call = "set_flags"

\* wt_hsm_key_generate and _import: wt_hsm_kv_store wants a free id for a
\* name not in use (the directory scan stands for one metadata call).
NewKeyCalls == <<"metadata", "available", "add">>

\* wt_hsm_key_sign, _verify, _encrypt, _decrypt and _export_public load the
\* key object, work on it and forget it.
UseKeyCalls == <<"metadata", "read">>

\* wt_hsm_keyvault_destroy
DestroyKeyCalls == <<"metadata", "destroy">>

\* wt_native_submit: the operation the wire header asks for.
NewKeyOps == {"generate", "import"}
MutatingOps == NewKeyOps \cup {"destroy"}
KeyOps == MutatingOps \cup {"export_public", "sign", "verify", "encrypt", "decrypt",
                            "random", "hash"}
KeyCalls(op) ==
  CASE op \in NewKeyOps -> NewKeyCalls
    [] op = "destroy" -> DestroyKeyCalls
    [] op \in {"random", "hash", "malformed"} -> <<>>
    [] OTHER -> UseKeyCalls

\* wt_attest_prepare fetches the public key once.
Prepared == IF ready THEN <<>> ELSE <<"public_key">>

AttestOps == {"token", "token_size", "iak", "malformed"}

\* wt_initial_attest_get_token, _get_token_size, _get_iak_public_key
AttestCalls(op) ==
  Prepared \o
  CASE op = "token" -> <<"sign">>
    [] op = "iak" -> <<"public_key">>
    [] OTHER -> <<>>

\* wt_hsm_relay_dispatch: the ordinary wire is the guests', the attestation
\* operations (wt_hsm_relay_attest_call) are the attestation partition's.
RelayCalls(c) == IF c \in Guests THEN KeyCalls(guest[c].op) ELSE UseKeyCalls

CallsFor(p, c) ==
  CASE p = "st" -> StorageCalls(guest[c].op)
    [] p = "cr" -> RelayCalls(c)
    [] p = "at" -> AttestCalls(guest[c].op)

Refused(p, c) ==
  c \in Guests /\ (guest[c].op = "malformed" \/ (p = "st" /\ StorageRefuses(guest[c].op)))

\* What guests may ask of each partition; a guest is no partition.
RequestsOf(p) ==
  IF p = "st" THEN StorageOps
  ELSE IF p = "cr" THEN KeyOps \cup {"malformed"} ELSE AttestOps

ASSUME ServicesAssumption ==
  /\ Guests \cap (Partitions \cup {NoOne}) = {}
  /\ \A g \in Guests : \A a \in Asks[g] : a[1] \in Clients /\ a[2] \in RequestsOf(a[1])
  /\ MaxConns \in Nat

\* Whether a call that came back so lets the job go on: a new key wants an
\* id that is not there, everything else one that is.
GoesOn(p, c, call, how) ==
  IF p = "cr" /\ call = "metadata" /\ c \in Guests /\ guest[c].op \in NewKeyOps
  THEN how = "no" ELSE how = "ok"

-----------------------------------------------------------------------------
(* The SPM: wt_ffm_connect_begin, _call_begin, _close_begin, _finish.      *)

Got(how, whose) == [how |-> how, whose |-> whose]
NoMsg == Got("none", NoOne)
Sent == Got("sent", NoOne)
Failed == Got("fail", NoOne)  \* PSA_ERROR_COMMUNICATION_FAILURE, from the SPM
Error == Got("err", NoOne)    \* a service's own answer that it failed

Send(p, kind, c) ==
  /\ pc' = [pc EXCEPT ![p] = kind]
  /\ msg' = [msg EXCEPT ![p] = Sent]
  /\ link' = [link EXCEPT ![p] = c]
  /\ inbox' = [inbox EXCEPT ![Server(p)] = Append(@, p)]
  /\ UNCHANGED guest

\* A call on a connection that is not idle is a programmer error, and the
\* gate panics the partition (WT_SPM_OP_CALL in wt_spm_gate_held).
Call(p, h, cn) ==
  IF cn[h].owner = p /\ cn[h].st = "idle"
  THEN conn' = [cn EXCEPT ![h].st = "busy"] /\ Send(p, "call", h)
  ELSE /\ conn' = cn
       /\ pc' = [pc EXCEPT ![p] = "dead"]
       /\ UNCHANGED <<msg, link, inbox, guest>>

Close(p, kind, h, cn) ==
  conn' = [cn EXCEPT ![h].st = "closing"] /\ Send(p, kind, h)

\* psa_reply, as client c sees it.
Deliver(c, r, cn, m) ==
  IF c \in Guests
  THEN /\ guest' = [guest EXCEPT ![c].to = NoOne, ![c].said = r.how, ![c].saw = r.whose]
       /\ conn' = cn /\ msg' = m
  ELSE /\ msg' = [m EXCEPT ![c] = r]
       /\ conn' = IF pc[c] = "close" \/ pc[c] = "reclose" THEN cn
                  ELSE [cn EXCEPT ![link[c]].st = "idle"]
       /\ UNCHANGED guest

-----------------------------------------------------------------------------
(* A client partition, from a wake-up to its next blocking call.           *)

\* wt_storage_service_dispatch, wt_hsm_relay_dispatch and
\* wt_attestation_service_dispatch reply and wait for the next message.
Finish(p, c, r, cn) ==
  /\ Deliver(c, r, cn, [msg EXCEPT ![p] = NoMsg])
  /\ inbox' = Popped(p)
  /\ pc' = [pc EXCEPT ![p] = "wait"]
  /\ link' = [link EXCEPT ![p] = 0]
  /\ res' = [res EXCEPT ![p] = NoMsg]

\* wt_nvm_client_connect and wt_attest_hsm_call look at the restart flag
\* first; wt_storage_vault_handle connects for each request, and
\* wt_storage_vault_close ends it.
Continue(p, c, h, stale, td, r, cn) ==
  LET more == td # <<>>
      reclose == more /\ stale /\ h # 0
      free == {x \in Conns : cn[x] = NoConn}
  IN /\ todo' = [todo EXCEPT ![p] = td]
     /\ handle' = [handle EXCEPT ![p] = h]
     /\ restarted' = [q \in Caching |-> IF q = p THEN stale /\ (h # 0 \/ ~more)
                                        ELSE restarted[q]]
     /\ \/ ~more /\ ~(p = "st" /\ h # 0) /\ Finish(p, c, r, cn)
        \/ more /\ h = 0 /\ free = {} /\ Finish(p, c, Error, cn)
        \/ /\ \/ reclose /\ Close(p, "reclose", h, cn)
              \/ /\ more /\ h = 0
                 /\ \E x \in free :
                      /\ \A y \in free : x <= y
                      /\ conn' = [cn EXCEPT ![x] = [owner |-> p, st |-> "connecting"]]
                      /\ Send(p, "connect", x)
              \/ more /\ h # 0 /\ ~reclose /\ Call(p, h, cn)
              \/ ~more /\ p = "st" /\ h # 0 /\ Close(p, "close", h, cn)
           /\ res' = [res EXCEPT ![p] = r]

Stale(p) == p \in Caching /\ restarted[p]

\* A message arrives: a connection is accepted or let go of at once, and a
\* request starts.
Take(p) ==
  LET c == Job(p)
      first == Got(IF Refused(p, c) THEN "no" ELSE "ok", NoOne)
  IN /\ pc[p] = "wait" /\ inbox[p] # <<>>
     /\ IF c \notin Guests /\ pc[c] # "call"
        THEN /\ Deliver(c, Got("ok", NoOne), conn, msg)
             /\ inbox' = Popped(p)
             /\ UNCHANGED <<todo, pc, link, res, handle, restarted>>
        ELSE Continue(p, c, handle[p], Stale(p),
                      IF Refused(p, c) THEN <<>> ELSE CallsFor(p, c), first, conn)
     /\ UNCHANGED <<ready, store, keys, vault, faults>>

\* wt_storage_service_dispatch, wt_hsm_relay_dispatch and
\* wt_attestation_service_dispatch
TakeStorage == Take("st")
TakeRelay == Take("cr")
TakeAttest == Take("at")

Done(p) == msg[p].how \notin {"none", "sent"}
Released(p) == [conn EXCEPT ![link[p]] = NoConn]

\* wt_ffm_connect_finish, and straight on to the call.
Connected(p) ==
  /\ pc[p] = "connect" /\ Done(p)
  /\ IF msg[p].how # "ok"
     THEN Continue(p, Job(p), 0, Stale(p), <<>>, Error, Released(p))
     ELSE IF FlagsRefused(Head(todo[p]))
     THEN Continue(p, Job(p), link[p], Stale(p), <<>>, Got("no", NoOne), conn)
     ELSE /\ handle' = [handle EXCEPT ![p] = link[p]]
          /\ Call(p, link[p], conn)
          /\ UNCHANGED <<todo, res, restarted>>
  /\ UNCHANGED <<ready, store, keys, vault, faults>>

\* What the job is worth once its call is answered.  A token is about the
\* guest that asked for it (wt_attest_build_claims).
Outcome(p, on) ==
  IF on THEN Got("ok", IF p = "at" THEN Job(p) ELSE msg[p].whose)
  ELSE IF msg[p].how = "no" THEN Got("no", NoOne) ELSE Error

\* wt_nvm_client_call: a request the vault faulted under "is not replayed,
\* and the dropped connection is closed now"; so does wt_attest_hsm_call.
Dropped(p) ==
  /\ Close(p, "close", handle[p], conn)
  /\ todo' = [todo EXCEPT ![p] = <<>>]
  /\ res' = [res EXCEPT ![p] = Error]
  /\ UNCHANGED <<handle, restarted>>

\* A call with the answer in hand.
Called(p) ==
  LET call == Head(todo[p])
      on == GoesOn(p, Job(p), call, msg[p].how)
  IN /\ pc[p] = "call" /\ Done(p)
     /\ IF msg[p].how = "fail" /\ p \in Caching THEN Dropped(p)
        ELSE Continue(p, Job(p), handle[p], Stale(p),
                      IF on THEN Tail(todo[p]) ELSE <<>>, Outcome(p, on), conn)
     /\ ready' = (ready \/ (p = "at" /\ call = "public_key" /\ on))
     /\ UNCHANGED <<store, keys, vault, faults>>

\* wt_storage_vault_call, wt_nvm_client_call and wt_attest_hsm_call
StorageCalled == Called("st")
DoorCalled == Called("cr")
AttestCalled == Called("at")

\* wt_ffm_close_finish; the flag goes with the connection.
Closed(p) ==
  /\ pc[p] \in {"close", "reclose"} /\ Done(p)
  /\ Continue(p, Job(p), 0, FALSE, todo[p], res[p], Released(p))
  /\ UNCHANGED <<ready, store, keys, vault, faults>>

-----------------------------------------------------------------------------
(* The vault: wt_vault_service_dispatch                                    *)

VaultConnection ==
  LET c == Job("va")
  IN /\ pc["va"] = "wait" /\ inbox["va"] # <<>>
     /\ pc[c] # "call"
     /\ inbox' = Popped("va")
     /\ Deliver(c, Got("ok", NoOne), conn, msg)
     /\ UNCHANGED <<todo, pc, link, res, handle, restarted, ready, store, keys,
                    vault, faults>>

\* Mutant: every end client shares one sub_owner.
SubOwnerShared(c) == CHOOSE g \in Guests : TRUE

\* wt_storage_service_call and wt_native_submit pass the SPM-stamped client
\* on as the sub_owner that names the object.
SubOwner(c) == Job(c)

Applied(c, yes) ==
  guest' = IF yes /\ c \in Guests THEN [guest EXCEPT ![c].applied = @ + 1] ELSE guest

\* wt_vault_service_serve over the backend: the storage operations.
ServeSet(sub) ==
  /\ store' = [store EXCEPT ![sub] = Job("st")]
  /\ vault' = Got("ok", NoOne)
  /\ Applied(Job("st"), TRUE)

ServeGet(sub) ==
  /\ vault' = IF store[sub] = NoOne THEN Got("no", NoOne) ELSE Got("ok", store[sub])
  /\ UNCHANGED <<store, guest>>

ServeRemove(sub) ==
  /\ vault' = Got(IF store[sub] = NoOne THEN "no" ELSE "ok", NoOne)
  /\ Applied(Job("st"), store[sub] # NoOne)
  /\ store' = [store EXCEPT ![sub] = NoOne]

ServeStorage(sub, call) ==
  /\ UNCHANGED keys
  /\ \/ call = "set" /\ ServeSet(sub)
     \/ call \in {"get", "get_info"} /\ ServeGet(sub)
     \/ call = "remove" /\ ServeRemove(sub)

\* wt_vault_nvm_serve: the keystore client's object door.
ServeDoor(sub, call) ==
  /\ UNCHANGED store
  /\ \/ /\ call \in {"metadata", "read"}
        /\ vault' = IF keys[sub] = NoOne THEN Got("no", NoOne) ELSE Got("ok", keys[sub])
        /\ UNCHANGED <<keys, guest>>
     \/ call = "available" /\ vault' = Got("ok", NoOne) /\ UNCHANGED <<keys, guest>>
     \/ /\ call = "add"
        /\ keys' = [keys EXCEPT ![sub] = Job("cr")]
        /\ vault' = Got("ok", NoOne) /\ Applied(Job("cr"), TRUE)
     \/ /\ call = "destroy"
        /\ keys' = [keys EXCEPT ![sub] = NoOne]
        /\ vault' = Got("ok", NoOne) /\ Applied(Job("cr"), keys[sub] # NoOne)

VaultServe ==
  LET c == Job("va")
  IN /\ pc["va"] = "wait" /\ inbox["va"] # <<>> /\ vault = NoMsg
     /\ pc[c] = "call"
     /\ IF c = "st" THEN ServeStorage(SubOwner(c), Head(todo[c]))
        ELSE ServeDoor(SubOwner(c), Head(todo[c]))
     /\ UNCHANGED <<todo, pc, msg, link, res, handle, restarted, ready, conn,
                    inbox, faults>>

VaultReply ==
  /\ pc["va"] = "wait" /\ vault # NoMsg
  /\ Deliver(Job("va"), vault, conn, msg)
  /\ inbox' = Popped("va")
  /\ vault' = NoMsg
  /\ UNCHANGED <<todo, pc, link, res, handle, restarted, ready, store, keys,
                 faults>>

-----------------------------------------------------------------------------
(* Faults and recovery.                                                    *)

Runnable(p) ==
  pc[p] # "dead" /\ (IF pc[p] = "wait" THEN inbox[p] # <<>> ELSE Done(p))

\* wt_spm_sp_fault: only a partition that runs can fault.
Fault(p) ==
  /\ faults < MaxFaults
  /\ Runnable(p)
  /\ pc' = [pc EXCEPT ![p] = "dead"]
  /\ faults' = faults + 1
  /\ UNCHANGED <<guest, todo, msg, link, res, handle, restarted, ready, conn,
                 inbox, store, keys, vault>>

\* wt_ffm_partition_restarted, as the connections see it.
AfterRestart(p, c) ==
  IF c.owner = p THEN NoConn
  ELSE IF c.owner # NoOne /\ Server(c.owner) = p THEN [c EXCEPT !.st = "error"] ELSE c

\* wt_ffm_fail_partition_messages: whose messages a restart of p fails.
FailedBy(p) == {inbox[p][i] : i \in 1..Len(inbox[p])}

\* Mutant: only the vault's client is told.
ToldVault(p, q) == p = "va" /\ q = "cr"

\* wt_spm_fault_release: the caching client of the restarted partition.
ToldOf(p, q) == q \in Caching /\ Server(q) = p

\* wt_spm_recover_faulted: wt_spm_fault_release tells the caching client of
\* the partition, then its messages fail and it starts from a clean image. The
\* restart budget, which ends in a halt, is in module SpmSched.
Recover(p) ==
  LET serving == FailedBy(p)
  IN /\ pc[p] = "dead"
     /\ guest' = [g \in Guests |-> IF g \in serving
                    THEN [guest[g] EXCEPT !.to = NoOne, !.said = "fail"] ELSE guest[g]]
     /\ msg' = [q \in Clients |-> IF q \in serving THEN Failed
                                  ELSE IF q = p THEN NoMsg ELSE msg[q]]
     /\ conn' = [c \in Conns |-> AfterRestart(p, conn[c])]
     /\ inbox' = [inbox EXCEPT ![p] = <<>>]
     /\ restarted' = [q \in Caching |-> q # p /\ (restarted[q] \/ ToldOf(p, q))]
     /\ pc' = [pc EXCEPT ![p] = "wait"]
     /\ IF p = "va" THEN vault' = NoMsg /\ UNCHANGED <<todo, link, res, handle>>
        ELSE /\ todo' = [todo EXCEPT ![p] = <<>>]
             /\ link' = [link EXCEPT ![p] = 0]
             /\ res' = [res EXCEPT ![p] = NoMsg]
             /\ handle' = [handle EXCEPT ![p] = 0]
             /\ UNCHANGED vault
     /\ ready' = (ready /\ p # "at")
     /\ UNCHANGED <<store, keys, faults>>

-----------------------------------------------------------------------------
\* A guest sends one request and waits for it (psa_storage_client.c,
\* crypto_native_client.c; its connection is module Ffm's).
SendAsk(g, p) == inbox' = [inbox EXCEPT ![p] = Append(@, g)]

\* Mutant: every lost call is made again.
MustRetryAny(g) == guest[g].said = "fail" /\ guest[g].op \in KeyOps

\* Mutant: a call that was answered with an error is made again too.
MustRetryRefused(g) ==
  guest[g].said \in {"fail", "no"} /\ guest[g].op \in KeyOps \ MutatingOps

\* wt_crypto_native_call: a call lost with the crypto partition is made
\* again, unless it may already have changed the store.
MustRetry(g) ==
  /\ guest[g].said = "fail"
  /\ guest[g].op \in KeyOps \ MutatingOps

Ask(g) ==
  /\ guest[g].to = NoOne /\ ~MustRetry(g)
  /\ \E a \in Asks[g] :
       /\ guest' = [guest EXCEPT ![g] = [to |-> a[1], op |-> a[2], applied |-> 0,
                                         said |-> "none", saw |-> NoOne]]
       /\ SendAsk(g, a[1])
  /\ UNCHANGED <<todo, pc, msg, link, res, handle, restarted, ready, conn,
                 store, keys, vault, faults>>

\* wt_crypto_native_call: the next of WT_CRYPTO_NATIVE_RETRIES attempts, more
\* than the faults the model has.
Retry(g) ==
  /\ MustRetry(g)
  /\ guest' = [guest EXCEPT ![g].to = "cr", ![g].said = "none"]
  /\ SendAsk(g, "cr")
  /\ UNCHANGED <<todo, pc, msg, link, res, handle, restarted, ready, conn,
                 store, keys, vault, faults>>

Init ==
  /\ guest = [g \in Guests |-> [to |-> NoOne, op |-> "none", applied |-> 0,
                                said |-> "none", saw |-> NoOne]]
  /\ todo = [p \in Clients |-> <<>>]
  /\ pc = [p \in Partitions |-> "wait"]
  /\ msg = [p \in Clients |-> NoMsg]
  /\ link = [p \in Clients |-> 0]
  /\ res = [p \in Clients |-> NoMsg]
  /\ handle = [p \in Clients |-> 0]
  /\ restarted = [p \in Caching |-> FALSE]
  /\ ready = FALSE
  /\ conn = [c \in Conns |-> NoConn]
  /\ inbox = [p \in Partitions |-> <<>>]
  /\ store = [g \in Guests |-> NoOne]
  /\ keys = [g \in Guests \cup {"at"} |-> IF g = "at" THEN "at" ELSE NoOne]
  /\ vault = NoMsg
  /\ faults = 0

Dispatch(p) == \/ p = "st" /\ (TakeStorage \/ StorageCalled)
               \/ p = "cr" /\ (TakeRelay \/ DoorCalled)
               \/ p = "at" /\ (TakeAttest \/ AttestCalled)
Work(p) == Dispatch(p) \/ Connected(p) \/ Closed(p)
VaultWork == VaultConnection \/ VaultServe \/ VaultReply

Next ==
  \/ \E g \in Guests : Ask(g) \/ Retry(g)
  \/ \E p \in Clients : Work(p)
  \/ VaultWork
  \/ \E p \in Partitions : Fault(p) \/ Recover(p)

Spec == Init /\ [][Next]_vars

\* A partition that can run is run, and a faulted one is recovered.
FairSpec ==
  /\ Spec
  /\ \A p \in Clients : WF_vars(Work(p))
  /\ WF_vars(VaultWork)
  /\ \A g \in Guests : WF_vars(Retry(g))
  /\ \A p \in Partitions : WF_vars(Recover(p))

-----------------------------------------------------------------------------
(* Properties                                                              *)

\* "The request is not replayed" (wt_nvm_client_call, wt_crypto_native_call):
\* whatever restarts in the middle, a request takes effect at most once, one
\* reported done did take effect, and one refused did not.
AtMostOnce ==
  \A g \in Guests :
    /\ guest[g].applied <= 1
    /\ guest[g].said = "ok" /\ guest[g].op \in MutatingOps \cup {"set", "remove"}
         => guest[g].applied = 1
    /\ guest[g].said = "no" => guest[g].applied = 0

\* A guest is shown contents stored for itself and nobody else's, through
\* the partitions' nested calls, which carry the SPM-stamped client along as
\* sub_owner, and across restarts.
OwnContents == \A g \in Guests : guest[g].saw \in {NoOne, g}

\* Between its calls a client partition knows every connection it owns, so
\* none is lost when calls fail or servers restart; storage owns one only
\* while it serves.
NoConnLost ==
  \A p \in Clients :
    pc[p] = "wait" =>
      /\ Owned(p) = IF handle[p] = 0 THEN {} ELSE {handle[p]}
      /\ p = "st" => handle[p] = 0

\* A client partition that remembers a connection its server's restart broke
\* has been told, whatever it was waiting for (wt_nvm_client_vault_restarted, wt_attest_hsm_restarted).
DeadIsFlagged ==
  \A p \in Caching :
    handle[p] # 0 /\ conn[handle[p]].st = "error" => restarted[p] \/ pc[p] = "dead"

\* Every request is answered, whichever partitions fault on the way.
Answered ==
  \A g \in Guests : guest[g].to # NoOne ~> guest[g].to = NoOne /\ ~MustRetry(g)

\* The connections a client partition keeps between its calls are known to it
\* and known to be alive or broken (nvm_client.c, wt_attest_hsm_call).
ConnsTracked == NoConnLost /\ DeadIsFlagged
=============================================================================
