----------------------------- MODULE VaultStore -----------------------------
(***************************************************************************)
(* What the vault promises its clients: a map from labels to objects that  *)
(* only the request being served may change, in one step, and never once   *)
(* the object is write-once.  A request that fails, or that power loss or  *)
(* a partition fault cuts off, took effect entirely or not at all.         *)
(***************************************************************************)
CONSTANTS Labels,   \* (owner, sub_owner, uid) names of storage objects
          Values    \* what an object may hold

VARIABLES store,    \* label -> [val, once], or Absent
          req,      \* the request being served, or NoReq
          reply     \* what the last finished request was told

avars == <<store, req, reply>>

Absent == [val |-> "absent", once |-> FALSE]
NoReq == [kind |-> "none"]
Told(what, val) == [what |-> what, val |-> val]

Requests ==
  [kind : {"set"}, label : Labels, val : Values, once : BOOLEAN]
    \cup [kind : {"get", "remove"}, label : Labels]

Init ==
  /\ store = [l \in Labels |-> Absent]
  /\ req = NoReq
  /\ reply = Told("none", "none")

Begin ==
  /\ req = NoReq
  /\ req' \in Requests
  /\ UNCHANGED <<store, reply>>

\* What the request leaves in the map.
Wanted ==
  IF req.kind = "set" THEN [val |-> req.val, once |-> req.once] ELSE Absent

MayChange == req.kind \in {"set", "remove"} /\ ~store[req.label].once

Applied == [store EXCEPT ![req.label] = Wanted]

Commit ==
  /\ MayChange
  /\ store' = Applied
  /\ UNCHANGED <<req, reply>>

\* Success is told only for a request that is in effect.
Succeed ==
  /\ \/ req.kind = "get" /\ store[req.label] # Absent /\ store' = store
     \/ MayChange /\ store' = Applied
     \/ req.kind \in {"set", "remove"} /\ store[req.label] = Wanted /\ store' = store
  /\ req' = NoReq
  /\ reply' = Told("ok", IF req.kind = "get" THEN store[req.label].val ELSE "none")

\* A failure, or a cut, leaves the request done or not done.
Fail ==
  /\ req # NoReq
  /\ store' \in {store} \cup IF MayChange THEN {Applied} ELSE {}
  /\ req' = NoReq
  /\ reply' = Told("fail", "none")

Next == Begin \/ Commit \/ Succeed \/ Fail

Spec == Init /\ [][Next]_avars
=============================================================================
