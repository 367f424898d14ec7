----------------------------- MODULE FlashProofs -----------------------------
(***************************************************************************)
(* The theorems about the flash drivers: the NOR driver's agreement with   *)
(* its device for calls of any length and any number of failures, and the  *)
(* caches, the reads and the update partition of both ports for any        *)
(* geometry and any number of device errors and losses of power.           *)
(***************************************************************************)
EXTENDS Flash, XspiNor, WellFoundedInduction, TLAPS

-----------------------------------------------------------------------------
(* The NOR driver *)

Driver ==
  [pc : {"idle", "lut", "ready", "wren", "command", "done", "check", "flush"},
   op : {"none", "erase", "program"}, left : Int,
   rc : {"none", "ok", "bus", "timeout", "device"}, masked : BOOLEAN,
   page : BOOLEAN, stale : BOOLEAN, lut : {"ours", "loader"}]
Device ==
  [wel : BOOLEAN, wip : BOOLEAN, fail : BOOLEAN,
   did : {"none", "going", "done", "failed", "ignored"}]
NorTypeOK == drv \in Driver /\ die \in Device

\* What a step can come to, and where it can lead.
Codes == {"ok", "bus", "timeout", "device"}
Steps == {"ready", "wren", "command", "done", "check", "flush"}

\* The device is done with the command, and its latch says how it went.
Over == ~die.wip /\ die.did \in {"done", "failed"} /\ (die.fail <=> die.did = "failed")

(***************************************************************************)
(* The inductive invariant: what the driver has established of the device  *)
(* at each of its steps.  A step other than the flush is reached only      *)
(* without an error, so an error can be reported but never forgotten.      *)
(***************************************************************************)
NorInv ==
  /\ NorTypeOK
  /\ drv.pc \notin {"idle", "flush"} => drv.rc = "ok"
  /\ drv.pc \in {"ready", "wren", "command"} => drv.lut = "ours"
  /\ drv.pc \in {"wren", "command"} => ~die.wip
  /\ drv.pc = "command" => die.wel
  /\ drv.pc = "done" => die.wip \/ Over
  /\ drv.pc = "check" => Over
  /\ drv.pc = "flush" /\ drv.rc = "ok" => ~die.wip /\ die.did = "done"
  /\ OkMeansDone

\* What the controller can answer to a transaction.
LEMMA IpFact ==
  /\ \A t \in IpCommand \cup IpWrite :
       \E rc \in {"ok", "bus", "timeout"}, b \in BOOLEAN : t = Tx(rc, b) /\ (rc = "ok" => b)
  /\ \A rc \in ReadReg : rc \in {"ok", "bus", "timeout"}
<1> DEFINE Possible == {Tx("ok", TRUE), Tx("bus", TRUE), Tx("timeout", TRUE),
                        Tx("bus", FALSE), Tx("timeout", FALSE)}
<1>1. Started \subseteq {Tx("ok", TRUE), Tx("bus", FALSE), Tx("timeout", FALSE)}
  BY Zenon DEF Started
<1>2. Settled \subseteq {"ok", "bus", "timeout"}
  BY Zenon DEF Settled
<1>3. IpCommand \subseteq Possible
  <2>1. ASSUME NEW t \in Started, NEW c \in IF t.rc = "ok" THEN {Tx(rc, TRUE) : rc \in Settled} ELSE {t}
        PROVE  c \in Possible
    <3>1. CASE t.rc = "ok"
      BY <1>2, <2>1, <3>1, Zenon
    <3>2. CASE t.rc # "ok"
      <4>1. t # Tx("ok", TRUE)
        BY <3>2 DEF Tx
      <4> QED BY <1>1, <2>1, <3>2, <4>1, Zenon
    <3> QED BY <3>1, <3>2, Zenon
  <2> QED BY <2>1, Zenon DEF IpCommand
<1>4. IpWrite \subseteq Possible
  BY <1>3, Zenon DEF IpWrite
<1>5. \A t \in Possible :
        \E rc \in {"ok", "bus", "timeout"}, b \in BOOLEAN : t = Tx(rc, b) /\ (rc = "ok" => b)
  BY Zenon
<1>6. \A t \in Possible : t.rc \in {"ok", "bus", "timeout"}
  BY DEF Tx
<1>7. \A rc \in ReadReg : rc \in {"ok", "bus", "timeout"}
  BY <1>3, <1>6, Zenon DEF ReadReg
<1> QED BY <1>3, <1>4, <1>5, <1>7, Zenon

LEMMA DriverCalls ==
  ASSUME NEW d \in Driver, NEW call \in {"erase", "program"}, NEW n \in Int
  PROVE  [d EXCEPT !.pc = "lut", !.op = call, !.left = n, !.rc = "ok", !.masked = TRUE,
                   !.page = call = "program"] \in Driver
BY ZenonT(40) DEF Driver

LEMMA NorInitInv == NorInit => NorInv
<1> SUFFICES ASSUME NorInit PROVE NorInv
  BY Zenon
<1>1. drv.pc = "idle" /\ drv.rc = "none" /\ NorTypeOK
  BY DEF NorInit, NorTypeOK, Driver, Device
<1> QED BY <1>1, Zenon DEF NorInv, OkMeansDone

\* Where Onward leaves the driver.
LEMMA OnwardFact ==
  ASSUME drv \in Driver, NEW rc \in Codes, NEW pc \in Steps
  PROVE  /\ Onward(rc, pc) \in Driver
         /\ Onward(rc, pc).pc = IF rc = "ok" THEN pc ELSE "flush"
         /\ Onward(rc, pc).rc = rc /\ Onward(rc, pc).lut = drv.lut
<1> DEFINE to == IF rc = "ok" THEN pc ELSE "flush"
<1>1. Onward(rc, pc) = [drv EXCEPT !.rc = rc, !.pc = to]
  BY Zenon DEF Onward
<1>2. to \in Steps
  BY Zenon DEF Steps
<1> HIDE DEF to
<1>3. /\ Onward(rc, pc) \in Driver
      /\ Onward(rc, pc).pc = to /\ Onward(rc, pc).rc = rc /\ Onward(rc, pc).lut = drv.lut
  BY <1>1, <1>2, ZenonT(40) DEF Driver, Codes, Steps
<1> QED BY <1>3, Zenon DEF to

\* A step to pc keeps the invariant when it establishes what pc stands for.
LEMMA MovesOn ==
  ASSUME NEW rc \in Codes, NEW pc \in Steps,
         drv' \in Driver, die' \in Device,
         drv'.rc = rc, drv'.pc = IF rc = "ok" THEN pc ELSE "flush",
         rc = "ok" =>
           /\ pc \in {"ready", "wren", "command"} => drv'.lut = "ours"
           /\ pc \in {"wren", "command"} => ~die'.wip
           /\ pc = "command" => die'.wel
           /\ pc = "done" => die'.wip \/ Over'
           /\ pc = "check" => Over'
           /\ pc = "flush" => ~die'.wip /\ die'.did = "done"
  PROVE  NorInv'
<1>1. CASE rc = "ok"
  BY <1>1 DEF NorInv, NorTypeOK, OkMeansDone, Steps
<1>2. CASE rc # "ok"
  BY <1>2 DEF NorInv, NorTypeOK, OkMeansDone
<1> QED BY <1>1, <1>2, Zenon

LEMMA LutInstallInv == NorInv /\ LutInstall => NorInv'
<1> SUFFICES ASSUME NorInv, LutInstall PROVE NorInv'
  BY Zenon
<1>1. PICK rc \in Codes :
        drv' = [Onward(rc, "ready") EXCEPT !.lut = IF rc = "ok" THEN "ours" ELSE @]
  BY Zenon DEF LutInstall, Settled, Codes
<1> DEFINE o == Onward(rc, "ready")
           lut == IF rc = "ok" THEN "ours" ELSE o.lut
<1>a. "ready" \in Steps /\ drv \in Driver
  BY Zenon DEF Steps, NorInv, NorTypeOK
<1>2. o \in Driver /\ o.pc = (IF rc = "ok" THEN "ready" ELSE "flush") /\ o.rc = rc
  BY <1>a, OnwardFact, Zenon
<1>3. drv' = [o EXCEPT !.lut = lut]
  BY <1>1, Zenon
<1>4. lut \in {"ours", "loader"} /\ (rc = "ok" => lut = "ours")
  BY <1>2 DEF Driver
<1> HIDE DEF o, lut
<1>5. drv' \in Driver /\ drv'.pc = o.pc /\ drv'.rc = o.rc /\ drv'.lut = lut
  BY <1>2, <1>3, <1>4 DEF Driver
<1>6. die' \in Device
  BY Zenon DEF LutInstall, NorInv, NorTypeOK
<1> QED BY <1>a, <1>2, <1>4, <1>5, <1>6, MovesOn, Zenon

LEMMA WaitReadyInv ==
  ASSUME NorInv, NEW from, NEW to, WaitReady(from, to),
         <<from, to>> \in {<<"ready", "wren">>, <<"done", "check">>}
  PROVE  NorInv'
<1>1. PICK rc \in Codes : drv' = Onward(rc, to) /\ (rc = "ok" => ~die.wip)
  BY IpFact, Zenon DEF WaitReady, Codes
<1>a. "wren" \in Steps /\ "check" \in Steps
  BY Zenon DEF Steps
<1>2. drv.pc = from /\ die' = die /\ die \in Device /\ drv \in Driver
  BY Zenon DEF WaitReady, NorInv, NorTypeOK
<1>3. /\ from = "ready" /\ to = "wren" => drv.lut = "ours"
      /\ from = "done" /\ to = "check" => die.wip \/ Over
  BY <1>2, Zenon DEF NorInv
<1>4. (from = "ready" /\ to = "wren") \/ (from = "done" /\ to = "check")
  OBVIOUS
<1>5. Over' <=> Over
  BY <1>2, Zenon DEF Over
<1>6. CASE from = "ready" /\ to = "wren"
  <2>1. drv' \in Driver /\ drv'.pc = (IF rc = "ok" THEN "wren" ELSE "flush") /\ drv'.rc = rc
        /\ drv'.lut = drv.lut
    BY <1>a, <1>1, <1>2, <1>6, OnwardFact
  <2> QED BY <1>a, <1>1, <1>2, <1>3, <1>6, <2>1, MovesOn, Zenon
<1>7. CASE from = "done" /\ to = "check"
  <2>1. drv' \in Driver /\ drv'.pc = (IF rc = "ok" THEN "check" ELSE "flush") /\ drv'.rc = rc
    BY <1>a, <1>1, <1>2, <1>7, OnwardFact
  <2> QED BY <1>a, <1>1, <1>2, <1>3, <1>5, <1>7, <2>1, MovesOn, Zenon
<1> QED BY <1>4, <1>6, <1>7, Zenon

LEMMA WriteEnableInv == NorInv /\ WriteEnable => NorInv'
<1> SUFFICES ASSUME NorInv, WriteEnable PROVE NorInv'
  BY Zenon
<1>1. PICK t \in IpCommand, taken \in BOOLEAN, read \in ReadReg :
        /\ die' = DieEnabled(t, taken)
        /\ drv' = Onward(IF t.rc = "ok" THEN WelRead(read, DieEnabled(t, taken)) ELSE t.rc,
                         "command")
  BY Zenon DEF WriteEnable
<1> DEFINE d == DieEnabled(t, taken)
           rc == IF t.rc = "ok" THEN WelRead(read, d) ELSE t.rc
<1>2. drv.pc = "wren" /\ drv \in Driver /\ die \in Device /\ "command" \in Steps
  BY Zenon DEF WriteEnable, NorInv, NorTypeOK, Steps
<1>3. drv.lut = "ours" /\ ~die.wip
  BY <1>2, Zenon DEF NorInv
<1>4. d \in Device /\ d.wip = die.wip
  <2> DEFINE wel == die.wel \/ (t.sent /\ taken /\ ~die.wip)
  <2>1. d = [die EXCEPT !.wel = wel] /\ wel \in BOOLEAN
    BY Zenon DEF DieEnabled
  <2> HIDE DEF wel, d
  <2>2. PICK w \in BOOLEAN : d = [die EXCEPT !.wel = w]
    BY <2>1, Zenon
  <2> QED BY <1>2, <2>2 DEF Device
<1>5. rc \in Codes /\ (rc = "ok" => d.wel)
  <2>1. read \in {"ok", "bus", "timeout"}
    BY IpFact, Zenon
  <2>2. t.rc \in {"ok", "bus", "timeout"}
    <3>1. PICK r \in {"ok", "bus", "timeout"}, b \in BOOLEAN : t = Tx(r, b)
      BY IpFact, Zenon
    <3> QED BY <3>1 DEF Tx
  <2> HIDE DEF d
  <2> QED BY <2>1, <2>2 DEF WelRead, Codes
<1> HIDE DEF d, rc
<1>6. die' = d /\ drv' = Onward(rc, "command")
  BY <1>1, Zenon DEF d, rc
<1>7. drv' \in Driver /\ drv'.pc = (IF rc = "ok" THEN "command" ELSE "flush") /\ drv'.rc = rc
      /\ drv'.lut = drv.lut
  BY <1>2, <1>5, <1>6, OnwardFact
<1> QED BY <1>2, <1>3, <1>4, <1>5, <1>6, <1>7, MovesOn, Zenon

LEMMA CommandInv == NorInv /\ Command => NorInv'
<1> SUFFICES ASSUME NorInv, Command PROVE NorInv'
  BY Zenon
<1>1. PICK t \in IpCommand \cup IpWrite :
        /\ die' = DieTakes(t)
        /\ drv' = [Onward(t.rc, "done") EXCEPT !.stale = @ \/ DieTakes(t).wip]
  BY Zenon DEF Command
<1>2. PICK rc \in {"ok", "bus", "timeout"}, sent \in BOOLEAN :
        t = Tx(rc, sent) /\ (rc = "ok" => sent)
  BY <1>1, IpFact, Zenon
<1>3. t.rc = rc /\ t.sent = sent
  BY <1>2 DEF Tx
<1>4. drv.pc = "command" /\ drv \in Driver /\ die \in Device /\ "done" \in Steps /\ rc \in Codes
  BY Zenon DEF Command, NorInv, NorTypeOK, Steps, Codes
<1>5. ~die.wip /\ die.wel
  BY <1>4, Zenon DEF NorInv
<1>6. die' = IF sent THEN [die EXCEPT !.wip = TRUE, !.fail = FALSE, !.did = "going"] ELSE die
  BY <1>1, <1>3, <1>5, Zenon DEF DieTakes
<1>7. die' \in Device /\ (sent => die'.wip)
  <2>1. CASE sent
    BY <1>4, <1>6, <2>1, Zenon DEF Device
  <2>2. CASE ~sent
    BY <1>4, <1>6, <2>2, Zenon
  <2> QED BY <2>1, <2>2, Zenon
<1> DEFINE o == Onward(rc, "done")
<1>8. o \in Driver /\ o.pc = (IF rc = "ok" THEN "done" ELSE "flush") /\ o.rc = rc
  BY <1>4, OnwardFact, Zenon
<1>9. PICK b \in BOOLEAN : drv' = [o EXCEPT !.stale = b]
  <2>1. (o.stale \/ DieTakes(t).wip) \in BOOLEAN
    BY Zenon
  <2> QED BY <1>1, <1>3, <2>1, Zenon
<1> HIDE DEF o
<1>10. drv' \in Driver /\ drv'.pc = o.pc /\ drv'.rc = o.rc
  BY <1>8, <1>9 DEF Driver
<1> QED BY <1>2, <1>4, <1>7, <1>8, <1>10, MovesOn, Zenon

LEMMA CheckFailInv == NorInv /\ CheckFail => NorInv'
<1> SUFFICES ASSUME NorInv, CheckFail PROVE NorInv'
  BY Zenon
<1>1. PICK read \in {"ok", "bus", "timeout"} : drv' = Onward(FailRead(read), "flush")
  BY IpFact, Zenon DEF CheckFail
<1> DEFINE rc == FailRead(read)
<1>2. rc \in Codes /\ (rc = "ok" => ~die.fail)
  BY Zenon DEF FailRead, Codes
<1>3. drv.pc = "check" /\ drv \in Driver /\ die' = die /\ die \in Device /\ "flush" \in Steps
  BY Zenon DEF CheckFail, NorInv, NorTypeOK, Steps
<1>4. Over
  BY <1>3, Zenon DEF NorInv
<1> HIDE DEF rc
<1>5. drv' \in Driver /\ drv'.pc = "flush" /\ drv'.rc = rc
  BY <1>1, <1>2, <1>3, OnwardFact DEF rc
<1>6. rc = "ok" => ~die'.wip /\ die'.did = "done"
  BY <1>2, <1>3, <1>4, Zenon DEF Over
<1> QED BY <1>2, <1>3, <1>5, <1>6, MovesOn, Zenon

LEMMA FlushInv == NorInv /\ Flush => NorInv'
<1> SUFFICES ASSUME NorInv, Flush PROVE NorInv'
  BY Zenon
<1>1. PICK flushed \in BOOLEAN :
        LET rc == IF drv.rc = "ok" /\ ~flushed THEN "timeout" ELSE drv.rc
            more == rc = "ok" /\ drv.left > 1
        IN /\ drv' = [drv EXCEPT !.rc = rc, !.left = @ - 1, !.pc = IF more THEN "lut" ELSE "idle",
                                 !.stale = die.wip \/ (@ /\ ~flushed),
                                 !.masked = more, !.page = @ /\ more]
           /\ die' = [die EXCEPT !.did = IF more THEN "none" ELSE @]
  BY ZenonT(40) DEF Flush
<1> DEFINE rc == IF drv.rc = "ok" /\ ~flushed THEN "timeout" ELSE drv.rc
           more == rc = "ok" /\ drv.left > 1
           pc == IF more THEN "lut" ELSE "idle"
           left == drv.left - 1
           did == IF more THEN "none" ELSE die.did
<1>2. drv.pc = "flush" /\ drv \in Driver /\ die \in Device
  BY Zenon DEF Flush, NorInv, NorTypeOK
<1>3. drv.rc = "ok" => ~die.wip /\ die.did = "done"
  BY <1>2, Zenon DEF NorInv
<1>4. PICK a \in BOOLEAN, b \in BOOLEAN, c \in BOOLEAN :
        /\ drv' = [drv EXCEPT !.rc = rc, !.left = left, !.pc = pc, !.stale = a, !.masked = b,
                              !.page = c]
        /\ (a <=> die.wip \/ (drv.stale /\ ~flushed)) /\ (b <=> more) /\ (c <=> drv.page /\ more)
  <2>1. /\ (die.wip \/ (drv.stale /\ ~flushed)) \in BOOLEAN /\ more \in BOOLEAN
        /\ (drv.page /\ more) \in BOOLEAN
    BY Zenon
  <2> QED BY <1>1, <2>1, Zenon
<1>5. die' = [die EXCEPT !.did = did]
  BY <1>1, Zenon
<1>6. /\ rc \in {"none", "ok", "bus", "timeout", "device"} /\ left \in Int
      /\ rc = "ok" => drv.rc = "ok" /\ flushed
  BY <1>2 DEF Driver
<1>7. pc \in {"lut", "idle"} /\ (more => rc = "ok" /\ pc = "lut") /\ (~more => pc = "idle")
  BY Zenon
<1>8. did \in {"none", "going", "done", "failed", "ignored"} /\ (~more => did = die.did)
  BY <1>2 DEF Device
<1> HIDE DEF rc, more, pc, left, did
<1>9. /\ drv' \in Driver /\ drv'.rc = rc /\ drv'.pc = pc
      /\ drv'.stale = a /\ drv'.masked = b /\ drv'.page = c
  BY <1>2, <1>4, <1>6, <1>7, ZenonT(40) DEF Driver
<1>10. die' \in Device /\ die'.wip = die.wip /\ die'.did = did
  BY <1>2, <1>5, <1>8 DEF Device
<1>11. CASE more
  BY <1>7, <1>9, <1>10, <1>11, Zenon DEF NorInv, NorTypeOK, OkMeansDone
<1>12. CASE ~more
  <2>1. rc = "ok" => ~die'.wip /\ die'.did = "done" /\ ~drv'.stale /\ ~drv'.page /\ ~drv'.masked
    BY <1>3, <1>4, <1>6, <1>8, <1>9, <1>10, <1>12, Zenon
  <2> QED BY <1>7, <1>9, <1>10, <1>12, <2>1, Zenon DEF NorInv, NorTypeOK, OkMeansDone
<1> QED BY <1>11, <1>12, Zenon

LEMMA NorStepInv ==
  ASSUME NorInv, [NorNext]_norVars
  PROVE  NorInv'
<1>1. ASSUME NEW call \in {"erase", "program"}, NEW n \in 1..MaxChunks, Call(call, n)
      PROVE  NorInv'
  <2>1. NorTypeOK'
    <3>1. drv' \in Driver
      <4>1. n \in Int
        OBVIOUS
      <4> QED BY <1>1, <4>1, DriverCalls, Zenon DEF Call, NorInv, NorTypeOK
    <3>2. die' \in Device
      BY <1>1 DEF Call, NorInv, NorTypeOK, Device
    <3> QED BY <3>1, <3>2, Zenon DEF NorTypeOK
  <2>2. drv'.pc = "lut" /\ drv'.rc = "ok"
    BY <1>1 DEF Call, NorInv, NorTypeOK, Driver
  <2> QED BY <2>1, <2>2, Zenon DEF NorInv, OkMeansDone
<1>2. ASSUME NEW ok \in BOOLEAN, DieFinishes(ok) PROVE NorInv'
  <2>1. die' \in Device
    BY <1>2 DEF DieFinishes, Device
  <2>2. die.wip /\ ~die'.wip /\ die'.fail = ~ok /\ die'.did = (IF ok THEN "done" ELSE "failed")
        /\ drv' = drv
    BY <1>2, Zenon DEF DieFinishes
  <2>3. Over'
    BY <2>2, Zenon DEF Over
  <2>4. ~(drv.pc = "check" /\ Over) /\ ~(drv.pc \in {"wren", "command"})
        /\ ~(drv.pc \in {"idle", "flush"} /\ drv.rc = "ok") /\ NorTypeOK'
    BY <2>1, <2>2, Zenon DEF NorInv, NorTypeOK, OkMeansDone, Over
  <2> QED BY <2>2, <2>3, <2>4, Zenon DEF NorInv, OkMeansDone
<1>3. CASE UNCHANGED norVars
  BY <1>3, Zenon DEF norVars, NorInv, NorTypeOK, OkMeansDone, Over
<1>4. CASE WaitReady("ready", "wren")
  BY <1>4, WaitReadyInv, Zenon
<1>5. CASE WaitReady("done", "check")
  BY <1>5, WaitReadyInv, Zenon
<1> QED
  BY <1>1, <1>2, <1>3, <1>4, <1>5, LutInstallInv, WriteEnableInv, CommandInv, CheckFailInv,
     FlushInv, Zenon DEF NorNext

\* The driver and the NOR device agree where the command is sent and where
\* success is reported, for calls of any number of sectors or pages, any number
\* of failed transactions and every speed of the device.
THEOREM NorDriverAgrees == NorSpec => []NorAgrees
<1>1. NorInit => NorInv
  BY NorInitInv, Zenon
<1>2. NorInv /\ [NorNext]_norVars => NorInv'
  BY NorStepInv, Zenon
<1>3. NorInv => NorAgrees
  BY Zenon DEF NorInv, NorAgrees, CommandArmed
<1> QED BY <1>1, <1>2, <1>3, PTL DEF NorSpec

-----------------------------------------------------------------------------
(* The flash drivers of the ports: geometry *)

\* A product of a factor that is no smaller is no smaller.
LEMMA MulFact ==
  ASSUME NEW a \in Nat, NEW b \in Nat, NEW s \in Nat, a <= b
  PROVE  a * s <= b * s
<1>1. PICK c \in Nat : b = a + c
  <2>1. b - a \in Nat /\ b = a + (b - a)
    OBVIOUS
  <2> QED BY <2>1, Zenon
<1>2. b * s = a * s + c * s /\ c * s >= 0
  BY <1>1
<1> QED BY <1>2

\* A unit lies below sector q exactly if it lies below q's first unit.
LEMMA DivFact ==
  ASSUME NEW u \in Nat, NEW s \in Nat \ {0}, NEW q \in Nat
  PROVE  u \div s \in Nat /\ (u \div s < q <=> u < q * s)
<1> DEFINE d == u \div s
<1>1. u % s \in 0..(s - 1) /\ u = s * d + (u % s) /\ d \in Int
  OBVIOUS
<1>2. d \in Nat
  <2>1. CASE d <= -1
    <3>1. s * d <= -s
      BY <1>1, <2>1
    <3> QED BY <1>1, <3>1
  <2> QED BY <1>1, <2>1
<1> HIDE DEF d
<1>3. CASE d < q
  <2>1. (d + 1) * s <= q * s
    BY <1>2, <1>3, MulFact
  <2>2. (d + 1) * s = s * d + s
    BY <1>2
  <2> QED BY <1>1, <1>2, <1>3, <2>1, <2>2 DEF d
<1>4. CASE d >= q
  <2>1. q * s <= d * s
    BY <1>2, <1>4, MulFact, Zenon
  <2>2. d * s = s * d
    BY <1>2
  <2> QED BY <1>1, <1>2, <1>4, <2>1, <2>2 DEF d
<1> QED BY <1>2, <1>3, <1>4

LEMMA SizeFact ==
  /\ {SectorUnits, NvmSectors, FwuSectors} \subseteq Nat \ {0} /\ FwuSectors > 1
  /\ NvmSize \in Nat \ {0} /\ FwuSize \in Nat \ {0} /\ FwuSize - SectorUnits \in Nat
  /\ NvmSize + FwuSize = (NvmSectors + FwuSectors) * SectorUnits
  /\ NvmSize + FwuSize - SectorUnits = (NvmSectors + FwuSectors - 1) * SectorUnits
<1>1. {SectorUnits, NvmSectors, FwuSectors} \subseteq Nat \ {0} /\ FwuSectors > 1
  BY FlashAssumption, Zenon
<1>2. NvmSize \in Nat \ {0} /\ FwuSize \in Nat \ {0}
  BY <1>1 DEF NvmSize, FwuSize
<1>3. /\ NvmSize + FwuSize = (NvmSectors + FwuSectors) * SectorUnits
      /\ NvmSize + FwuSize - SectorUnits = (NvmSectors + FwuSectors - 1) * SectorUnits
  BY <1>1 DEF NvmSize, FwuSize
<1>4. FwuSize - SectorUnits = (FwuSectors - 1) * SectorUnits
  BY <1>1 DEF FwuSize
<1> QED BY <1>1, <1>2, <1>3, <1>4

LEMMA SizeNat == NvmSize \in Nat \ {0} /\ FwuSize \in Nat \ {0} /\ SectorUnits \in Nat \ {0}
BY SizeFact, Zenon

\* Where the sectors of the vault's store end and the trailer's begins.
LEMMA SectorFact ==
  /\ \A u \in Units :
       /\ u \in Nat /\ Sector[u] \in Nat
       /\ Sector[u] < NvmSectors <=> u < NvmSize
       /\ Sector[u] < TrailerSector <=> u < NvmSize + FwuSize - SectorUnits
       /\ Sector[u] <= TrailerSector
  /\ NvmSize \in Units /\ Sector[NvmSize] = NvmSectors
  /\ TrailerUnit \in Trailer /\ Trailer \subseteq Units
  /\ TrailerSector \in Nat /\ NvmSectors <= TrailerSector
<1>1. ASSUME NEW u \in Units
      PROVE  /\ u \in Nat /\ Sector[u] \in Nat
             /\ Sector[u] < NvmSectors <=> u < NvmSize
             /\ Sector[u] < NvmSectors + FwuSectors - 1 <=> u < NvmSize + FwuSize - SectorUnits
             /\ Sector[u] < NvmSectors + FwuSectors
  <2>1. u \in Nat /\ Sector[u] = u \div SectorUnits /\ u < (NvmSectors + FwuSectors) * SectorUnits
    BY SizeFact DEF Units, Sector
  <2>2. /\ NvmSectors \in Nat /\ NvmSectors + FwuSectors - 1 \in Nat /\ NvmSectors + FwuSectors \in Nat
        /\ SectorUnits \in Nat \ {0}
    BY SizeFact
  <2>3. u \div SectorUnits \in Nat
    BY <2>1, <2>2, DivFact, Zenon
  <2>4. u \div SectorUnits < NvmSectors <=> u < NvmSize
    BY <2>1, <2>2, DivFact, Zenon DEF NvmSize
  <2>5. u \div SectorUnits < NvmSectors + FwuSectors
    BY <2>1, <2>2, DivFact, Zenon
  <2>6. u \div SectorUnits < NvmSectors + FwuSectors - 1 <=> u < NvmSize + FwuSize - SectorUnits
    <3>1. u \div SectorUnits < NvmSectors + FwuSectors - 1
          <=> u < (NvmSectors + FwuSectors - 1) * SectorUnits
      BY <2>1, <2>2, DivFact, Zenon
    <3> QED BY <3>1, SizeFact, Zenon
  <2> QED BY <2>1, <2>3, <2>4, <2>5, <2>6, Zenon
<1>2. NvmSize \in Units /\ TrailerUnit \in Units
  BY SizeFact DEF Units, TrailerUnit
<1>3. TrailerSector = NvmSectors + FwuSectors - 1
  <2>1. /\ Sector[TrailerUnit] \in Nat /\ Sector[TrailerUnit] < NvmSectors + FwuSectors
        /\ ~(Sector[TrailerUnit] < NvmSectors + FwuSectors - 1)
    <3>1. ~(TrailerUnit < NvmSize + FwuSize - SectorUnits)
      BY SizeFact DEF TrailerUnit
    <3> QED BY <1>1, <1>2, <3>1, Zenon
  <2> QED BY <2>1, SizeFact DEF TrailerSector
<1>4. Sector[NvmSize] = NvmSectors
  <2>1. NvmSize \div SectorUnits < NvmSectors + 1 <=> NvmSize < (NvmSectors + 1) * SectorUnits
    <3>1. NvmSize \in Nat /\ NvmSectors + 1 \in Nat /\ SectorUnits \in Nat \ {0}
      BY SizeFact
    <3> QED BY <3>1, DivFact, Zenon
  <2>2. (NvmSectors + 1) * SectorUnits = NvmSize + SectorUnits
    BY SizeFact DEF NvmSize
  <2>3. Sector[NvmSize] = NvmSize \div SectorUnits
    BY <1>2, Zenon DEF Sector
  <2> QED BY <1>1, <1>2, <2>1, <2>2, <2>3, SizeFact
<1>5. TrailerUnit \in Trailer /\ Trailer \subseteq Units
  BY <1>2, Zenon DEF Trailer, TrailerSector
<1> QED BY <1>1, <1>2, <1>3, <1>4, <1>5, SizeFact

\* A set of integers bounded from above has the maximum the driver takes.
LEMMA MaxFact ==
  ASSUME NEW S, S \subseteq Int, S # {}, NEW b \in Int, \A x \in S : x <= b
  PROVE  Max(S) \in S /\ \A x \in S : x <= Max(S)
<1> DEFINE T == {b - x : x \in S}
<1>1. T \subseteq Nat /\ T # {}
  <2>1. \A x \in S : b - x \in Nat
    OBVIOUS
  <2> QED BY <2>1, Zenon
<1>2. PICK t \in T : \A y \in T : ~(<<y, t>> \in OpToRel(<, Nat))
  BY <1>1, NatLessThanWellFounded, WFMin, Zenon
<1>3. \A y \in T : t <= y
  <2>1. ASSUME NEW y \in T PROVE t <= y
    <3>1. t \in Nat /\ y \in Nat
      BY <1>1, Zenon
    <3>2. ~(<<y, t>> \in OpToRel(<, Nat))
      BY <1>2, Zenon
    <3>3. ~(y < t)
      BY <3>1, <3>2, Zenon DEF OpToRel
    <3> QED BY <3>1, <3>3
  <2> QED BY <2>1, Zenon
<1>4. PICK x \in S : t = b - x
  BY <1>2, Zenon
<1>5. \A y \in S : x >= y
  BY <1>3, <1>4
<1> QED BY <1>5, Zenon DEF Max

-----------------------------------------------------------------------------
(* The invariant of the flash drivers *)

Cells == {Blank, Torn, Trigger} \cup Values
Devices == [cell : [Units -> Cells], line : [unit : Int, value : Cells], clean : BOOLEAN]
Sessions ==
  [state : {"ready", "writing", "candidate", "staged", "failed"}, erased : Int,
   sectors : SUBSET Int, wend : Int, written : [Units -> Cells], armed : BOOLEAN]

FlashTypeOK ==
  /\ port \in {"h5", "rt"}
  /\ dev \in Devices /\ sess \in Sessions
  /\ faults \in Nat /\ cuts \in Nat

\* CacheCoherent of any device
Coherent(d) == d.clean /\ d.line # NoLine => d.line.value = d.cell[d.line.unit]

\* wt_fwu_ensure_erased will not erase sector x again in session s.
Known(s, x) == IF port = "h5" THEN x \in s.sectors ELSE x < NvmSectors + s.erased

\* What a session has on record of the update partition: it knows the sectors it
\* wrote to, and every sector it recorded is in the partition.
RecordOK(s) ==
  /\ s.erased >= 0 \/ port = "h5"
  /\ \A u \in Units \ Trailer :
       s.written[u] # Blank => Sector[u] >= NvmSectors /\ Known(s, Sector[u])
  /\ \A x \in s.sectors :
       x >= NvmSectors /\ (x # TrailerSector => x < TrailerSector /\ Known(s, x))

\* StagedIntact of any device and session
Intact(d, s) ==
  \A u \in Units \ Trailer :
    /\ s.written[u] # Blank => d.cell[u] = s.written[u]
    /\ Sector[u] \in s.sectors /\ s.written[u] = Blank => d.cell[u] = Blank

\* The trigger is in flash only where the session armed it; two device errors,
\* or an error and a loss of power, may leave it there.
NoTrigger ==
  sess.state # "staged" /\ cuts = 0 /\ faults < 2 => dev.cell[TrailerUnit] # Trigger

(***************************************************************************)
(* The inductive invariant.  StagedIntact needs RecordOK: a write erases   *)
(* only sectors the session does not know, so it must know every sector it *)
(* staged something in.  ArmClean needs NoTrigger, which follows the       *)
(* trailer through the sessions before this one.                           *)
(***************************************************************************)
FlashInv ==
  /\ FlashTypeOK
  /\ Coherent(dev)
  /\ ReadsSurvive
  /\ RecordOK(sess)
  /\ sess.state \in {"writing", "candidate", "staged"} => Intact(dev, sess)
  /\ NoTrigger

-----------------------------------------------------------------------------
(* What an operation comes to *)

\* Any end of an erase or a program over units us: nothing else is touched, a
\* unit of us is as it was, as it should be or torn, and the caches are flushed
\* unless the driver could not (wt_flash_icache_invalidate,
\* wt_xspi_read_path_flush).
Result(out, d, us, new) ==
  /\ out.dev \in Devices
  /\ out.rc \in {"ok", "error", "cut"}
  /\ out.errs = IF out.rc = "error" THEN 1 ELSE 0
  /\ \A u \in Units \ us : out.dev.cell[u] = d.cell[u]
  /\ \A u \in us : out.dev.cell[u] \in Broken(d.cell[u], new[u])
  /\ out.rc = "ok" => \A u \in us : out.dev.cell[u] = new[u]
  /\ out.rc = "ok" /\ us # {} => out.dev.line = NoLine
  /\ Coherent(d) => Coherent(out.dev)

LEMMA NoLineFact == NoLine \in [unit : Int, value : Cells] /\ NoLine.unit = -1
BY DEF NoLine, Cells

LEMMA OutFact ==
  ASSUME NEW d, NEW rc
  PROVE  /\ Out(d, rc).dev = d /\ Out(d, rc).rc = rc
         /\ Out(d, rc).errs = IF rc = "error" THEN 1 ELSE 0
BY Zenon DEF Out

LEMMA DoneFact ==
  ASSUME NEW d \in Devices, NEW us \in SUBSET Units, NEW new, \A u \in us : new[u] \in Cells
  PROVE  Result(Out(Done(d, us, new), "ok"), d, us, new)
<1> DEFINE c == [u \in Units |-> IF u \in us THEN new[u] ELSE d.cell[u]]
           e == Done(d, us, new)
<1>1. d.cell \in [Units -> Cells]
  BY Zenon DEF Devices
<1>2. c \in [Units -> Cells]
  BY <1>1, Zenon
<1>3. e = [d EXCEPT !.cell = c, !.line = NoLine, !.clean = TRUE]
  BY Zenon DEF Done, FlushedLine
<1>4. e \in Devices /\ e.cell = c /\ e.line = NoLine
  <2> HIDE DEF c, e
  <2> QED BY <1>2, <1>3, NoLineFact, Zenon DEF Devices
<1>5. /\ \A u \in Units \ us : e.cell[u] = d.cell[u]
      /\ \A u \in us : e.cell[u] = new[u]
  <2> HIDE DEF e
  <2> QED BY <1>4, Zenon
<1> HIDE DEF e
<1> QED BY <1>4, <1>5, OutFact DEF Result, Coherent, Broken, e

LEMMA StoppedFact ==
  ASSUME NEW d \in Devices, NEW us \in SUBSET Units, NEW group, NEW new,
         \A u \in us : new[u] \in Cells /\ group[u] \in Int, NEW f \in Int,
         NEW rc \in {"error", "cut"}, NEW e \in Stopped(d, us, group, new, f, rc)
  PROVE  Result(Out(e, rc), d, us, new)
<1> DEFINE here == {u \in us : group[u] = f}
           left == {g \in [here -> {Blank, Torn, Trigger} \cup Values] :
                      \A u \in here : g[u] \in Broken(d.cell[u], new[u])}
           cleans == IF port = "rt" /\ rc = "error" THEN BOOLEAN ELSE {TRUE}
           Cell(g) == [u \in Units |-> IF u \notin us \/ group[u] > f THEN d.cell[u]
                                       ELSE IF group[u] < f THEN new[u] ELSE g[u]]
           Line(clean) == IF clean THEN FlushedLine(d, rc) ELSE d.line
<1>1. PICK g \in left, clean \in cleans :
        e = [d EXCEPT !.cell = Cell(g), !.line = Line(clean), !.clean = clean]
  <2>1. e \in UNION {{[d EXCEPT !.cell = Cell(h), !.line = Line(c), !.clean = c] : h \in left} :
                       c \in cleans}
    BY Zenon DEF Stopped
  <2> HIDE DEF Cell, Line, left, cleans
  <2>2. PICK c \in cleans :
          e \in {[d EXCEPT !.cell = Cell(h), !.line = Line(c), !.clean = c] : h \in left}
    BY <2>1, Zenon
  <2>3. PICK h \in left : e = [d EXCEPT !.cell = Cell(h), !.line = Line(c), !.clean = c]
    BY <2>2, Zenon
  <2> QED BY <2>3, Zenon
<1>2. clean \in BOOLEAN /\ g \in [here -> Cells]
      /\ \A u \in here : g[u] \in Broken(d.cell[u], new[u])
  <2>1. clean \in BOOLEAN
    BY Zenon
  <2>2. g \in [here -> Cells] /\ \A u \in here : g[u] \in Broken(d.cell[u], new[u])
    BY Zenon DEF Cells
  <2> QED BY <2>1, <2>2, Zenon
<1>3. d.cell \in [Units -> Cells] /\ d.line \in [unit : Int, value : Cells]
  BY Zenon DEF Devices
<1>4. \A u \in Units : /\ u \notin us => Cell(g)[u] = d.cell[u]
                       /\ u \in us => Cell(g)[u] \in Broken(d.cell[u], new[u]) /\ Cell(g)[u] \in Cells
  <2>1. ASSUME NEW u \in us
        PROVE  Cell(g)[u] \in Broken(d.cell[u], new[u]) /\ Cell(g)[u] \in Cells
    <3>1. new[u] \in Cells /\ group[u] \in Int /\ d.cell[u] \in Cells /\ u \in Units
      BY <1>3, Zenon
    <3>2. CASE group[u] > f
      BY <3>1, <3>2, Zenon DEF Broken
    <3>3. CASE group[u] < f
      BY <3>1, <3>3, Zenon DEF Broken
    <3>4. CASE group[u] = f
      BY <1>2, <3>1, <3>4
    <3> QED BY <3>1, <3>2, <3>3, <3>4
  <2> QED BY <2>1, Zenon
<1>5. Cell(g) \in [Units -> Cells]
  BY <1>3, <1>4, Zenon
<1>6. Line(clean) \in [unit : Int, value : Cells] /\ (clean => Line(clean) = NoLine)
  BY <1>2, <1>3, NoLineFact, Zenon DEF FlushedLine
<1> HIDE DEF Cell, Line, left, cleans, here
<1>7. e \in Devices /\ e.cell = Cell(g) /\ e.line = Line(clean) /\ e.clean = clean
  BY <1>1, <1>2, <1>5, <1>6, Zenon DEF Devices
<1> QED
  BY <1>2, <1>4, <1>6, <1>7, OutFact DEF Result, Coherent

LEMMA OutcomeFact ==
  ASSUME NEW d \in Devices, NEW us \in SUBSET Units, NEW group, NEW new,
         \A u \in us : new[u] \in Cells /\ group[u] \in Int,
         NEW out \in Outcomes(d, us, group, new)
  PROVE  Result(out, d, us, new)
<1>1. CASE us = {}
  BY <1>1, OutFact DEF Outcomes, Result
<1>2. CASE us # {} /\ out = Out(Done(d, us, new), "ok")
  BY <1>2, DoneFact, Zenon
<1>3. CASE us # {} /\ out # Out(Done(d, us, new), "ok")
  <2>1. PICK rc \in {"error", "cut"}, f \in {group[u] : u \in us} :
          \E e \in Stopped(d, us, group, new, f, rc) : out = Out(e, rc)
    BY <1>3, Zenon DEF Outcomes
  <2>2. f \in Int
    BY <2>1, Zenon
  <2> QED BY <2>1, <2>2, StoppedFact, Zenon
<1> QED BY <1>1, <1>2, <1>3, Zenon

\* The groups of the drivers are numbered.
LEMMA GroupFact == \A u \in Units : Sector[u] \in Int /\ Chunk[u] \in Int
<1> SUFFICES ASSUME NEW u \in Units PROVE Sector[u] \in Int /\ Chunk[u] \in Int
  BY Zenon
<1>1. u \in Int /\ PageUnits \in Nat \ {0} /\ SectorUnits \in Nat \ {0}
  BY SizeFact, FlashAssumption DEF Units
<1> QED BY <1>1 DEF Sector, Chunk

-----------------------------------------------------------------------------
(* The end of a call *)

Lasting == {"writing", "candidate", "staged"}

LEMMA EmptySession ==
  /\ NoSession \in Sessions /\ NoSession.state = "ready" /\ RecordOK(NoSession)
  /\ Failed \in Sessions /\ Failed.state = "failed" /\ RecordOK(Failed)
  /\ LET s == [NoSession EXCEPT !.state = "writing"]
     IN s \in Sessions /\ s.state = "writing" /\ RecordOK(s) /\ \A d : Intact(d, s)
<1>1. /\ NoSession.state = "ready" /\ NoSession.erased = 0 /\ NoSession.sectors = {}
      /\ NoSession.written = [u \in Units |-> Blank] /\ NoSession \in Sessions
  <2>1. ASSUME NEW w \in [Units -> Cells]
        PROVE  [state |-> "ready", erased |-> 0, sectors |-> {}, wend |-> 0,
                written |-> w, armed |-> FALSE] \in Sessions
    BY DEF Sessions
  <2>2. [u \in Units |-> Blank] \in [Units -> Cells]
    BY Zenon DEF Cells
  <2>3. NoSession \in Sessions
    BY <2>1, <2>2, Zenon DEF NoSession
  <2> QED BY <2>3, Zenon DEF NoSession
<1>2. ASSUME NEW q \in {"ready", "writing", "failed"}, NEW s, s = [NoSession EXCEPT !.state = q]
      PROVE  s \in Sessions /\ s.state = q /\ RecordOK(s) /\ \A d : Intact(d, s)
  <2>1. /\ s \in Sessions /\ s.state = q /\ s.erased = 0 /\ s.sectors = {}
        /\ s.written = [u \in Units |-> Blank]
    BY <1>1, <1>2, Zenon DEF Sessions
  <2> QED BY <2>1 DEF RecordOK, Intact
<1>3. RecordOK(NoSession)
  BY <1>1 DEF RecordOK
<1> QED BY <1>1, <1>2, <1>3, Zenon DEF Failed

\* A call that leaves session s behind, with the power on or off.
LEMMA EndsInv ==
  ASSUME FlashInv, NEW out, NEW s \in Sessions, NEW us, EndsReading(out, s, us),
         out.dev \in Devices, Coherent(out.dev), out.errs \in Nat, RecordOK(s),
         out.rc # "cut" /\ s.state \in Lasting => Intact(out.dev, s),
         out.rc # "cut" /\ s.state # "staged" /\ cuts = 0 /\ faults + out.errs < 2
           => out.dev.cell[TrailerUnit] # Trigger
  PROVE  FlashInv'
<1>1. /\ dev' = out.dev /\ faults' = faults + out.errs /\ port' = port
      /\ IF out.rc = "cut" THEN sess' = NoSession /\ cuts' = cuts + 1
         ELSE sess' = s /\ cuts' = cuts
      /\ hung' \in {hung, "direct"}
  BY Zenon DEF EndsReading, Reading
<1>2. cuts \in Nat /\ faults \in Nat /\ hung # "read" /\ port \in {"h5", "rt"}
  BY Zenon DEF FlashInv, FlashTypeOK, ReadsSurvive
<1>3. FlashTypeOK' /\ ReadsSurvive'
  BY <1>1, <1>2, EmptySession DEF FlashTypeOK, ReadsSurvive
<1>4. Coherent(dev)'
  BY <1>1, Zenon DEF Coherent
<1>5. RecordOK(sess)'
  <2>1. RecordOK(sess')
    BY <1>1, EmptySession, Zenon
  <2> QED BY <1>1, <2>1, Zenon DEF RecordOK, Known
<1>6. (sess.state \in {"writing", "candidate", "staged"} => Intact(dev, sess))'
  BY <1>1, EmptySession DEF Lasting, Intact
<1>7. NoTrigger'
  BY <1>1, <1>2 DEF NoTrigger
<1> QED BY <1>3, <1>4, <1>5, <1>6, <1>7, Zenon DEF FlashInv

\* A step that leaves the device and the session alone.
LEMMA QuietInv ==
  ASSUME FlashInv, UNCHANGED <<port, dev, sess, faults, cuts>>, hung' # "read"
  PROVE  FlashInv'
<1>1. FlashTypeOK' /\ ReadsSurvive' /\ Coherent(dev)' /\ NoTrigger'
  BY Zenon DEF FlashInv, FlashTypeOK, ReadsSurvive, Coherent, NoTrigger
<1>2. RecordOK(sess)' /\ (sess.state \in {"writing", "candidate", "staged"} => Intact(dev, sess))'
  BY Zenon DEF FlashInv, RecordOK, Known, Intact
<1> QED BY <1>1, <1>2, Zenon DEF FlashInv

-----------------------------------------------------------------------------
(* The store's calls *)

\* The gate of the vault's store keeps its calls out of the update partition.
LEMMA StoreInv ==
  ASSUME FlashInv, NEW us \in SUBSET Units, \A u \in us : u < NvmSize, NEW new, NEW group,
         \A u \in us : new[u] \in Cells /\ group[u] \in Int,
         NEW out \in Outcomes(dev, us, group, new), Ends(out, sess)
  PROVE  FlashInv'
<1>1. dev \in Devices /\ sess \in Sessions /\ faults \in Nat
  BY Zenon DEF FlashInv, FlashTypeOK
<1>2. Result(out, dev, us, new)
  BY <1>1, OutcomeFact, Zenon
<1>3. out.errs \in Nat /\ out.dev \in Devices /\ Coherent(out.dev)
  BY <1>2 DEF Result, FlashInv
<1>4. \A u \in Units : u >= NvmSize => out.dev.cell[u] = dev.cell[u]
  BY <1>2, SectorFact, SizeFact DEF Result
<1>5. TrailerUnit >= NvmSize /\ TrailerUnit \in Units
  BY SizeFact DEF TrailerUnit, Units
<1>6. sess.state \in Lasting => Intact(out.dev, sess)
  <2> SUFFICES ASSUME sess.state \in Lasting, NEW u \in Units \ Trailer
               PROVE  /\ sess.written[u] # Blank => out.dev.cell[u] = sess.written[u]
                      /\ Sector[u] \in sess.sectors /\ sess.written[u] = Blank
                         => out.dev.cell[u] = Blank
    BY Zenon DEF Intact
  <2>1. /\ sess.written[u] # Blank => dev.cell[u] = sess.written[u]
        /\ Sector[u] \in sess.sectors /\ sess.written[u] = Blank => dev.cell[u] = Blank
    BY Zenon DEF FlashInv, Lasting, Intact
  <2>2. u < NvmSize => sess.written[u] = Blank /\ Sector[u] \notin sess.sectors
    BY SectorFact, SizeFact DEF FlashInv, RecordOK
  <2>3. u \in Nat
    BY SectorFact, Zenon
  <2> QED BY <1>4, <2>1, <2>2, <2>3, SizeFact
<1>7. sess.state # "staged" /\ cuts = 0 /\ faults + out.errs < 2 => out.dev.cell[TrailerUnit] # Trigger
  BY <1>1, <1>3, <1>4, <1>5 DEF FlashInv, NoTrigger
<1>8. RecordOK(sess)
  BY Zenon DEF FlashInv
<1> QED BY <1>1, <1>3, <1>6, <1>7, <1>8, EndsInv, Zenon DEF Ends

\* A range wt_flash_range_ok lets pass lies in its context's area.
LEMMA StoreRange ==
  ASSUME NEW off \in Nat, NEW n \in Nat
  PROVE  /\ At("nvm", off, n) = off..(off + n - 1)
         /\ At("fwu", off, n) = (NvmSize + off)..(NvmSize + off + n - 1)
         /\ RangeOk("nvm", off, n) => off + n <= NvmSize
         /\ RangeOk("fwu", off, n) => off + n <= FwuSize
<1>1. Geometry("nvm") = [base |-> 0, size |-> NvmSize]
  BY Zenon DEF Geometry
<1>2. Geometry("fwu") = [base |-> NvmSize, size |-> FwuSize]
  BY Zenon DEF Geometry
<1>3. /\ Geometry("nvm").base = 0 /\ Geometry("nvm").size = NvmSize
      /\ Geometry("fwu").base = NvmSize /\ Geometry("fwu").size = FwuSize
  BY <1>1, <1>2
<1>4. At("nvm", off, n) = off..(off + n - 1)
  BY <1>3 DEF At
<1>5. At("fwu", off, n) = (NvmSize + off)..(NvmSize + off + n - 1)
  BY <1>3, Zenon DEF At
<1>6. /\ RangeOk("nvm", off, n) => off + n <= NvmSize
      /\ RangeOk("fwu", off, n) => off + n <= FwuSize
  BY <1>3, SizeNat DEF RangeOk
<1> QED BY <1>4, <1>5, <1>6, Zenon

LEMMA ProgramInv ==
  ASSUME FlashInv, NEW ctx \in Gated, NEW off \in 0..NvmSize, NEW n \in 1..NvmSize,
         NEW v \in Values, Program(ctx, off, n, v)
  PROVE  FlashInv'
<1> DEFINE us == At(ctx, off, n)
           new == [u \in us |-> Programmed(dev.cell[u], v)]
<1>1. us \in SUBSET Units /\ \A u \in us : u < NvmSize
  <2>1. ctx = "nvm" /\ off \in Nat /\ n \in Nat /\ RangeOk("nvm", off, n)
    BY DEF Program, ProgramOk, Gated
  <2>2. us = off..(off + n - 1) /\ off + n <= NvmSize
    BY <2>1, StoreRange, Zenon
  <2> HIDE DEF us
  <2> QED BY <2>1, <2>2, SizeNat DEF Units
<1>2. \A u \in us : new[u] \in Cells /\ Chunk[u] \in Int
  BY <1>1, GroupFact, Zenon DEF Programmed, Cells
<1>3. PICK out \in Outcomes(dev, us, Chunk, new) : Ends(out, sess)
  BY Zenon DEF Program
<1> HIDE DEF us, new
<1> QED BY <1>1, <1>2, <1>3, StoreInv, Zenon

LEMMA EraseInv ==
  ASSUME FlashInv, NEW ctx \in Gated, NEW off \in 0..NvmSize, NEW n \in 1..NvmSize,
         Erase(ctx, off, n)
  PROVE  FlashInv'
<1> DEFINE us == At(ctx, off, n)
           new == [u \in us |-> Blank]
<1>1. us \in SUBSET Units /\ \A u \in us : u < NvmSize
  <2>1. ctx = "nvm" /\ off \in Nat /\ n \in Nat /\ RangeOk("nvm", off, n)
    BY DEF Erase, EraseOk, Gated
  <2>2. us = off..(off + n - 1) /\ off + n <= NvmSize
    BY <2>1, StoreRange, Zenon
  <2> HIDE DEF us
  <2> QED BY <2>1, <2>2, SizeNat DEF Units
<1>2. \A u \in us : new[u] \in Cells /\ Sector[u] \in Int
  BY <1>1, GroupFact, Zenon DEF Cells
<1>3. PICK out \in Outcomes(dev, us, Sector, new) : Ends(out, sess)
  BY Zenon DEF Erase
<1> HIDE DEF us, new
<1> QED BY <1>1, <1>2, <1>3, StoreInv, Zenon

\* wt_flash_read_checked covers every unit a read touches, also the one it ends in.
LEMMA WindowFact ==
  ASSUME NEW h \in Nat, NEW n \in Nat \ {0}
  PROVE  HalvesOf(h, n) \subseteq EccWindow(h, n)
<1> SUFFICES ASSUME NEW i \in h..(h + n - 1) PROVE i \div 2 \in EccWindow(h, n)
  BY Zenon DEF HalvesOf
<1>1. i \in Nat /\ h <= i /\ i <= h + n - 1
  OBVIOUS
<1>2. i \div 2 >= h \div 2 /\ i \div 2 <= (h + n + 1) \div 2 - 1
  BY <1>1
<1> QED BY <1>1, <1>2 DEF EccWindow

LEMMA ReadInv ==
  ASSUME FlashInv, NEW h \in Nat, NEW n \in Nat \ {0}, Read(h, n)
  PROVE  FlashInv'
<1>1. ~Hangs(dev, HalvesOf(h, n), EccWindow(h, n))
  BY WindowFact, Zenon DEF Hangs
<1> QED BY <1>1, QuietInv, Zenon DEF Read, Reading, FlashInv, ReadsSurvive

LEMMA CompareInv ==
  ASSUME FlashInv, NEW u \in Nat, Compare(u)
  PROVE  FlashInv'
<1>1. u \in EccWindow(2 * u, 2)
  BY DEF EccWindow
<1>2. ~Hangs(dev, {u}, EccWindow(2 * u, 2))
  BY <1>1, Zenon DEF Hangs
<1> QED BY <1>2, QuietInv, Zenon DEF Compare, Reading, FlashInv, ReadsSurvive

LEMMA FillInv ==
  ASSUME FlashInv, NEW u \in Units, Fill(u)
  PROVE  FlashInv'
<1>1. dev \in Devices /\ u \in Int /\ u # -1
  BY SectorFact DEF FlashInv, FlashTypeOK
<1>2. Mapped(dev, u) = dev.cell[u] /\ dev.cell[u] \in Cells
  BY <1>1, NoLineFact, Zenon DEF Fill, Mapped, Devices
<1>3. /\ dev' \in Devices /\ dev'.cell = dev.cell
      /\ dev'.line = [unit |-> u, value |-> dev.cell[u]]
  BY <1>1, <1>2, Zenon DEF Fill, Devices
<1>4. Coherent(dev)'
  BY <1>3 DEF Coherent
<1>5. FlashTypeOK' /\ ReadsSurvive' /\ NoTrigger'
  BY <1>3, Zenon DEF Fill, FlashInv, FlashTypeOK, ReadsSurvive, NoTrigger
<1>6. RecordOK(sess)' /\ (sess.state \in {"writing", "candidate", "staged"} => Intact(dev, sess))'
  BY <1>3, Zenon DEF Fill, FlashInv, RecordOK, Known, Intact
<1> QED BY <1>4, <1>5, <1>6, Zenon DEF FlashInv

-----------------------------------------------------------------------------
(* Staging *)

\* What wt_fwu_ensure_erased erases for a block, and what it has recorded after:
\* no sector it knew, none of the trailer's, and it knows all of the block's.
LEMMA ToEraseFact ==
  ASSUME FlashInv, NEW us \in SUBSET Units, us # {},
         \A u \in us : NvmSectors <= Sector[u] /\ Sector[u] < TrailerSector
  PROVE  LET ss == ToErase(us)
             s == Erased(ss)
         IN /\ \A x \in ss : NvmSectors <= x /\ x < TrailerSector /\ ~Known(sess, x) /\ Known(s, x)
            /\ s \in Sessions /\ s.written = sess.written /\ s.state = sess.state
            /\ s.sectors = sess.sectors \cup ss
            /\ \A u \in us : Known(s, Sector[u])
            /\ \A x \in Int : Known(sess, x) => Known(s, x)
            /\ s.erased >= 0 \/ port = "h5"
<1> DEFINE ss == ToErase(us)
           s == Erased(ss)
           secs == {Sector[u] : u \in us}
<1>1. /\ port \in {"h5", "rt"} /\ sess \in Sessions /\ (sess.erased >= 0 \/ port = "h5")
      /\ sess.erased \in Int /\ sess.sectors \subseteq Int
      /\ NvmSectors \in Nat /\ TrailerSector \in Nat
      /\ Sector[NvmSize] = NvmSectors
  BY SectorFact, SizeFact, Zenon DEF FlashInv, FlashTypeOK, RecordOK, Sessions
<1>2. secs \subseteq Int /\ secs # {} /\ \A x \in secs : NvmSectors <= x /\ x < TrailerSector /\ x <= TrailerSector
  <2>1. \A u \in us : Sector[u] \in Int /\ Sector[u] <= TrailerSector
    BY SectorFact
  <2> QED BY <2>1, Zenon
<1> HIDE DEF secs
<1>b. TrailerSector \in Int
  BY <1>1
<1> DEFINE top == Max(secs)
<1>3. /\ top \in secs /\ \A x \in secs : x <= top
      /\ top \in Int /\ NvmSectors <= top /\ top < TrailerSector
  BY <1>b, <1>2, MaxFact, Zenon
<1> HIDE DEF top
<1>4. \A u \in us : Sector[u] \in secs
  BY Zenon DEF secs
<1>5. ss = IF port = "h5" THEN secs \ sess.sectors ELSE (NvmSectors + sess.erased)..top
  BY <1>1, Zenon DEF ToErase, secs, top
<1>6. /\ ss \subseteq Int
      /\ \A x \in ss : NvmSectors <= x /\ x < TrailerSector /\ x <= TrailerSector /\ ~Known(sess, x)
  <2>1. CASE port = "h5"
    BY <1>1, <1>2, <1>5, <2>1, Zenon DEF Known
  <2>2. CASE port = "rt"
    BY <1>1, <1>2, <1>3, <1>5, <2>2 DEF Known
  <2> QED BY <1>1, <2>1, <2>2, Zenon
<1> HIDE DEF ss
<1>7. ss # {} => Max(ss) \in ss /\ Max(ss) \in Int /\ \A x \in ss : x <= Max(ss)
  BY <1>b, <1>6, MaxFact, Zenon
<1> DEFINE er == IF ss = {} THEN sess.erased ELSE Max(ss) + 1 - NvmSectors
<1>8. er \in Int
  BY <1>1, <1>7
<1>9. s = [sess EXCEPT !.sectors = sess.sectors \cup ss, !.erased = er]
  BY <1>1, Zenon DEF Erased
<1>10. sess.sectors \cup ss \in SUBSET Int
  BY <1>1, <1>6, Zenon
<1> HIDE DEF er
<1>11. /\ s \in Sessions /\ s.written = sess.written /\ s.state = sess.state
       /\ s.sectors = sess.sectors \cup ss /\ s.erased = er
  <2> HIDE DEF s
  <2> QED BY <1>1, <1>8, <1>9, <1>10, Zenon DEF Sessions
<1> HIDE DEF s
<1>12. CASE port = "h5"
  BY <1>4, <1>5, <1>6, <1>11, <1>12, Zenon DEF Known, s, ss
<1>13. CASE port = "rt"
  <2>1. er >= sess.erased /\ (ss # {} => er = Max(ss) + 1 - NvmSectors)
    BY <1>1, <1>5, <1>7, <1>13 DEF er
  <2>2. \A x \in ss : x < NvmSectors + er
    BY <1>1, <1>6, <1>7, <1>8, <2>1
  <2>3. \A x \in secs : x < NvmSectors + er
    <3>1. CASE ss = {}
      <4>1. top < NvmSectors + sess.erased
        BY <1>1, <1>2, <1>3, <1>5, <1>13, <3>1
      <4>2. ASSUME NEW x \in secs PROVE x < NvmSectors + er
        <5>1. x \in Int /\ x <= top /\ top \in Int
          BY <1>2, <1>3, Zenon
        <5> QED BY <1>1, <1>8, <2>1, <4>1, <5>1
      <4> QED BY <4>2, Zenon
    <3>2. CASE ss # {}
      <4>1. top \in ss
        BY <1>1, <1>2, <1>3, <1>5, <1>13, <3>2
      <4>2. top < NvmSectors + er
        BY <2>2, <4>1, Zenon
      <4>3. ASSUME NEW x \in secs PROVE x < NvmSectors + er
        <5>1. x \in Int /\ x <= top /\ top \in Int
          BY <1>2, <1>3, Zenon
        <5> QED BY <1>1, <1>8, <4>2, <5>1
      <4> QED BY <4>3, Zenon
    <3> QED BY <3>1, <3>2, Zenon
  <2>4. \A x \in Int : Known(sess, x) => x < NvmSectors + er
    BY <1>1, <1>8, <1>13, <2>1 DEF Known
  <2> QED BY <1>1, <1>4, <1>6, <1>8, <1>11, <1>13, <2>1, <2>2, <2>3, <2>4 DEF Known, s, ss
<1> QED BY <1>1, <1>12, <1>13, Zenon

\* What a session records of a block that was read back.
Recorded(us, v, w) ==
  [Erased(ToErase(us)) EXCEPT !.wend = w,
     !.written = [u \in Units |-> IF u \in us THEN v ELSE @[u]]]

\* The session wt_fwu_backend_write leaves, where the block was read back as
\* written, agrees with the flash.
LEMMA WrittenFact ==
  ASSUME FlashInv, sess.state = "writing", NEW us \in SUBSET Units, us # {},
         \A u \in us : NvmSectors <= Sector[u] /\ Sector[u] < TrailerSector,
         NEW v \in Values, NEW w \in Int, NEW d1 \in Devices, NEW d2 \in Devices, NEW s,
         s = Recorded(us, v, w),
         \A u \in Units : d1.cell[u] = IF Sector[u] \in ToErase(us) THEN Blank ELSE dev.cell[u],
         \A u \in Units : d2.cell[u] = IF u \in us THEN v ELSE d1.cell[u]
  PROVE  s \in Sessions /\ s.state = "writing" /\ RecordOK(s) /\ Intact(d2, s)
<1> DEFINE ss == ToErase(us)
           r == Erased(ss)
           wr == [u \in Units |-> IF u \in us THEN v ELSE sess.written[u]]
<1>1. /\ \A x \in ss : NvmSectors <= x /\ x < TrailerSector /\ ~Known(sess, x) /\ Known(r, x)
      /\ r \in Sessions /\ r.written = sess.written /\ r.state = sess.state
      /\ r.sectors = sess.sectors \cup ss
      /\ \A u \in us : Known(r, Sector[u])
      /\ \A x \in Int : Known(sess, x) => Known(r, x)
      /\ r.erased >= 0 \/ port = "h5"
  BY ToEraseFact, Zenon
<1>2. sess.written \in [Units -> Cells] /\ sess.sectors \subseteq Int /\ v \in Cells
  BY Zenon DEF FlashInv, FlashTypeOK, Sessions, Cells
<1>3. wr \in [Units -> Cells]
  BY <1>2, Zenon
<1>4. s = [r EXCEPT !.wend = w, !.written = wr]
  BY <1>1, Zenon DEF Recorded
<1> HIDE DEF ss, r
<1>5. \A u \in Units : wr[u] = IF u \in us THEN v ELSE sess.written[u]
  BY Zenon
<1> HIDE DEF wr
<1>6. /\ s \in Sessions /\ s.state = "writing" /\ s.written = wr /\ s.erased = r.erased
      /\ s.sectors = sess.sectors \cup ss
  BY <1>1, <1>3, <1>4, ZenonT(40) DEF Sessions
<1>7. \A x : Known(s, x) <=> Known(r, x)
  BY <1>1, <1>6, Zenon DEF Known
<1>8. \A u \in Units : Sector[u] \in Int
  BY GroupFact, Zenon
<1>9. /\ \A u \in Units \ Trailer :
           sess.written[u] # Blank => Sector[u] >= NvmSectors /\ Known(sess, Sector[u])
      /\ \A x \in sess.sectors :
           x >= NvmSectors /\ (x # TrailerSector => x < TrailerSector /\ Known(sess, x))
  BY Zenon DEF FlashInv, RecordOK
<1>10. RecordOK(s)
  <2>1. \A u \in Units \ Trailer :
          s.written[u] # Blank => Sector[u] >= NvmSectors /\ Known(s, Sector[u])
    BY <1>1, <1>5, <1>6, <1>7, <1>8, <1>9
  <2>2. \A x \in s.sectors :
          x >= NvmSectors /\ (x # TrailerSector => x < TrailerSector /\ Known(s, x))
    BY <1>1, <1>2, <1>6, <1>7, <1>9, Zenon
  <2> QED BY <1>1, <1>6, <2>1, <2>2, Zenon DEF RecordOK
<1>11. Intact(d2, s)
  <2> SUFFICES ASSUME NEW u \in Units \ Trailer
               PROVE  /\ s.written[u] # Blank => d2.cell[u] = s.written[u]
                      /\ Sector[u] \in s.sectors /\ s.written[u] = Blank => d2.cell[u] = Blank
    BY Zenon DEF Intact
  <2>1. /\ sess.written[u] # Blank => dev.cell[u] = sess.written[u]
        /\ Sector[u] \in sess.sectors /\ sess.written[u] = Blank => dev.cell[u] = Blank
    BY Zenon DEF FlashInv, Intact
  <2>2. /\ d1.cell[u] = IF Sector[u] \in ss THEN Blank ELSE dev.cell[u]
        /\ d2.cell[u] = IF u \in us THEN v ELSE d1.cell[u]
    BY Zenon DEF ss
  <2>3. CASE u \in us
    BY <1>5, <1>6, <2>2, <2>3, Zenon
  <2>4. CASE u \notin us
    BY <1>1, <1>5, <1>6, <1>9, <2>1, <2>2, <2>4
  <2> QED BY <2>3, <2>4, Zenon
<1> QED BY <1>6, <1>10, <1>11, Zenon

\* A call that ends the session in failure.
LEMMA FailedInv ==
  ASSUME FlashInv, NEW out, NEW us, EndsReading(out, Failed, us), out.dev \in Devices,
         Coherent(out.dev), out.errs \in Nat, sess.state # "staged",
         out.dev.cell[TrailerUnit] = dev.cell[TrailerUnit]
  PROVE  FlashInv'
<1>1. /\ Failed \in Sessions /\ RecordOK(Failed) /\ Failed.state = "failed"
      /\ ~(Failed.state \in Lasting)
  BY EmptySession, Zenon DEF Lasting
<1>2. cuts = 0 /\ faults + out.errs < 2 => out.dev.cell[TrailerUnit] # Trigger
  BY DEF FlashInv, FlashTypeOK, NoTrigger
<1> QED BY <1>1, <1>2, EndsInv, Zenon

LEMMA TrailerFact ==
  /\ TrailerUnit \in Units /\ TrailerUnit \in Trailer /\ Sector[TrailerUnit] = TrailerSector
  /\ Trailer \in SUBSET Units /\ TrailerSector \in Int /\ TrailerSector >= NvmSectors
  /\ Trigger \in Cells /\ Blank \in Cells /\ Trigger # Blank
<1>1. TrailerUnit \in Units
  BY SizeFact DEF TrailerUnit, Units
<1>2. TrailerSector \in Int /\ TrailerSector >= NvmSectors
  BY <1>1, SectorFact, SizeFact DEF TrailerSector, TrailerUnit
<1> QED BY <1>1, <1>2, Zenon DEF Trailer, TrailerSector, Cells, Trigger, Blank

\* The capacity check of wt_fwu_backend_write keeps a block out of the trailer's
\* sector.
LEMMA BlockFact ==
  ASSUME NEW off \in 0..(FwuSize - 1), NEW n \in 1..SectorUnits,
         off + n <= FwuSize - SectorUnits
  PROVE  LET us == At("fwu", off, n)
         IN /\ us \in SUBSET Units /\ us # {}
            /\ \A u \in us : NvmSectors <= Sector[u] /\ Sector[u] < TrailerSector
<1> DEFINE us == At("fwu", off, n)
<1>1. /\ FwuSize \in Nat /\ NvmSize \in Nat /\ SectorUnits \in Nat
      /\ off \in Nat /\ n \in Nat /\ n >= 1
  BY SizeNat, FlashAssumption
<1>2. us = (NvmSize + off)..(NvmSize + off + n - 1)
  BY <1>1, StoreRange, Zenon
<1> HIDE DEF us
<1>3. /\ us \in SUBSET Units /\ us # {}
      /\ \A u \in us : u >= NvmSize /\ u < NvmSize + FwuSize - SectorUnits
  BY <1>1, <1>2 DEF Units
<1>4. \A u \in us : NvmSectors <= Sector[u] /\ Sector[u] < TrailerSector
  BY <1>3, SectorFact
<1> QED BY <1>3, <1>4, Zenon DEF us

LEMMA WriteInv ==
  ASSUME FlashInv, NEW off \in 0..(FwuSize - 1), NEW n \in 1..SectorUnits, NEW v \in Values,
         Write(off, n, v)
  PROVE  FlashInv'
<1> DEFINE us == At("fwu", off, n)
           ss == ToErase(us)
           er == {u \in Units : Sector[u] \in ss}
           blank == [u \in Units |-> Blank]
           Bad(p) == p.rc # "ok" \/ \E u \in us : Mapped(p.dev, u) # v
           good == [Erased(ss) EXCEPT !.wend = off + n,
                      !.written = [u \in Units |-> IF u \in us THEN v ELSE @[u]]]
<1>1. /\ us \in SUBSET Units /\ us # {}
      /\ \A u \in us : NvmSectors <= Sector[u] /\ Sector[u] < TrailerSector
  BY BlockFact, Zenon DEF Write
<1>2. dev \in Devices /\ Coherent(dev) /\ sess.state = "writing" /\ sess.state # "staged"
  BY Zenon DEF FlashInv, FlashTypeOK, Write
<1>3. TrailerUnit \in Units /\ TrailerUnit \notin us /\ TrailerUnit \notin er
  <2>1. \A x \in ss : x < TrailerSector
    BY <1>1, ToEraseFact, Zenon
  <2> HIDE DEF ss, us
  <2> QED BY <1>1, <2>1, TrailerFact
<1> HIDE DEF us, ss
<1>4. CASE Ends(Out(dev, "refused"), Failed)
  BY <1>2, <1>4, OutFact, FailedInv DEF Ends
<1>5. ASSUME NEW e \in Outcomes(dev, er, Sector, blank),
             IF e.rc # "ok" THEN Ends(e, Failed)
             ELSE LET new == [u \in us |-> Programmed(e.dev.cell[u], v)]
                  IN \E p \in Outcomes(e.dev, us, Chunk, new) :
                       EndsReading(p, IF Bad(p) THEN Failed ELSE good, us)
      PROVE  FlashInv'
  <2>1. Result(e, dev, er, blank)
    <3>1. er \in SUBSET Units /\ \A u \in er : blank[u] \in Cells /\ Sector[u] \in Int
      BY GroupFact, Zenon DEF Cells
    <3> HIDE DEF er, blank
    <3> QED BY <1>2, <3>1, OutcomeFact, Zenon
  <2>2. /\ e.dev \in Devices /\ e.errs \in Nat /\ Coherent(e.dev)
        /\ e.dev.cell[TrailerUnit] = dev.cell[TrailerUnit]
    BY <1>2, <1>3, <2>1 DEF Result
  <2>3. CASE e.rc # "ok"
    BY <1>2, <1>5, <2>2, <2>3, FailedInv, Zenon DEF Ends
  <2>4. CASE e.rc = "ok"
    <3> DEFINE new == [u \in us |-> Programmed(e.dev.cell[u], v)]
    <3>1. PICK p \in Outcomes(e.dev, us, Chunk, new) :
            EndsReading(p, IF Bad(p) THEN Failed ELSE good, us)
      BY <1>5, <2>4, Zenon
    <3>2. \A u \in us : new[u] \in Cells /\ Chunk[u] \in Int
      BY <1>1, GroupFact, Zenon DEF Programmed, Cells
    <3> HIDE DEF new
    <3>3. Result(p, e.dev, us, new)
      BY <1>1, <2>2, <3>2, OutcomeFact, Zenon
    <3>4. /\ p.dev \in Devices /\ p.errs \in Nat /\ Coherent(p.dev)
          /\ p.dev.cell[TrailerUnit] = dev.cell[TrailerUnit]
      BY <1>3, <2>2, <3>3 DEF Result
    <3>5. CASE Bad(p)
      <4>1. EndsReading(p, Failed, us)
        BY <3>1, <3>5, Zenon
      <4> QED BY <1>2, <3>4, <4>1, FailedInv, Zenon
    <3>6. CASE ~Bad(p)
      <4>1. EndsReading(p, good, us)
        BY <3>1, <3>6, Zenon
      <4>2. p.rc = "ok" /\ \A u \in us : Mapped(p.dev, u) = v
        BY <3>6, Zenon
      <4>3. \A u \in us : p.dev.cell[u] = v
        BY <1>1, <3>3, <4>2, NoLineFact, SectorFact DEF Result, Mapped
      <4>4. \A u \in Units : p.dev.cell[u] = IF u \in us THEN v ELSE e.dev.cell[u]
        BY <3>3, <4>3, Zenon DEF Result
      <4>5. \A u \in Units : e.dev.cell[u] = IF Sector[u] \in ss THEN Blank ELSE dev.cell[u]
        BY <2>1, <2>4, Zenon DEF Result
      <4>6. off + n \in Int
        BY SizeNat, FlashAssumption
      <4>7. good \in Sessions /\ good.state = "writing" /\ RecordOK(good) /\ Intact(p.dev, good)
        <5>1. \A u \in Units : e.dev.cell[u] = IF Sector[u] \in ToErase(us) THEN Blank
                                               ELSE dev.cell[u]
          BY <4>5, Zenon DEF ss
        <5>2. p.dev \in Devices /\ e.dev \in Devices
          BY <2>2, <3>4, Zenon
        <5>3. good = Recorded(us, v, off + n)
          BY Zenon DEF Recorded, ss
        <5> HIDE DEF good
        <5> QED BY <1>1, <1>2, <4>4, <4>6, <5>1, <5>2, <5>3, WrittenFact
      <4> HIDE DEF good
      <4>8. cuts = 0 /\ faults + p.errs < 2 => p.dev.cell[TrailerUnit] # Trigger
        BY <1>2, <3>4 DEF FlashInv, FlashTypeOK, NoTrigger
      <4> QED BY <3>4, <4>1, <4>7, <4>8, EndsInv, Zenon
    <3> QED BY <3>5, <3>6, Zenon
  <2> QED BY <2>3, <2>4, Zenon
<1> QED BY <1>4, <1>5, Zenon DEF Write, us, ss

LEMMA QuietSessions ==
  ASSUME FlashInv, Begin \/ Cancel \/ Clean \/ Finish
  PROVE  FlashInv'
<1>1. dev \in Devices /\ Coherent(dev) /\ sess \in Sessions /\ RecordOK(sess) /\ hung # "read"
  BY Zenon DEF FlashInv, FlashTypeOK, ReadsSurvive
<1>2. CASE Begin
  <2> DEFINE s == [NoSession EXCEPT !.state = "writing"]
             out == Out(dev, "ok")
  <2>1. s \in Sessions /\ s.state = "writing" /\ RecordOK(s) /\ \A d : Intact(d, s)
    BY EmptySession, Zenon
  <2>2. sess.state = "ready" /\ sess' = s /\ UNCHANGED <<port, dev, hung, faults, cuts>>
    BY <1>2, Zenon DEF Begin
  <2> HIDE DEF s
  <2>3. out.dev = dev /\ out.rc = "ok" /\ out.errs = 0
    BY OutFact
  <2> HIDE DEF out
  <2>4. EndsReading(out, s, {})
    BY <2>2, <2>3, SizeNat DEF EndsReading, Reading, Hangs, FlashInv, FlashTypeOK
  <2>5. sess.state # "staged"
    BY <2>2, Zenon
  <2>6. cuts = 0 /\ faults + 0 < 2 => dev.cell[TrailerUnit] # Trigger
    BY <2>5 DEF FlashInv, FlashTypeOK, NoTrigger
  <2>7. /\ out.dev \in Devices /\ Coherent(out.dev) /\ out.errs \in Nat /\ Intact(out.dev, s)
        /\ cuts = 0 /\ faults + out.errs < 2 => out.dev.cell[TrailerUnit] # Trigger
    BY <1>1, <2>1, <2>3, <2>6
  <2> QED BY <2>1, <2>4, <2>7, EndsInv, Zenon
<1>3. CASE Cancel
  <2>1. sess.state # "staged" /\ Ends(Out(dev, "ok"), Failed)
    BY <1>3, Zenon DEF Cancel
  <2> QED BY <1>1, <2>1, OutFact, FailedInv DEF Ends
<1>4. CASE Clean
  <2>1. sess.state = "failed" /\ EndsReading(Out(dev, "ok"), NoSession, {})
    BY <1>4, Zenon DEF Clean, Ends
  <2>2. cuts = 0 /\ faults + 0 < 2 => dev.cell[TrailerUnit] # Trigger
    BY <2>1 DEF FlashInv, FlashTypeOK, NoTrigger
  <2> QED BY <1>1, <2>1, <2>2, OutFact, EmptySession, EndsInv DEF Lasting
<1>5. CASE Finish
  <2> DEFINE c == [sess EXCEPT !.state = "candidate"]
  <2>1. /\ sess.state = "writing" /\ sess' \in {c, Failed} /\ hung' \in {hung, "direct"}
        /\ UNCHANGED <<port, dev, faults, cuts>>
    BY <1>5, Zenon DEF Finish, Reading
  <2>2. /\ c \in Sessions /\ c.state = "candidate" /\ c.erased = sess.erased
        /\ c.sectors = sess.sectors /\ c.written = sess.written
    BY <1>1, Zenon DEF Sessions
  <2> HIDE DEF c
  <2>3. sess' \in Sessions /\ RecordOK(sess') /\ (sess'.state \in Lasting => sess' = c)
    BY <1>1, <2>1, <2>2, EmptySession DEF RecordOK, Known, Lasting
  <2>4. RecordOK(sess)' /\ FlashTypeOK' /\ Coherent(dev)' /\ ReadsSurvive'
    BY <1>1, <2>1, <2>3, Zenon DEF FlashInv, FlashTypeOK, Coherent, ReadsSurvive, RecordOK, Known
  <2>5. (sess.state \in {"writing", "candidate", "staged"} => Intact(dev, sess))'
    BY <2>1, <2>2, <2>3 DEF Lasting, Intact, FlashInv
  <2>6. NoTrigger'
    BY <2>1, Zenon DEF NoTrigger, FlashInv
  <2> QED BY <2>4, <2>5, <2>6, Zenon DEF FlashInv
<1> QED BY <1>2, <1>3, <1>4, <1>5, Zenon

\* The state of the staged image does not depend on the trailer's sector.
LEMMA TrailerOnly ==
  ASSUME FlashInv, sess.state \in Lasting, NEW d,
         \A u \in Units \ Trailer : d.cell[u] = dev.cell[u]
  PROVE  Intact(d, sess)
BY Zenon DEF FlashInv, Lasting, Intact

\* wt_fwu_backend_disarm on any device
LEMMA DisarmedFact ==
  ASSUME NEW d \in Devices, NEW o \in Disarmed(d)
  PROVE  Result(o, d, Trailer, [u \in Trailer |-> Blank])
BY OutcomeFact, GroupFact, TrailerFact, Zenon DEF Disarmed, Cells

LEMMA RejectInv ==
  ASSUME FlashInv, Reject
  PROVE  FlashInv'
<1>1. /\ dev \in Devices /\ Coherent(dev) /\ sess \in Sessions /\ RecordOK(sess)
      /\ sess.state = "staged"
  BY Zenon DEF FlashInv, FlashTypeOK, Reject
<1>2. PICK o \in Disarmed(dev) : Ends(o, IF o.rc = "ok" THEN Failed ELSE sess)
  BY Zenon DEF Reject
<1>3. Result(o, dev, Trailer, [u \in Trailer |-> Blank])
  BY <1>1, DisarmedFact, Zenon
<1>4. /\ o.dev \in Devices /\ Coherent(o.dev) /\ o.errs \in Nat
      /\ \A u \in Units \ Trailer : o.dev.cell[u] = dev.cell[u]
      /\ o.rc = "ok" => o.dev.cell[TrailerUnit] # Trigger
  BY <1>1, <1>3, TrailerFact DEF Result
<1>5. CASE o.rc = "ok"
  BY <1>2, <1>4, <1>5, EmptySession, EndsInv, Zenon DEF Ends, Lasting
<1>6. CASE o.rc # "ok"
  BY <1>1, <1>2, <1>4, <1>6, TrailerOnly, EndsInv, Zenon DEF Ends, Lasting
<1> QED BY <1>5, <1>6, Zenon

\* The sector of the trailer is not one the staged image is in.
LEMMA ArmedSession ==
  ASSUME FlashInv, sess.state \in Lasting, NEW q \in Lasting, NEW a \in BOOLEAN, NEW s,
         s = [sess EXCEPT !.sectors = @ \cup {TrailerSector}, !.state = q, !.armed = a],
         NEW d, \A u \in Units \ Trailer : d.cell[u] = dev.cell[u]
  PROVE  s \in Sessions /\ s.state = q /\ RecordOK(s) /\ Intact(d, s)
<1>1. sess \in Sessions /\ sess.sectors \cup {TrailerSector} \in SUBSET Int
  BY TrailerFact, Zenon DEF FlashInv, FlashTypeOK, Sessions
<1>2. /\ s \in Sessions /\ s.state = q /\ s.erased = sess.erased
      /\ s.sectors = sess.sectors \cup {TrailerSector} /\ s.written = sess.written
  BY <1>1, Zenon DEF Sessions, Lasting
<1>3. \A x : Known(sess, x) => Known(s, x)
  BY <1>2, Zenon DEF Known
<1>4. RecordOK(s)
  BY <1>2, <1>3, TrailerFact, Zenon DEF RecordOK, FlashInv
<1>5. \A u \in Units \ Trailer : Sector[u] \in s.sectors => Sector[u] \in sess.sectors
  BY <1>2, Zenon DEF Trailer
<1>6. Intact(d, sess)
  BY TrailerOnly, Zenon
<1>7. Intact(d, s)
  BY <1>2, <1>5, <1>6, Zenon DEF Intact
<1> QED BY <1>2, <1>4, <1>7, Zenon

LEMMA ArmErasedFact ==
  ASSUME FlashInv, sess.state = "candidate", NEW e \in ArmErased
  PROVE  /\ e.dev \in Devices /\ Coherent(e.dev) /\ e.errs \in Nat
         /\ \A u \in Units \ Trailer : e.dev.cell[u] = dev.cell[u]
         /\ cuts = 0 /\ faults < 2 => e.dev.cell[TrailerUnit] # Trigger
<1>1. dev \in Devices /\ Coherent(dev)
      /\ (cuts = 0 /\ faults < 2 => dev.cell[TrailerUnit] # Trigger)
  BY Zenon DEF FlashInv, FlashTypeOK, NoTrigger
<1>2. CASE e = Out(dev, "ok")
  BY <1>1, <1>2, OutFact
<1>3. CASE e \in Disarmed(dev)
  <2>1. Result(e, dev, Trailer, [u \in Trailer |-> Blank])
    BY <1>1, <1>3, DisarmedFact, Zenon
  <2>2. e.dev.cell[TrailerUnit] \in Broken(dev.cell[TrailerUnit], Blank)
    BY <2>1, TrailerFact, Zenon DEF Result
  <2>3. cuts = 0 /\ faults < 2 => e.dev.cell[TrailerUnit] # Trigger
    BY <1>1, <2>2, Zenon DEF Broken, Trigger, Blank, Torn
  <2> QED BY <1>1, <2>1, <2>3 DEF Result
<1> QED BY <1>2, <1>3, Zenon DEF ArmErased

LEMMA ArmInv ==
  ASSUME FlashInv, Arm
  PROVE  FlashInv'
<1> DEFINE s == [sess EXCEPT !.sectors = @ \cup {TrailerSector}]
           New(e) == [u \in {TrailerUnit} |-> Programmed(e.dev.cell[u], Trigger)]
<1>1. /\ dev \in Devices /\ sess \in Sessions /\ RecordOK(sess) /\ faults \in Nat
      /\ sess.state = "candidate" /\ sess.state \in Lasting
  BY Zenon DEF FlashInv, FlashTypeOK, Arm, Lasting
<1>2. PICK e \in ArmErased :
        IF e.rc # "ok" THEN Ends(e, sess)
        ELSE \E p \in Outcomes(e.dev, {TrailerUnit}, Chunk, New(e)) :
               IF p.rc = "error" \/ (p.rc = "ok" /\ Mapped(p.dev, TrailerUnit) # Trigger)
               THEN \E o \in AfterFailedArm(p) : Ends(o, s)
               ELSE EndsReading(p, [s EXCEPT !.state = "staged", !.armed = TRUE], {TrailerUnit})
  BY Zenon DEF Arm
<1>3. /\ e.dev \in Devices /\ Coherent(e.dev) /\ e.errs \in Nat
      /\ \A u \in Units \ Trailer : e.dev.cell[u] = dev.cell[u]
      /\ cuts = 0 /\ faults < 2 => e.dev.cell[TrailerUnit] # Trigger
  BY <1>1, ArmErasedFact, Zenon
<1>4. CASE e.rc # "ok"
  <2>1. EndsReading(e, sess, {}) /\ Intact(e.dev, sess)
    BY <1>1, <1>2, <1>3, <1>4, TrailerOnly, Zenon DEF Ends
  <2>2. cuts = 0 /\ faults + e.errs < 2 => e.dev.cell[TrailerUnit] # Trigger
    BY <1>1, <1>3
  <2> QED BY <1>1, <1>3, <2>1, <2>2, EndsInv, Zenon
<1>5. CASE e.rc = "ok"
  <2> DEFINE new == New(e)
             t == [s EXCEPT !.state = "staged", !.armed = TRUE]
  <2>1. PICK p \in Outcomes(e.dev, {TrailerUnit}, Chunk, new) :
               IF p.rc = "error" \/ (p.rc = "ok" /\ Mapped(p.dev, TrailerUnit) # Trigger)
               THEN \E o \in AfterFailedArm(p) : Ends(o, s)
               ELSE EndsReading(p, t, {TrailerUnit})
    BY <1>2, <1>5, Zenon
  <2>2. \A u \in {TrailerUnit} : new[u] \in Cells /\ Chunk[u] \in Int
    BY TrailerFact, GroupFact, Zenon DEF Programmed, Cells
  <2> HIDE DEF new
  <2>3. Result(p, e.dev, {TrailerUnit}, new)
    BY <1>3, <2>2, OutcomeFact, TrailerFact, Zenon
  <2>4. /\ p.dev \in Devices /\ p.errs \in Nat /\ Coherent(p.dev)
        /\ p.errs = IF p.rc = "error" THEN 1 ELSE 0
        /\ \A u \in Units \ Trailer : p.dev.cell[u] = dev.cell[u]
        /\ p.rc = "ok" => Mapped(p.dev, TrailerUnit) = p.dev.cell[TrailerUnit]
    BY <1>3, <2>3, TrailerFact, NoLineFact, SectorFact DEF Result, Mapped
  <2>5. ASSUME NEW o \in AfterFailedArm(p), Ends(o, s),
               p.rc = "error" \/ (p.rc = "ok" /\ Mapped(p.dev, TrailerUnit) # Trigger)
        PROVE  FlashInv'
    <3>1. PICK q \in Disarmed(p.dev) :
            o = [q EXCEPT !.rc = IF @ = "cut" THEN "cut" ELSE "error", !.errs = p.errs + @]
      BY <2>5, Zenon DEF AfterFailedArm
    <3>2. Result(q, p.dev, Trailer, [u \in Trailer |-> Blank])
      BY <2>4, DisarmedFact, Zenon
    <3>3. o.dev = q.dev /\ o.errs = p.errs + q.errs /\ (o.rc = "cut" <=> q.rc = "cut")
      BY <3>1, <3>2
    <3>4. /\ o.dev \in Devices /\ o.errs \in Nat /\ Coherent(o.dev)
          /\ \A u \in Units \ Trailer : o.dev.cell[u] = dev.cell[u]
      BY <2>4, <3>2, <3>3 DEF Result
    <3>5. o.rc # "cut" /\ faults + o.errs < 2 => o.dev.cell[TrailerUnit] # Trigger
      <4>1. CASE q.rc = "ok"
        BY <3>2, <3>3, <4>1, TrailerFact, Zenon DEF Result
      <4>2. CASE q.rc = "error" /\ p.rc = "error"
        BY <1>1, <2>4, <3>2, <3>3, <4>2 DEF Result
      <4>3. CASE q.rc = "error" /\ p.rc = "ok"
        <5>1. q.dev.cell[TrailerUnit] \in Broken(p.dev.cell[TrailerUnit], Blank)
          BY <3>2, TrailerFact, Zenon DEF Result
        <5> QED BY <2>4, <2>5, <3>3, <4>3, <5>1, Zenon DEF Broken, Trigger, Blank, Torn
      <4> QED BY <2>5, <3>2, <3>3, <4>1, <4>2, <4>3, Zenon DEF Result
    <3>6. s \in Sessions /\ s.state = "candidate" /\ RecordOK(s) /\ Intact(o.dev, s)
      <4>1. s = [sess EXCEPT !.sectors = @ \cup {TrailerSector}, !.state = "candidate",
                             !.armed = sess.armed]
        BY <1>1, Zenon DEF Sessions
      <4>2. sess.armed \in BOOLEAN /\ "candidate" \in Lasting
        BY <1>1, Zenon DEF Sessions, Lasting
      <4> HIDE DEF s
      <4> QED BY <1>1, <3>4, <4>1, <4>2, ArmedSession, ZenonT(40)
    <3> HIDE DEF s
    <3> QED BY <2>5, <3>4, <3>5, <3>6, EndsInv, Zenon DEF Ends
  <2>6. CASE EndsReading(p, t, {TrailerUnit})
    <3>1. t \in Sessions /\ t.state = "staged" /\ RecordOK(t) /\ Intact(p.dev, t)
      <4>1. t = [sess EXCEPT !.sectors = @ \cup {TrailerSector}, !.state = "staged",
                             !.armed = TRUE]
        BY <1>1, Zenon DEF Sessions
      <4>2. TRUE \in BOOLEAN /\ "staged" \in Lasting
        BY Zenon DEF Lasting
      <4> HIDE DEF t
      <4> QED BY <1>1, <2>4, <4>1, <4>2, ArmedSession, Zenon
    <3> HIDE DEF t
    <3> QED BY <2>4, <2>6, <3>1, EndsInv, Zenon
  <2> QED BY <2>1, <2>5, <2>6, Zenon
<1> QED BY <1>4, <1>5, Zenon

-----------------------------------------------------------------------------
(* The flash drivers' invariant holds *)

LEMMA FlashInitInv == Init => FlashInv
<1> SUFFICES ASSUME Init PROVE FlashInv
  BY Zenon
<1> DEFINE c == [u \in Units |-> Blank]
<1>1. c \in [Units -> Cells]
  BY TrailerFact, Zenon
<1>2. dev = [cell |-> c, line |-> NoLine, clean |-> TRUE]
  BY Zenon DEF Init
<1> HIDE DEF c
<1>3. dev \in Devices /\ dev.cell = c /\ dev.line = NoLine
  BY <1>1, <1>2, NoLineFact, Zenon DEF Devices
<1>4. FlashTypeOK
  BY <1>3, EmptySession, FlashAssumption, Zenon DEF Init, FlashTypeOK
<1>5. Coherent(dev) /\ ReadsSurvive
  BY <1>3, Zenon DEF Init, Coherent, ReadsSurvive
<1>6. RecordOK(sess) /\ sess.state = "ready"
  BY EmptySession, Zenon DEF Init
<1>7. NoTrigger
  BY <1>3, TrailerFact, Zenon DEF NoTrigger, c
<1> QED BY <1>4, <1>5, <1>6, <1>7, Zenon DEF FlashInv

LEMMA FlashStepInv == FlashInv /\ [Next]_vars => FlashInv'
<1> SUFFICES ASSUME FlashInv, [Next]_vars PROVE FlashInv'
  BY Zenon
<1>1. ASSUME NEW ctx \in Gated, NEW off \in 0..NvmSize, NEW n \in 1..NvmSize, NEW v \in Values,
             Program(ctx, off, n, v)
      PROVE  FlashInv'
  BY <1>1, ProgramInv, Zenon
<1>2. ASSUME NEW ctx \in Gated, NEW off \in 0..NvmSize, NEW n \in 1..NvmSize, Erase(ctx, off, n)
      PROVE  FlashInv'
  BY <1>2, EraseInv, Zenon
<1>3. ASSUME NEW h \in 0..(2 * NvmSize - 1), NEW n \in 1..(2 * NvmSize - h), Read(h, n)
      PROVE  FlashInv'
  <2>1. h \in Nat /\ n \in Nat \ {0}
    BY SizeNat
  <2> QED BY <1>3, <2>1, ReadInv, Zenon
<1>4. ASSUME NEW u \in 0..(NvmSize - 1), Compare(u) PROVE FlashInv'
  <2>1. u \in Nat
    BY SizeNat
  <2> QED BY <1>4, <2>1, CompareInv, Zenon
<1>5. ASSUME NEW u \in Units, Fill(u) PROVE FlashInv'
  BY <1>5, FillInv, Zenon
<1>6. ASSUME NEW off \in 0..(FwuSize - 1), NEW n \in 1..SectorUnits, NEW v \in Values,
             Write(off, n, v)
      PROVE  FlashInv'
  BY <1>6, WriteInv, Zenon
<1>7. CASE Begin \/ Cancel \/ Clean \/ Finish
  BY <1>7, QuietSessions, Zenon
<1>8. CASE Arm
  BY <1>8, ArmInv, Zenon
<1>9. CASE Reject
  BY <1>9, RejectInv, Zenon
<1>10. CASE UNCHANGED vars
  <2>1. UNCHANGED <<port, dev, sess, faults, cuts>> /\ hung' # "read"
    BY <1>10, Zenon DEF vars, FlashInv, ReadsSurvive
  <2> QED BY <2>1, QuietInv, Zenon
<1> QED BY <1>1, <1>2, <1>3, <1>4, <1>5, <1>6, <1>7, <1>8, <1>9, <1>10, Zenon DEF Next

LEMMA FlashInvariant == Spec => []FlashInv
<1>1. Init => FlashInv
  BY FlashInitInv, Zenon
<1>2. FlashInv /\ [Next]_vars => FlashInv'
  BY FlashStepInv, Zenon
<1> QED BY <1>1, <1>2, PTL DEF Spec

\* For every geometry and any number of device errors and losses of power, the
\* cached line shows what the flash holds when a driver call has returned
\* (wt_flash_icache_invalidate, wt_xspi_read_path_flush).
THEOREM CacheStaysCoherent == Spec => []CacheCoherent
<1>1. FlashInv => CacheCoherent
  BY Zenon DEF FlashInv, Coherent, CacheCoherent
<1> QED BY <1>1, FlashInvariant, PTL

\* No read of the store's stops the processor, for a read of any length from any
\* half unit: the window NMI_Handler forgives covers every unit it touches
\* (wt_flash_read_checked).
THEOREM DamagedReadsSurvive == Spec => []ReadsSurvive
<1>1. FlashInv => ReadsSurvive
  BY Zenon DEF FlashInv
<1> QED BY <1>1, FlashInvariant, PTL

\* For every geometry and any order of writes, whatever the store does next to it:
\* the update partition holds what the session staged there, and no trigger
\* survives a failed arm (wt_fwu_ensure_erased, wt_fwu_backend_write, _arm).
THEOREM UpdateAreaStaysOK == Spec => []UpdateAreaOK
<1>1. FlashInv => UpdateAreaOK
  BY Zenon DEF FlashInv, NoTrigger, UpdateAreaOK, StagedIntact, Intact, ArmClean
<1> QED BY <1>1, FlashInvariant, PTL
=============================================================================
