------------------------------- MODULE XspiNor -------------------------------
(***************************************************************************)
(* The NOR driver of port/mimxrt700/xspi_nor.c: one sector or page at a    *)
(* time, from RAM and with interrupts masked, through commands it queues   *)
(* at the XSPI controller.  The processor executes from the same NOR       *)
(* device, so a call is over only when the device is; the device works on  *)
(* its own, between any two steps of the driver.                           *)
(***************************************************************************)
EXTENDS Integers

CONSTANTS MaxChunks,    \* bound: sectors or pages of a call
          MaxNorFaults  \* bound: transactions and device operations that fail

ASSUME NorAssumption == MaxChunks \in Nat \ {0} /\ MaxNorFaults \in Nat

VARIABLES drv,       \* the driver: where it is and what it will return
          die,       \* the NOR device
          norFaults

norVars == <<drv, die, norFaults>>

\* lut is the controller's table of sequences as the loader left it.
NorInit ==
  /\ \E lut \in {"ours", "loader"} :
       drv = [pc |-> "idle", op |-> "none", left |-> 0, rc |-> "none", masked |-> FALSE,
              page |-> FALSE, stale |-> FALSE, lut |-> lut]
  /\ die = [wel |-> FALSE, wip |-> FALSE, fail |-> FALSE, did |-> "none"]
  /\ norFaults = 0

Faulty == norFaults < MaxNorFaults
Count(bad) == norFaults' = IF bad THEN norFaults + 1 ELSE norFaults

-----------------------------------------------------------------------------
(* Transactions: what one returns, and whether the device saw it.          *)

Tx(rc, sent) == [rc |-> rc, sent |-> sent]

\* wt_xspi_ip_start: the address is refused or arbitration lost to an error
\* (bus), or a poll runs out and wt_xspi_recover resets the queue (timeout).
Started == {Tx("ok", TRUE)} \cup (IF Faulty THEN {Tx("bus", FALSE), Tx("timeout", FALSE)} ELSE {})

\* wt_xspi_ip_idle, wt_xspi_check_error, wt_xspi_ip_released
Settled == {"ok"} \cup (IF Faulty THEN {"bus", "timeout"} ELSE {})

\* wt_xspi_ip_command
IpCommand == UNION {IF t.rc = "ok" THEN {Tx(rc, TRUE) : rc \in Settled} ELSE {t} : t \in Started}

\* wt_xspi_ip_write: the words may also stop being taken midway; what was
\* taken is programmed.
IpWrite == IpCommand \cup (IF Faulty THEN {Tx("timeout", TRUE)} ELSE {})

\* wt_xspi_ip_read_word, wt_nor_read_reg: a read changes nothing.
ReadReg == {t.rc : t \in IpCommand}

-----------------------------------------------------------------------------
(* The device (external): it clears WIP when it is done, and with it WEL.  *)

DieFinishes(ok) ==
  /\ die.wip /\ (ok \/ Faulty)
  /\ die' = [wel |-> FALSE, wip |-> FALSE, fail |-> ~ok, did |-> IF ok THEN "done" ELSE "failed"]
  /\ Count(~ok)
  /\ UNCHANGED drv

\* A command without WEL, or to a busy device, is ignored.
DieTakes(t) ==
  IF ~t.sent \/ die.wip THEN die
  ELSE IF die.wel THEN [die EXCEPT !.wip = TRUE, !.fail = FALSE, !.did = "going"]
  ELSE [die EXCEPT !.did = "ignored"]

\* WREN may be lost on the device's side too.
DieEnabled(t, taken) == [die EXCEPT !.wel = @ \/ (t.sent /\ taken /\ ~die.wip)]

-----------------------------------------------------------------------------
(* The driver                                                              *)

\* wt_xspi_nor_erase, wt_xspi_nor_program: each chunk is staged in RAM and
\* runs masked. A range or an alignment they refuse changes nothing; in the
\* unmasked moment between two chunks nobody else drives the device.
Call(op, n) ==
  /\ drv.pc = "idle"
  /\ drv' = [drv EXCEPT !.pc = "lut", !.op = op, !.left = n, !.rc = "ok", !.masked = TRUE,
                        !.page = op = "program"]
  /\ die' = [die EXCEPT !.did = IF die.wip THEN @ ELSE "none"]
  /\ UNCHANGED norFaults

\* Every failure skips to the flush.
Onward(rc, pc) == [drv EXCEPT !.rc = rc, !.pc = IF rc = "ok" THEN pc ELSE "flush"]

\* wt_xspi_lut_install: rewritten when it differs, after the controller is idle.
LutInstall ==
  /\ drv.pc = "lut"
  /\ \E rc \in (IF drv.lut = "ours" THEN {"ok"} ELSE Settled \ {"bus"}) :
       /\ drv' = [Onward(rc, "ready") EXCEPT !.lut = IF rc = "ok" THEN "ours" ELSE @]
       /\ Count(rc # "ok")
  /\ UNCHANGED die

\* wt_nor_wait_ready, one poll at a time
WaitReady(pc, next) ==
  /\ drv.pc = pc
  /\ \/ \E rc \in ReadReg : \* the status read
          /\ rc = "ok" => ~die.wip
          /\ drv' = Onward(rc, next)
          /\ Count(rc # "ok")
     \/ /\ die.wip /\ Faulty \* WT_XSPI_BUSY_LIMIT
        /\ drv' = Onward("timeout", next)
        /\ Count(TRUE)
  /\ UNCHANGED die

\* MUTANT: the write enable latch is not read back.
WelReadOf(rc, d) == rc

\* The check of WEL at the end of wt_nor_write_enable.
WelRead(rc, d) == IF rc = "ok" /\ ~d.wel THEN "device" ELSE rc

\* wt_nor_write_enable
WriteEnable ==
  /\ drv.pc = "wren"
  /\ \E t \in IpCommand, taken \in {TRUE} \cup (IF Faulty THEN {FALSE} ELSE {}), read \in ReadReg :
       LET d == DieEnabled(t, taken)
           rc == IF t.rc = "ok" THEN WelRead(read, d) ELSE t.rc
       IN /\ t.rc # "ok" => read = "ok"
          /\ die' = d
          /\ drv' = Onward(rc, "command")
          /\ Count(t.rc # "ok" \/ ~taken \/ read # "ok")

\* WT_NOR_SEQ_SE or WT_NOR_SEQ_PP
Command ==
  /\ drv.pc = "command"
  /\ \E t \in IF drv.op = "erase" THEN IpCommand ELSE IpWrite :
       /\ die' = DieTakes(t)
       /\ drv' = [Onward(t.rc, "done") EXCEPT !.stale = @ \/ DieTakes(t).wip]
       /\ Count(t.rc # "ok")

\* The latch the device keeps of a program or an erase it refused.
FailRead(rc) == IF rc = "ok" /\ die.fail THEN "device" ELSE rc

\* wt_nor_check_fail
CheckFail ==
  /\ drv.pc = "check"
  /\ \E read \in ReadReg :
       /\ drv' = Onward(FailRead(read), "flush")
       /\ Count(read # "ok")
  /\ UNCHANGED die

\* wt_xspi_read_path_flush, and the loop of the call: the next chunk, or the
\* page wiped and back to flash code.
Flush ==
  /\ drv.pc = "flush"
  /\ \E flushed \in {TRUE} \cup (IF Faulty THEN {FALSE} ELSE {}) :
       LET rc == IF drv.rc = "ok" /\ ~flushed THEN "timeout" ELSE drv.rc
           more == rc = "ok" /\ drv.left > 1
       IN /\ drv' = [drv EXCEPT !.rc = rc, !.left = @ - 1, !.pc = IF more THEN "lut" ELSE "idle",
                                !.stale = die.wip \/ (@ /\ ~flushed),
                                !.masked = more, !.page = @ /\ more]
          /\ die' = [die EXCEPT !.did = IF more THEN "none" ELSE @]
          /\ Count(~flushed)

NorNext ==
  \/ \E op \in {"erase", "program"}, n \in 1..MaxChunks : Call(op, n)
  \/ LutInstall
  \/ WaitReady("ready", "wren")
  \/ WriteEnable
  \/ Command
  \/ WaitReady("done", "check")
  \/ CheckFail
  \/ Flush
  \/ \E ok \in BOOLEAN : DieFinishes(ok)

NorSpec == NorInit /\ [][NorNext]_norVars

-----------------------------------------------------------------------------
(* Properties                                                              *)

\* A call that reports success left the device idle, with the last chunk
\* taken and not refused ("WIP clearing alone is not success",
\* xspi_nor.c:413), the read caches flushed since, the page buffer wiped and
\* interrupts as they were.
OkMeansDone ==
  drv.pc = "idle" /\ drv.rc = "ok" =>
    ~die.wip /\ die.did = "done" /\ ~drv.stale /\ ~drv.page /\ ~drv.masked

\* The erase or program command goes only to an idle device whose write
\* enable latch the driver has seen, with its own sequence in the table.
CommandArmed == drv.pc = "command" => die.wel /\ ~die.wip /\ drv.lut = "ours"

\* The driver and the device agree at the two points that matter: where the
\* command is sent and where success is reported (wt_xspi_nor_erase, _program).
NorAgrees == OkMeansDone /\ CommandArmed
==============================================================================
