-------------------------------- MODULE SpiLink --------------------------------
(***************************************************************************)
(* The SPI slave the host talks to, in its normal (callback) mode:         *)
(* hal/ti/transport_hw_ti_spi.c, the self-heals of cc3501e_hw_link_heal    *)
(* (hal/ti/cc3501e_hw_ti.c), and every place the drain task tears the      *)
(* slave down and arms it again (worker_run_pending, the BLE bodies, the   *)
(* connect body, the OTA pump's quiesce bracket).                          *)
(*                                                                         *)
(* The host clocks an armed transfer whenever it likes: on this board the  *)
(* READY net is open (README.md:385), so READY does not hold it back.  The *)
(* transfer callback is one step.  A re-init is one step too: while the    *)
(* handle is closed no callback can run.  SPI_open and SPI_transfer may    *)
(* fail, MaxFaults times in all.                                           *)
(*                                                                         *)
(* Counters the code only compares are kept as the comparison: armFail is  *)
(* g_arm_fail_count # last_arm_fail, traffic is xfer_count #               *)
(* quiet_arm_after_xfer_count, late is "CC3501E_REPLY_STALL_MS have passed *)
(* since the reply was armed".                                             *)
(***************************************************************************)
EXTENDS Naturals

CONSTANTS MaxFaults,   \* failures of SPI_open and SPI_transfer
          MaxResync    \* junk headers counted before a heal clears the count

ASSUME LinkAssumption == MaxFaults \in Nat /\ MaxResync \in Nat

VARIABLES
    link,     \* the slave: handle, armed transfer, phase, READY, flags
    armFail,  \* an arm failure the heal has not seen
    resync,   \* g_resync_count and last_resync
    task,     \* where the drain task stands
    quiet,    \* quiet re-arm: fired in this connect, traffic in this connect
    faults    \* failures so far

linkVars == <<link, armFail, resync, task, quiet, faults>>

Phases == {"REQ_HEADER", "REQ_PAYLOAD", "REPLY_HEADER", "REPLY_PAYLOAD"}
Outcomes == {"ok", "arm_fails", "open_fails"}
Jobs == {"skip", "radio", "ble", "ble_disconnect", "connect"}

-------------------------------------------------------------------------------
(* arm_transfer, for phase ph; ok says whether SPI_transfer accepts.  The  *)
(* stall timer covers every phase but the request header.                  *)

Armed(l, ph, ok) ==
    [l EXCEPT !.phase = ph, !.armed = ok /\ ~l.quiesce, !.ready = ok /\ ~l.quiesce,
              !.timed = ok /\ ~l.quiesce /\ ph # "REQ_HEADER", !.late = FALSE]

(* bridge_transport_spi_hw_reinit: close, open, arm the request header.  A *)
(* failed open leaves the phase as it was, a failed arm the READY line.    *)
Reopened(l, o) ==
    IF o = "open_fails"
    THEN [l EXCEPT !.open = FALSE, !.armed = FALSE, !.timed = FALSE, !.late = FALSE,
                   !.dead = TRUE]
    ELSE [Armed([l EXCEPT !.open = TRUE, !.dead = FALSE], "REQ_HEADER", o = "ok")
             EXCEPT !.ready = l.ready \/ o = "ok"]

Fault(failed) ==
    /\ failed => faults < MaxFaults
    /\ faults' = IF failed THEN faults + 1 ELSE faults

(* A re-init from link state l; it empties the resync count once open.     *)
Reinit(l, o) ==
    /\ Fault(o # "ok")
    /\ link' = Reopened(l, o)
    /\ resync' = IF o = "open_fails" THEN resync ELSE [resync EXCEPT !.count = 0]

Busy(l) == [l EXCEPT !.ready = FALSE]
Ready(l) == [l EXCEPT !.ready = TRUE]

Closed == [open |-> FALSE, armed |-> FALSE, phase |-> "REQ_HEADER", timed |-> FALSE,
           late |-> FALSE, ready |-> FALSE, dead |-> FALSE, quiesce |-> FALSE]

(* transport_spi_init, then READY is raised whatever came of it (main.c).  *)
LinkInit ==
    /\ \E o \in Outcomes : /\ link = Ready(Reopened(Closed, o))
                           /\ armFail = (o = "arm_fails")
                           /\ faults = IF o = "ok" THEN 0 ELSE 1
                           /\ faults <= MaxFaults
    /\ resync = [count |-> 0, last |-> 0]
    /\ task = [pc |-> "idle", job |-> "none", rearmed |-> TRUE]
    /\ quiet = [fired |-> FALSE, traffic |-> FALSE]

-------------------------------------------------------------------------------
(* on_transfer: the armed transfer ends.  `what` is what a completed       *)
(* request header turns out to be: junk (a vendor-range opcode), a request *)
(* without payload, or one with.                                           *)

NextPhase(what) ==
    CASE link.phase = "REQ_HEADER" -> CASE what = "junk" -> "REQ_HEADER"
                                        [] what = "short" -> "REPLY_HEADER"
                                        [] OTHER -> "REQ_PAYLOAD"
      [] link.phase = "REQ_PAYLOAD" -> "REPLY_HEADER"
      [] link.phase = "REPLY_HEADER" -> "REPLY_PAYLOAD"
      [] OTHER -> "REQ_HEADER"

Rearm(ph, ok) ==
    /\ Fault(~ok)
    /\ link' = Armed(link, ph, ok)
    /\ armFail' = (armFail \/ (~ok /\ ~link.quiesce))
    /\ quiet' = [quiet EXCEPT !.traffic = TRUE]
    /\ UNCHANGED task

Completed(what, ok) ==
    /\ link.armed
    /\ what = "junk" => link.phase = "REQ_HEADER" /\ resync.count < MaxResync
    /\ Rearm(NextPhase(what), ok)
    /\ resync' = IF what = "junk" THEN [resync EXCEPT !.count = @ + 1] ELSE resync

TransferFailed(ok) ==
    /\ link.armed
    /\ Rearm("REQ_HEADER", ok)
    /\ UNCHANGED resync

(* Time passes: a transfer the host never clocks is overdue. *)
Elapse ==
    /\ link.timed /\ ~link.late
    /\ link' = [link EXCEPT !.late = TRUE]
    /\ UNCHANGED <<armFail, resync, task, quiet, faults>>

-------------------------------------------------------------------------------
(* The drain task: jobs (worker_run_pending), then the tick. *)

At(pc) == task.pc = pc
Goto(pc) == task' = [task EXCEPT !.pc = pc]

(* A re-init whose arm failure, if any, is left for the heal to see. *)
ReinitNoted(l, o) == Reinit(l, o) /\ armFail' = (armFail \/ o = "arm_fails")

JobTake(j) ==
    /\ At("idle")
    /\ link' = Busy(link)
    /\ task' = [pc |-> "body", job |-> j, rearmed |-> TRUE]
    /\ quiet' = IF j = "connect" THEN [fired |-> FALSE, traffic |-> FALSE] ELSE quiet
    /\ UNCHANGED <<armFail, resync, faults>>

NoJob ==
    /\ At("idle")
    /\ Goto("dead?")
    /\ UNCHANGED <<link, armFail, resync, quiet, faults>>

(* The body.  The BLE bodies re-init and raise READY whatever came of it;  *)
(* a connect that succeeds re-inits and hands the outcome on; a failed one *)
(* lets the drain re-init, or reports that there is no need.               *)
BodyPlain ==
    /\ At("body") /\ task.job \in {"skip", "radio", "connect"}
    /\ \E j \in IF task.job = "connect" THEN {"skip", "radio"} ELSE {task.job} :
          task' = [task EXCEPT !.pc = "ran", !.job = j]
    /\ UNCHANGED <<link, armFail, resync, quiet, faults>>

BodyBle(o) ==
    /\ At("body") /\ task.job \in {"ble", "ble_disconnect"}
    /\ Fault(o # "ok")
    /\ link' = Ready(Reopened(Busy(link), o))
    /\ resync' = IF o = "open_fails" THEN resync ELSE [resync EXCEPT !.count = 0]
    /\ armFail' = (armFail \/ o = "arm_fails")
    /\ Goto("ran")
    /\ UNCHANGED quiet

BodyConnected(o) ==
    /\ At("body") /\ task.job = "connect"
    /\ ReinitNoted(Busy(link), o)
    /\ task' = [pc |-> "ran", job |-> "skip", rearmed |-> o = "ok"]
    /\ UNCHANGED quiet

DrainReinit(o) ==
    /\ At("ran") /\ task.job \in {"radio", "ble"}
    /\ ReinitNoted(Busy(link), o)
    /\ task' = [task EXCEPT !.pc = "finish", !.rearmed = o = "ok"]
    /\ UNCHANGED quiet

DrainSkip ==
    /\ At("ran") /\ task.job \in {"skip", "ble_disconnect"}
    /\ Goto("finish")
    /\ UNCHANGED <<link, armFail, resync, quiet, faults>>

DrainFinish ==
    /\ At("finish")
    /\ link' = IF task.rearmed THEN Ready(link) ELSE link
    /\ task' = [pc |-> "dead?", job |-> "none", rearmed |-> TRUE]
    /\ UNCHANGED <<armFail, resync, quiet, faults>>

(* cc3501e_hw_link_heal: four checks in order, from the tick and, with the *)
(* quiet check behind them, from every slice of a connect's wait.          *)
HealBegin ==
    /\ At("body") /\ task.job = "connect"
    /\ Goto("dead?")
    /\ UNCHANGED <<link, armFail, resync, quiet, faults>>

HealPass(pc, next, holds) ==
    /\ At(pc) /\ holds
    /\ Goto(next)
    /\ UNCHANGED <<link, armFail, quiet, faults>>

(* Variant for mutation: nobody looks at the dead mark. *)
HealDeadNever(o) == HealPass("dead?", "resync?", TRUE) /\ UNCHANGED resync

HealDead(o) ==
    \/ HealPass("dead?", "resync?", ~link.dead) /\ UNCHANGED resync
    \/ /\ At("dead?") /\ link.dead
       /\ ReinitNoted(link, o)
       /\ Goto("resync?")
       /\ UNCHANGED quiet

HealResync(o) ==
    LET last == IF resync.count < resync.last THEN 0 ELSE resync.last IN
    \/ /\ HealPass("resync?", "armfail?", resync.count - last < 3)
       /\ resync' = [resync EXCEPT !.last = resync.count]
    \/ /\ At("resync?") /\ resync.count - last >= 3
       /\ Fault(o # "ok")
       /\ link' = Reopened(link, o)
       /\ resync' = [count |-> IF o = "open_fails" THEN resync.count ELSE 0, last |-> 0]
       /\ armFail' = (armFail \/ o = "arm_fails")
       /\ Goto("armfail?")
       /\ UNCHANGED quiet

(* Variant for mutation: last_arm_fail is read after the re-init. *)
HealArmFailLate(o) ==
    \/ HealPass("armfail?", "stall?", ~armFail) /\ UNCHANGED resync
    \/ /\ At("armfail?") /\ armFail
       /\ Reinit(link, o)
       /\ armFail' = FALSE
       /\ Goto("stall?")
       /\ UNCHANGED quiet

(* The count is read before the re-init, so a failure of the re-init's own *)
(* arm is still unseen afterwards.                                         *)
HealArmFail(o) ==
    \/ HealPass("armfail?", "stall?", ~armFail) /\ UNCHANGED resync
    \/ /\ At("armfail?") /\ armFail
       /\ Reinit(link, o)
       /\ armFail' = (o = "arm_fails")
       /\ Goto("stall?")
       /\ UNCHANGED quiet

AfterStall == IF task.job = "connect" THEN "quiet?" ELSE "ota?"

(* Variant for mutation: an overdue reply is not re-initialised. *)
HealStallNever(o) == HealPass("stall?", AfterStall, TRUE) /\ UNCHANGED resync

HealStall(o) ==
    \/ HealPass("stall?", AfterStall, ~link.late) /\ UNCHANGED resync
    \/ /\ At("stall?") /\ link.late
       /\ ReinitNoted(Busy(link), o)
       /\ Goto(AfterStall)
       /\ UNCHANGED quiet

(* The quiet re-arm: once per connect, after traffic in it, at an idle     *)
(* header that has been quiet for long (any time here).                    *)
HealQuiet(o) ==
    \/ HealPass("quiet?", "body", TRUE) /\ UNCHANGED resync
    \/ /\ At("quiet?") /\ ~quiet.fired /\ quiet.traffic /\ link.phase = "REQ_HEADER"
       /\ ReinitNoted(Busy(link), o)
       /\ quiet' = [quiet EXCEPT !.fired = TRUE]
       /\ Goto("body")

(* cc3501e_hw_ota_pump's bracket: quiesce, wait, release the handle, write *)
(* flash, re-init, raise READY whatever came of it.                        *)
OtaIdle ==
    /\ At("ota?")
    /\ Goto("idle")
    /\ UNCHANGED <<link, armFail, resync, quiet, faults>>

OtaQuiesce ==
    /\ At("ota?")
    /\ link' = [Busy(link) EXCEPT !.quiesce = TRUE]
    /\ Goto("quiesced")
    /\ UNCHANGED <<armFail, resync, quiet, faults>>

OtaRelease ==
    /\ At("quiesced")
    /\ link' = [link EXCEPT !.open = FALSE, !.armed = FALSE, !.phase = "REQ_HEADER",
                            !.timed = FALSE, !.late = FALSE]
    /\ Goto("flash")
    /\ UNCHANGED <<armFail, resync, quiet, faults>>

OtaReopen(o) ==
    /\ At("flash")
    /\ Fault(o # "ok")
    /\ link' = Ready(Reopened([link EXCEPT !.quiesce = FALSE], o))
    /\ resync' = IF o = "open_fails" THEN resync ELSE [resync EXCEPT !.count = 0]
    /\ armFail' = (armFail \/ o = "arm_fails")
    /\ Goto("idle")
    /\ UNCHANGED quiet

-------------------------------------------------------------------------------
Transfer == \E ok \in BOOLEAN : TransferFailed(ok) \/ \E w \in {"junk", "short", "long"} : Completed(w, ok)

(* Everything the task must do; taking another job, or checking again in a *)
(* connect's wait, it only may.                                            *)
Task ==
    \/ NoJob \/ BodyPlain \/ DrainSkip \/ DrainFinish \/ OtaIdle \/ OtaRelease
    \/ \E o \in Outcomes :
          \/ BodyBle(o) \/ BodyConnected(o) \/ DrainReinit(o)
          \/ HealDead(o) \/ HealResync(o) \/ HealArmFail(o) \/ HealStall(o) \/ HealQuiet(o)
          \/ OtaReopen(o)

LinkNext ==
    \/ Transfer
    \/ Elapse
    \/ \E j \in Jobs : JobTake(j)
    \/ HealBegin
    \/ OtaQuiesce
    \/ Task

LinkSpec == LinkInit /\ [][LinkNext]_linkVars

(* The drain task keeps running and its bodies return (each HAL call is    *)
(* bounded); a connect's wait ends; time passes.                           *)
FairSpec ==
    /\ LinkSpec
    /\ WF_linkVars(Task)
    /\ SF_linkVars(At("body") /\ Task)
    /\ WF_linkVars(Elapse)

-------------------------------------------------------------------------------
(* A slave that is not armed is never unnoticed: outside the OTA bracket   *)
(* the dead flag is up or an arm failure waits for the heal, whichever     *)
(* step failed and whoever called it (cc3501e_hw_ti.c:577-658).            *)
UnarmedIsSeen ==
    ~link.armed /\ ~link.quiesce => link.dead \/ armFail

(* The slave comes back: once its faults stop, an unarmed slave is armed   *)
(* again (the self-heals of cc3501e_hw_link_heal, #1133, #1610).           *)
LinkRecovers == ~link.armed ~> link.armed

(* A frame the host abandons does not hold the slave: it returns to the    *)
(* request header (bridge_transport_spi_phase_stalled).                    *)
FrameEnds == link.phase # "REQ_HEADER" ~> link.phase = "REQ_HEADER"
===============================================================================
