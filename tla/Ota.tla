--------------------------------- MODULE Ota ---------------------------------
(* The firmware update path: the session of cc3501e_hw_ti_ota.c, its sliding   *)
(* window, the pump that runs the flash work from the tick, the two deferred   *)
(* reboots, and the two modes the bridge boots in.                             *)
(*                                                                             *)
(* In update mode (polled) one task alternates a whole frame and a whole tick. *)
(* In the normal mode frames are dispatched by the SPI callback between any    *)
(* two steps of the tick, except while the pump has the slave closed, and      *)
(* psa_fwu_start and psa_fwu_write never return.                               *)
(*                                                                             *)
(* The flash slot and the host are external: the slot is what psa_fwu_* is     *)
(* used for, the host the caller the handlers' comments describe.  A byte is   *)
(* the pair of the host image it comes from and its offset there.              *)
EXTENDS Naturals, Sequences, FiniteSets, FiniteSetsExt

CONSTANTS Images,      \* the images a host may want to install
          ImageLen,    \* the length of each of them, in bytes
          Manifest,    \* TI_FWU_MANIFEST_SIZE
          Block,       \* CC3501E_OTA_FINISH_FLASH_BLOCK
          Window,      \* CC3501E_OTA_WINDOW
          Chunk,       \* the host's chunk, at most ALP_CC3501E_OTA_MAX_CHUNK
          MaxFaults    \* bound on lost replies, failed flash calls, resets and host restarts

(* The two static assertions of the session struct, and the room a flush must *)
(* find: a window too full for a chunk holds at least one block past the      *)
(* manifest.                                                                  *)
ASSUME SizesAssumption ==
    /\ Manifest \in Nat \ {0} /\ Block \in Nat \ {0} /\ Chunk \in Nat \ {0}
    /\ Window \in Nat /\ Window >= Manifest /\ Window % Block = 0
    /\ Manifest + Block + Chunk <= Window + 1
    /\ ImageLen \in [Images -> Nat] /\ MaxFaults \in Nat

VARIABLES ota,     \* the session struct
          slot,    \* the target slot: its psa_fwu state and its bytes
          dev,     \* boot mode, retained update-mode flag, the reboot latches
          pc,      \* where the task is in the frame/tick loop or in the tick
          host,    \* the host's update: image, phase and position
          faults   \* faults so far

vars == <<ota, slot, dev, pc, host, faults>>

-------------------------------------------------------------------------------
(* State.                                                                      *)

Blank == << >>
Offsets == UNION {0 .. ImageLen[m] - 1 : m \in Images}
Erased == [i \in Offsets |-> Blank]

NoSession == [state |-> "IDLE", total |-> 0, cursor |-> 0, op |-> "IDLE",
              inflight |-> FALSE, optotal |-> 0, base |-> 0, window |-> <<>>,
              flushed |-> 0, started |-> FALSE]

Phases == {"idle", "mode", "begin", "confirm", "write", "finish", "done", "fail"}
TickPcs == {"tick", "checked", "quiesced", "reopened", "latches", "reboot"}

Init ==
    /\ ota = NoSession
    /\ slot = [state |-> "READY", data |-> Erased]
    /\ dev = [polled |-> FALSE, flag |-> FALSE, reset |-> FALSE,
              reboot |-> FALSE, drained |-> FALSE]
    /\ pc = "tick"
    /\ host \in [img : Images, phase : {"idle"}, pos : {0}]
    /\ faults = 0

-------------------------------------------------------------------------------
(* The handlers the dispatch runs: the reply code and the session after it.    *)

ota_submit(o, op) ==
    [rc |-> "BUSY",
     o |-> IF o.inflight THEN o ELSE [o EXCEPT !.op = op, !.inflight = TRUE]]

Answer(o, rc) == [rc |-> rc, o |-> o]

(* Variant for mutation: any BEGIN of an open session is answered "already begun".           *)
BeginForgiving(o, total) ==
    CASE o.inflight -> Answer(o, "BUSY")
      [] ~o.inflight /\ o.state = "WRITING" -> Answer(o, "OK")
      [] OTHER ->
            ota_submit([o EXCEPT !.state = IF @ = "ERROR" THEN "IDLE" ELSE @,
                                 !.optotal = total], "BEGIN")

cc3501e_hw_ota_begin(o, total) ==
    CASE o.inflight -> Answer(o, "BUSY")
      [] ~o.inflight /\ o.state = "WRITING" ->
            Answer(o, IF total = o.total /\ o.cursor = 0 THEN "OK" ELSE "INVAL")
      [] OTHER ->
            ota_submit([o EXCEPT !.state = IF @ = "ERROR" THEN "IDLE" ELSE @,
                                 !.optotal = total], "BEGIN")

(* Variant for mutation: a full window answers BUSY without queueing the flush.               *)
WriteFullUnqueued(o, off, bytes) ==
    LET len == Len(bytes)
        o1 == [o EXCEPT !.window = @ \o bytes, !.cursor = @ + len]
    IN  CASE o.state # "WRITING" -> Answer(o, "INVAL")
          [] o.state = "WRITING" /\ o.inflight -> Answer(o, "BUSY")
          [] OTHER ->
                IF off + len <= o.cursor THEN Answer(o, "OK")
                ELSE IF off # o.cursor \/ off + len > o.total THEN Answer(o, "INVAL")
                ELSE IF len > Window - Len(o.window) THEN Answer(o, "BUSY")
                ELSE IF ~o.started /\ Len(o1.window) >= Manifest THEN ota_submit(o1, "FLUSH")
                ELSE Answer(o1, "OK")

cc3501e_hw_ota_write(o, off, bytes) ==
    LET len == Len(bytes)
        o1 == [o EXCEPT !.window = @ \o bytes, !.cursor = @ + len]
    IN  CASE o.state # "WRITING" -> Answer(o, "INVAL")
          [] o.state = "WRITING" /\ o.inflight -> Answer(o, "BUSY")
          [] OTHER ->
                IF off + len <= o.cursor THEN Answer(o, "OK")
                ELSE IF off # o.cursor \/ off + len > o.total THEN Answer(o, "INVAL")
                ELSE IF len > Window - Len(o.window) THEN ota_submit(o, "FLUSH")
                ELSE IF ~o.started /\ Len(o1.window) >= Manifest THEN ota_submit(o1, "FLUSH")
                ELSE Answer(o1, "OK")

(* Variant for mutation: with no session open, FINISH reports the image as already staged.   *)
FinishForgiving(o) ==
    IF o.state = "WRITING" THEN ota_submit(o, "FINISH") ELSE Answer(o, "OK")

cc3501e_hw_ota_finish(o) ==
    CASE o.state = "STAGED" -> Answer(o, "OK")
      [] o.state \in {"IDLE", "ERROR"} -> Answer(o, "INVAL")
      [] OTHER -> ota_submit(o, "FINISH")

cc3501e_hw_ota_abort(o) == Answer([NoSession EXCEPT !.optotal = o.optotal], "OK")

-------------------------------------------------------------------------------
(* The flash work.  An outcome is the session and the slot after the operation *)
(* and whether it returned CC3501E_HW_OK; with faults left, each psa_fwu call  *)
(* may also fail.                                                              *)

Outcome(o, s, ok, f) == [o |-> o, s |-> s, ok |-> ok, f |-> f]
MayFail == faults < MaxFaults

(* ota_do_begin: query (which may fail), walk the slot back to READY (whose    *)
(* failures are ignored), reset the session.                                   *)
ota_do_begin(o, s) ==
    LET begun == [NoSession EXCEPT !.state = "WRITING", !.total = o.optotal,
                                   !.op = o.op, !.inflight = o.inflight,
                                   !.optotal = o.optotal]
        ready == [state |-> "READY", data |-> Erased]
    IN  {Outcome(begun, ready, TRUE, 0)}
        \cup (IF MayFail THEN {Outcome(o, s, FALSE, 1), Outcome(begun, s, TRUE, 1)} ELSE {})

(* psa_fwu_start on the manifest at the head of the window.                    *)
SlotStart(o, s) ==
    [state |-> "WRITING",
     data |-> [i \in Offsets |-> IF i < Manifest THEN o.window[i + 1] ELSE s.data[i]]]

(* psa_fwu_write of the n bytes that follow the flushed ones.                  *)
SlotWrite(o, s, n) ==
    [s EXCEPT !.data = [i \in Offsets |->
        IF i \in o.flushed .. o.flushed + n - 1 THEN o.window[i - o.base + 1] ELSE @[i]]]

(* How many bytes a flush commits: all of them at the end, else whole blocks.  *)
Ready(o, final) ==
    LET n == o.base + Len(o.window) - o.flushed
        whole == n - (n % Block)
    IN  IF final \/ (whole = 0 /\ Len(o.window) >= Window) THEN n ELSE whole

Slid(o, n) ==
    LET stop == o.flushed + n
    IN  [o EXCEPT !.flushed = stop, !.base = stop,
                  !.window = SubSeq(@, stop - o.base + 1, Len(@))]

Opened(o) == IF o.started THEN o ELSE [o EXCEPT !.started = TRUE, !.flushed = Manifest]

ota_flush(o, s, final) ==
    LET o1 == Opened(o)
        s1 == IF o.started THEN s ELSE SlotStart(o, s)
        n == Ready(o1, final)
    IN  IF ~o.started /\ Len(o.window) < Manifest THEN {Outcome(o, s, FALSE, 0)}
        ELSE IF ~o.started /\ s.state # "READY" THEN {Outcome(o, s, FALSE, 0)}
        ELSE IF n = 0 THEN {Outcome(o1, s1, TRUE, 0)}
                           \cup (IF MayFail /\ ~o.started THEN {Outcome(o, s, FALSE, 1)} ELSE {})
        ELSE {Outcome(Slid(o1, n), SlotWrite(o1, s1, n), TRUE, 0)}
             \cup (IF MayFail
                   THEN {Outcome(o1, SlotWrite(o1, s1, k), FALSE, 1) :
                            k \in {b \in 0 .. n - 1 : b % Block = 0}}
                        \cup (IF o.started THEN {} ELSE {Outcome(o, s, FALSE, 1)})
                   ELSE {})

(* psa_fwu_finish then psa_fwu_install, each of which may fail.                *)
Install(r) ==
    LET at(state) == [r.s EXCEPT !.state = state]
    IN  {Outcome([r.o EXCEPT !.state = "STAGED"], at("STAGED"), TRUE, r.f)}
        \cup (IF MayFail THEN {Outcome(r.o, at(st), FALSE, 1) : st \in {"WRITING", "CANDIDATE"}}
                         ELSE {})

(* Variant for mutation: the result of the last flush is not looked at.                      *)
FinishUnflushed(o, s) ==
    IF o.cursor # o.total \/ o.total <= Manifest THEN {Outcome(o, s, FALSE, 0)}
    ELSE UNION {Install(r) : r \in ota_flush(o, s, TRUE)}

ota_do_finish(o, s) ==
    IF o.cursor # o.total \/ o.total <= Manifest THEN {Outcome(o, s, FALSE, 0)}
    ELSE UNION {IF r.ok /\ r.o.flushed = r.o.total THEN Install(r)
                ELSE {[r EXCEPT !.ok = FALSE]} : r \in ota_flush(o, s, TRUE)}

(* The pump's switch on the queued operation, and the ERROR latch after it.    *)
RunOp(o, s) ==
    CASE o.op = "BEGIN"  -> ota_do_begin(o, s)
      [] o.op = "FLUSH"  -> ota_flush(o, s, FALSE)
      [] o.op = "FINISH" -> ota_do_finish(o, s)
      [] OTHER           -> {Outcome(o, s, FALSE, 0)}

Latched(r) == IF r.ok THEN r ELSE [r EXCEPT !.o.state = "ERROR"]

Pumped(o, s) == {Latched(r) : r \in RunOp(o, s)}

Published(o) == [o EXCEPT !.op = "IDLE", !.inflight = FALSE]

(* A FINISH that installed disarms the update-mode boot.                       *)
FlagAfter(d, r) == [d EXCEPT !.flag = @ /\ ~(r.o.op = "FINISH" /\ r.ok)]

(* Whether the operation reaches psa_fwu_start or psa_fwu_write.               *)
Flashes(o) ==
    /\ Len(o.window) >= Manifest \/ o.started
    /\ \/ o.op = "FLUSH" /\ (~o.started \/ Ready(o, FALSE) > 0)
       \/ o.op = "FINISH" /\ o.cursor = o.total /\ o.total > Manifest
                          /\ (~o.started \/ Ready(o, TRUE) > 0)

-------------------------------------------------------------------------------
(* Frames.  A frame is dispatched whole; its reply reaches the host ("seen"),  *)
(* is clocked but lost ("garbled"), or is never clocked at all ("unclocked",   *)
(* the only way for a frame that completes while the transport is quiesced:    *)
(* no reply phase can be armed any more).  The end of the reply payload phase  *)
(* sets reply_drained.                                                         *)

Open == pc = "frame" \/ (pc \in TickPcs)

Fates == IF pc = "quiesced" THEN {"unclocked"}
         ELSE {"seen"} \cup (IF faults = MaxFaults THEN {}
                             ELSE IF dev.polled THEN {"garbled"} ELSE {"garbled", "unclocked"})

Drained(d, fate) == [d EXCEPT !.drained = @ \/ fate # "unclocked"]

Exchange(d, seen) ==
    /\ Open
    /\ \E fate \in Fates :
        /\ dev' = Drained(d, fate)
        /\ host' = IF fate = "seen" THEN seen ELSE host
        /\ faults' = IF fate = "seen" \/ pc = "quiesced" THEN faults ELSE faults + 1
    /\ pc' = IF dev.polled THEN "tick" ELSE pc
    /\ UNCHANGED slot

At(phase) == [host EXCEPT !.phase = phase]

(* OTA_UPDATE_MODE 1: answers the running mode; arms the flag and the reset    *)
(* when that is not the one asked for.  The host repeats it until they match.  *)
UpdateMode ==
    /\ host.phase = "mode"
    /\ Exchange(IF dev.polled THEN dev
                ELSE [dev EXCEPT !.flag = TRUE, !.reset = TRUE, !.drained = FALSE],
                IF dev.polled THEN At("begin") ELSE host)
    /\ UNCHANGED ota

(* OTA_UPDATE_MODE 0, the way back to the normal bridge.                       *)
LeaveMode ==
    /\ host.phase = "idle"
    /\ Exchange(IF dev.polled THEN [dev EXCEPT !.flag = FALSE, !.reset = TRUE, !.drained = FALSE]
                ELSE dev, host)
    /\ UNCHANGED ota

Begin ==
    LET a == cc3501e_hw_ota_begin(ota, ImageLen[host.img])
        next == [OK |-> "write", BUSY |-> "confirm", INVAL |-> "fail"]
    IN  /\ host.phase = "begin"
        /\ ota' = a.o
        /\ Exchange(dev, At(next[a.rc]))

(* OTA_STATUS after a BEGIN: the session is open and untouched, or not yet.    *)
Confirm ==
    /\ host.phase = "confirm"
    /\ Exchange(dev, IF ota.inflight THEN host
                     ELSE IF ota.state = "WRITING"
                          THEN At(IF ota.cursor = 0 THEN "write" ELSE "fail")
                          ELSE At("begin"))
    /\ UNCHANGED ota

ChunkAt(m, pos) ==
    [i \in 1 .. Min({Chunk, ImageLen[m] - pos}) |-> <<m, pos + i - 1>>]

Write ==
    LET bytes == ChunkAt(host.img, host.pos)
        a == cc3501e_hw_ota_write(ota, host.pos, bytes)
        pos == host.pos + Len(bytes)
    IN  /\ host.phase = "write"
        /\ ota' = a.o
        /\ Exchange(dev,
                CASE a.rc = "OK" -> [host EXCEPT !.pos = pos,
                                        !.phase = IF pos = ImageLen[host.img] THEN "finish" ELSE @]
                  [] a.rc = "INVAL" -> At("fail")
                  [] OTHER -> host)

Finish ==
    LET a == cc3501e_hw_ota_finish(ota)
        next == [OK |-> "done", BUSY |-> "finish", INVAL |-> "fail"]
    IN  /\ host.phase = "finish"
        /\ ota' = a.o
        /\ Exchange(dev, At(next[a.rc]))

(* The host gives up, whatever the answer, and starts over.                    *)
Abort ==
    /\ host.phase \in {"fail", "done"}
    /\ ota' = cc3501e_hw_ota_abort(ota).o
    /\ Exchange(dev, [host EXCEPT !.phase = "idle", !.pos = 0])

Promote ==
    /\ host.phase \in {"done", "idle"}
    /\ Exchange([dev EXCEPT !.flag = FALSE, !.drained = FALSE, !.reboot = TRUE],
                [host EXCEPT !.phase = "idle", !.pos = 0])
    /\ UNCHANGED ota

(* A host starts an update, with or without asking for update mode first; one  *)
(* that restarts forgets the update it was in.                                 *)
Start ==
    /\ host.phase = "idle" \/ faults < MaxFaults
    /\ host' \in [img : Images, phase : {"mode", "begin"}, pos : {0}]
    /\ faults' = IF host.phase = "idle" THEN faults ELSE faults + 1
    /\ UNCHANGED <<ota, slot, dev, pc>>

-------------------------------------------------------------------------------
(* Reboots.  RAM starts over; the retained flag chooses the mode and is        *)
(* cleared as it is read.                                                      *)

Booted(flag) == [polled |-> flag, flag |-> FALSE, reset |-> FALSE,
                 reboot |-> FALSE, drained |-> FALSE]

Reboot(s, d) ==
    /\ ota' = NoSession
    /\ slot' = s
    /\ dev' = Booted(d.flag)
    /\ pc' = "tick"
    /\ UNCHANGED host

(* A power cycle or nRESET: the retained word does not survive it.             *)
HardReset ==
    /\ pc = "hung" \/ faults < MaxFaults
    /\ faults' = IF pc = "hung" THEN faults ELSE faults + 1
    /\ ota' = NoSession
    /\ dev' = Booted(FALSE)
    /\ pc' = "tick"
    /\ host' = IF pc = "hung" THEN [host EXCEPT !.phase = "mode", !.pos = 0] ELSE host
    /\ UNCHANGED slot

(* psa_fwu_request_reboot: a STAGED slot is swapped in and the other slot      *)
(* becomes the target.  It returns only when the swap is refused.              *)
AfterSwap(s) == IF s.state = "STAGED" THEN [state |-> "READY", data |-> Erased] ELSE s
Refused(d) == [d EXCEPT !.reboot = FALSE]

-------------------------------------------------------------------------------
(* The tick in update mode: pump and latches, between two frames.              *)
TickPolled ==
    /\ pc = "tick" /\ dev.polled
    /\ \E r \in IF ota.inflight THEN Pumped(ota, slot) ELSE {Outcome(ota, slot, TRUE, 0)} :
        LET d == FlagAfter(dev, r)
            Served(dd) == /\ ota' = IF ota.inflight THEN Published(r.o) ELSE ota
                          /\ slot' = r.s
                          /\ dev' = dd
                          /\ pc' = "frame"
                          /\ UNCHANGED host
        IN  /\ faults' = faults + r.f
            /\ \/ d.reset /\ d.drained /\ Reboot(r.s, d)
               \/ /\ ~d.reset /\ d.reboot /\ d.drained
                  /\ Reboot(AfterSwap(r.s), d) \/ Served(Refused(d))
               \/ ~((d.reset \/ d.reboot) /\ d.drained) /\ Served(d)

(* The tick in normal mode, a step at a time.                                  *)
Goto(from, to) == pc = from /\ ~dev.polled /\ pc' = to

PumpCheck ==
    /\ Goto("tick", IF ota.inflight THEN "checked" ELSE "latches")
    /\ UNCHANGED <<ota, slot, dev, host, faults>>

PumpQuiesce == Goto("checked", "quiesced") /\ UNCHANGED <<ota, slot, dev, host, faults>>

PumpRelease == Goto("quiesced", "body") /\ UNCHANGED <<ota, slot, dev, host, faults>>

PumpBody ==
    /\ ~Flashes(ota)
    /\ Goto("body", "reopened")
    /\ \E r \in Pumped(ota, slot) :
        /\ ota' = r.o
        /\ slot' = r.s
        /\ dev' = FlagAfter(dev, r)
        /\ faults' = faults + r.f
    /\ UNCHANGED host

PumpHangs ==
    /\ Flashes(ota)
    /\ Goto("body", "hung")
    /\ UNCHANGED <<ota, slot, dev, host, faults>>

PumpPublish ==
    /\ Goto("reopened", "latches")
    /\ ota' = Published(ota)
    /\ UNCHANGED <<slot, dev, host, faults>>

ResetLatch ==
    /\ pc = "latches" /\ ~dev.polled
    /\ IF dev.reset /\ dev.drained THEN Reboot(slot, dev) /\ UNCHANGED faults
       ELSE pc' = "reboot" /\ UNCHANGED <<ota, slot, dev, host, faults>>

RebootLatch ==
    /\ pc = "reboot" /\ ~dev.polled
    /\ \/ /\ dev.reboot /\ dev.drained
          /\ Reboot(AfterSwap(slot), dev)
          /\ UNCHANGED faults
       \/ /\ pc' = "tick"
          /\ dev' = IF dev.drained THEN Refused(dev) ELSE dev
          /\ UNCHANGED <<ota, slot, host, faults>>

-------------------------------------------------------------------------------
Frame == \/ UpdateMode \/ LeaveMode \/ Begin \/ Confirm \/ Write \/ Finish
         \/ Abort \/ Promote

Task == \/ TickPolled
        \/ PumpCheck \/ PumpQuiesce \/ PumpRelease \/ PumpBody \/ PumpHangs \/ PumpPublish
        \/ ResetLatch \/ RebootLatch

Next == Frame \/ Start \/ HardReset \/ Task

Spec == Init /\ [][Next]_vars

(* The task loop keeps running, a host in the middle of an update keeps        *)
(* polling (poll by repeat), and one that finds the device hung resets it.     *)
InUpdate == host.phase \notin {"idle", "done"}
FairSpec ==
    /\ Spec
    /\ WF_vars(Task)
    /\ WF_vars(InUpdate /\ Frame)
    /\ WF_vars(pc = "hung" /\ HardReset)

-------------------------------------------------------------------------------
(* Properties.                                                                 *)

Holds(data, m) == \A i \in Offsets : data[i] = IF i < ImageLen[m] THEN <<m, i>> ELSE Blank

(* Accepted bytes are either still in the window, which never outgrows its     *)
(* buffer, or already committed to the slot: never lost in between, each at    *)
(* its own offset, and all from one image.  Re-sent chunks, lost replies and   *)
(* host restarts splice nothing.                                               *)
AcceptedKept ==
    /\ Len(ota.window) <= Window
    /\ ota.state = "WRITING" =>
        \E m \in Images : \A i \in 0 .. ota.cursor - 1 :
            <<m, i>> = IF i < ota.flushed THEN slot.data[i] ELSE ota.window[i - ota.base + 1]

(* A slot that is STAGED (what PROMOTE swaps in) holds one whole image, byte   *)
(* for byte, whatever aborts, resets, failed flash calls and abandoned         *)
(* sessions came before or after.                                              *)
StagedWhole == slot.state = "STAGED" => \E m \in Images : Holds(slot.data, m)

(* A host that is told its update is finished has its own image in the slot,   *)
(* staged: the idempotent answers of FINISH never report someone else's.       *)
FinishedIsMine ==
    [][(host.phase # "done" /\ host'.phase = "done")
        => (slot.state = "STAGED" /\ Holds(slot.data, host.img))]_vars

(* An update ends: with the image staged, or with the host giving it up.  No   *)
(* window is too full to flush and too empty to take the chunk, no BEGIN or    *)
(* mode request is swallowed for ever by the pump that publishes over it.      *)
UpdateEnds == InUpdate ~> ~InUpdate

(* A swap reboot lands in the normal bridge: promote and a finish disarm the   *)
(* update-mode flag so that the swapped image does not come up deaf to the     *)
(* radio.                                                                      *)
SwapLandsNormal == [][(RebootLatch /\ ota' = NoSession /\ dev.reboot) => ~dev'.polled]_vars
=============================================================================
