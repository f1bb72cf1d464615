--------------------------------- MODULE Spi1 ---------------------------------
(***************************************************************************)
(* The SPI1 passthrough: CONFIGURE, TRANSFER and RELEASE of the bridge's   *)
(* second SPI controller (src/src/protocol_spi.c, the bodies in            *)
(* src/src/worker.c and the driver in                                      *)
(* src/hal/ti/cc3501e_hw_ti_spi_master.c).                                 *)
(*                                                                         *)
(* Two layers keep a record of the bus and neither can ask the other: the  *)
(* handlers' g_configured and g_cs_held, written in the SPI callback when  *)
(* a result is collected, and the driver's handle and cs_held, written on  *)
(* the worker task when the body runs.                                     *)
(*                                                                         *)
(* TRANSFER has a replay rule of its own: a finished transfer stays in the *)
(* worker slot and answers every re-send with its seq.  CONFIGURE and      *)
(* RELEASE use the generic retry latch, as does Other, which stands for    *)
(* any worker-routed opcode outside this family.                           *)
(*                                                                         *)
(* Requests are numbered in the order the host issues them.  A request     *)
(* number is also its header seq: the 5-bit seq does not wrap within       *)
(* MaxReq requests.  The transfer's own seq is the number modulo XferSeqs  *)
(* (8 bits in the code).  CONFIGURE acquires the controller for one user   *)
(* of the host, so this family has one request outstanding at a time, and  *)
(* another thread of the host has one of Other.                            *)
(***************************************************************************)
EXTENDS Naturals, Sequences

CONSTANTS MaxReq,      \* requests of a behaviour
          XferSeqs     \* seqs of SPI1_TRANSFER

ASSUME Spi1Bounds == MaxReq \in 1..31 /\ XferSeqs \in Nat \ {0}

Family == {"CONFIGURE", "TRANSFER", "RELEASE"}
Ops == Family \cup {"OTHER"}
Reqs == 1 .. MaxReq
VARIABLES
    slot,          \* the worker's job slot; res is the response it maps to
    latch,         \* s_retry_latch
    g_configured,  \* the handlers' record: a CONFIGURE was collected
    g_cs_held,     \* the handlers' record: CS_HOLD of the last collected transfer
    bus,           \* the driver's record and the wire: handle open, CS asserted
    drain,         \* worker_run_pending: asleep, or inside a job
    req,           \* host: the requests issued so far
    asking,        \* host: the requests outstanding
    runs,          \* ghost: how often each transfer was clocked, up to 2
    told,          \* ghost: the last answer the host accepted, and to what
    excuse         \* ghost: what a transfer met that lets it be clocked again

vars == <<slot, latch, g_configured, g_cs_held, bus, drain, req, asking, runs, told, excuse>>

W == INSTANCE WorkerSlot WITH NoCmd <- "none", NoReq <- 0, NoRes <- "none"

NoLatch == [valid |-> FALSE, op |-> "none", n |-> 0, status |-> "none"]
NothingTold == [n |-> 0, status |-> "none"]

XferSeq(n) == n % XferSeqs

Init ==
    /\ slot = W!FreeSlot
    /\ latch = NoLatch
    /\ g_configured = FALSE /\ g_cs_held = FALSE
    /\ bus = [open |-> FALSE, held |-> FALSE]
    /\ drain = "sleep"
    /\ req = << >>
    /\ asking = {}
    /\ runs = [n \in Reqs |-> 0]
    /\ told = NothingTold
    /\ excuse = {}

firmware == <<slot, latch, g_configured, g_cs_held, bus, drain>>

-------------------------------------------------------------------------------
(* The host (external). *)

Issue(op, hold) ==
    /\ Len(req) < MaxReq
    /\ \A n \in asking : op = "OTHER" <=> req[n].op # "OTHER"
    /\ hold => op = "TRANSFER"
    /\ req' = Append(req, [op |-> op, hold |-> hold])
    /\ asking' = asking \cup {Len(req) + 1}
    /\ UNCHANGED <<firmware, runs, told, excuse>>

GiveUp(n) ==
    /\ n \in asking
    /\ asking' = asking \ {n}
    /\ UNCHANGED <<firmware, req, runs, told, excuse>>

(* BUSY, a lost reply and RESP_ERR_RADIO make the host send the frame      *)
(* again; any other reply that arrives ends the request.                   *)
Answer(n, status) ==
    \/ UNCHANGED <<asking, told>>
    \/ /\ status # "BUSY"
       /\ asking' = asking \ {n}
       /\ told' = [n |-> n, status |-> status]

(* Ghost: the poll of another opcode discards a finished transfer, which   *)
(* can then no longer be answered from the slot.                           *)
Discards == slot.cmd = "TRANSFER" /\ W!Terminal(slot) /\ slot' # slot
Disturb == excuse' = IF Discards THEN excuse \cup {slot.req} ELSE excuse

-------------------------------------------------------------------------------
(* What handle_worker_routed and handle_worker_routed_payload_reply do     *)
(* with request n: the status they answer, and the slot and latch after.   *)
Routed(n) ==
    LET op == req[n].op
        seen == W!worker_poll(slot, op)
        missed == IF latch.op = op THEN NoLatch ELSE latch
    IN  IF latch.valid /\ latch.op = op /\ latch.n = n
        THEN [status |-> latch.status, slot |-> slot, latch |-> latch]
        ELSE IF seen \in {"DONE", "ERR"}
        THEN [status |-> slot.res, slot |-> W!FreeSlot,
              latch |-> [valid |-> TRUE, op |-> op, n |-> n, status |-> slot.res]]
        ELSE [status |-> "BUSY", latch |-> missed,
              slot |-> W!worker_submit(W!SlotAfterPoll(slot, op), op, n, 0)]

PollOther(n) ==
    /\ n \in asking /\ req[n].op = "OTHER"
    /\ slot' = Routed(n).slot /\ latch' = Routed(n).latch
    /\ Answer(n, Routed(n).status)
    /\ Disturb
    /\ UNCHANGED <<g_configured, g_cs_held, bus, drain, req, runs>>

(* SPI1_CONFIGURE: refused at once over an open chain, else routed. *)
PollConfigureRefused(n) ==
    /\ n \in asking /\ req[n].op = "CONFIGURE"
    /\ g_cs_held
    /\ Answer(n, "STATE")
    /\ UNCHANGED <<firmware, req, runs, excuse>>

PollConfigure(n) ==
    /\ n \in asking /\ req[n].op = "CONFIGURE"
    /\ ~g_cs_held
    /\ slot' = Routed(n).slot /\ latch' = Routed(n).latch
    /\ g_configured' = (g_configured \/ Routed(n).status = "OK")
    /\ g_cs_held' = FALSE
    /\ Answer(n, Routed(n).status)
    /\ Disturb
    /\ UNCHANGED <<bus, drain, req, runs>>

(* SPI1_RELEASE: any answer but BUSY clears both of the handlers' flags. *)
PollRelease(n) ==
    /\ n \in asking /\ req[n].op = "RELEASE"
    /\ slot' = Routed(n).slot /\ latch' = Routed(n).latch
    /\ LET over == Routed(n).status # "BUSY"
       IN  /\ g_configured' = (g_configured /\ ~over)
           /\ g_cs_held' = (g_cs_held /\ ~over)
    /\ Answer(n, Routed(n).status)
    /\ Disturb
    /\ UNCHANGED <<bus, drain, req, runs>>

(* SPI1_TRANSFER.  No bus has been configured: nothing is queued. *)
PollTransferUnconfigured(n) ==
    /\ n \in asking /\ req[n].op = "TRANSFER"
    /\ ~g_configured
    /\ Answer(n, "NOT_READY")
    /\ UNCHANGED <<firmware, req, runs, excuse>>

(* Variant for mutation: a finished transfer answers whatever its seq. *)
ServesAnySeq(n) == W!worker_poll(slot, "TRANSFER") = "DONE"

(* The slot is the cache: a finished transfer with this seq is the answer. *)
Serves(n) ==
    /\ W!worker_poll(slot, "TRANSFER") = "DONE"
    /\ slot.seq = XferSeq(n)

(* Variant for mutation: the slot is freed as the shared helper frees it. *)
PollTransferServedFrees(n) ==
    /\ n \in asking /\ req[n].op = "TRANSFER"
    /\ g_configured
    /\ Serves(n)
    /\ slot' = W!FreeSlot
    /\ g_cs_held' = req[slot.req].hold
    /\ Answer(n, "OK")
    /\ UNCHANGED <<latch, g_configured, bus, drain, req, runs, excuse>>

PollTransferServed(n) ==
    /\ n \in asking /\ req[n].op = "TRANSFER"
    /\ g_configured
    /\ Serves(n)
    /\ g_cs_held' = req[slot.req].hold
    /\ Answer(n, "OK")
    /\ UNCHANGED <<slot, latch, g_configured, bus, drain, req, runs, excuse>>

(* A failed transfer ends the request, and the chain with it. *)
PollTransferFailed(n) ==
    /\ n \in asking /\ req[n].op = "TRANSFER"
    /\ g_configured
    /\ W!worker_poll(slot, "TRANSFER") = "ERR"
    /\ slot' = W!FreeSlot
    /\ g_cs_held' = FALSE
    /\ Answer(n, slot.res)
    /\ UNCHANGED <<latch, g_configured, bus, drain, req, runs, excuse>>

(* An older transfer's result makes room for this one; otherwise it is     *)
(* queued once the slot is free.                                           *)
PollTransferQueued(n) ==
    /\ n \in asking /\ req[n].op = "TRANSFER"
    /\ g_configured
    /\ ~Serves(n) /\ W!worker_poll(slot, "TRANSFER") # "ERR"
    /\ LET room == IF W!Terminal(slot) THEN W!FreeSlot ELSE slot
       IN  slot' = W!worker_submit(room, "TRANSFER", n, XferSeq(n))
    /\ Answer(n, "BUSY")
    /\ UNCHANGED <<latch, g_configured, g_cs_held, bus, drain, req, runs, excuse>>

Poll(n) ==
    \/ PollOther(n)
    \/ PollConfigureRefused(n) \/ PollConfigure(n)
    \/ PollRelease(n)
    \/ PollTransferUnconfigured(n) \/ PollTransferServed(n)
    \/ PollTransferFailed(n) \/ PollTransferQueued(n)

-------------------------------------------------------------------------------
(* The worker task: take the job, run the body, publish its outcome. *)

DrainTake ==
    /\ drain = "sleep"
    /\ slot.st = "QUEUED"
    /\ slot' = W!TakeJob(slot)
    /\ drain' = "running"
    /\ UNCHANGED <<latch, g_configured, g_cs_held, bus, req, asking, runs, told, excuse>>

Publish(status) ==
    /\ slot' = W!PublishJob(slot, status = "OK", status)
    /\ drain' = "sleep"
    /\ UNCHANGED <<latch, g_configured, g_cs_held, req, asking, told>>

Running(op) == drain = "running" /\ slot.cmd = op

(* cc3501e_hw_spi1_configure: a zero clock is refused, and so is anything  *)
(* under an open chain.  It closes the old handle first, so a pad or an    *)
(* SPI_open that fails leaves none.                                        *)
cc3501e_hw_spi1_configure ==
    /\ Running("CONFIGURE")
    /\ \/ Publish("INVALID") /\ UNCHANGED bus
       \/ bus.held /\ Publish("STATE") /\ UNCHANGED bus
       \/ /\ ~bus.held
          /\ \E status \in {"OK", "RADIO"} :
                 /\ bus' = [open |-> status = "OK", held |-> FALSE]
                 /\ Publish(status)
    /\ UNCHANGED <<runs, excuse>>

(* Variant for mutation: CS is only held for the first chunk of a chain. *)
SpiTransferHoldsOnce ==
    /\ Running("TRANSFER")
    /\ bus.open
    /\ runs' = [runs EXCEPT ![slot.req] = IF @ < 2 THEN @ + 1 ELSE 2]
    /\ bus' = [bus EXCEPT !.held = req[slot.req].hold /\ ~bus.held]
    /\ Publish("OK")
    /\ UNCHANGED excuse

(* cc3501e_hw_spi1_transfer: CS is asserted, the bytes are clocked, and CS *)
(* stays asserted only when the host said so and the transfer succeeded.   *)
cc3501e_hw_spi1_transfer ==
    /\ Running("TRANSFER")
    /\ \/ ~bus.open /\ Publish("NOT_READY") /\ UNCHANGED <<bus, runs, excuse>>
       \/ /\ bus.open
          /\ runs' = [runs EXCEPT ![slot.req] = IF @ < 2 THEN @ + 1 ELSE 2]
          /\ \E status \in {"OK", "STATE"} :
                 /\ bus' = [bus EXCEPT !.held = status = "OK" /\ req[slot.req].hold]
                 /\ excuse' = IF status = "OK" THEN excuse ELSE excuse \cup {slot.req}
                 /\ Publish(status)

(* Variant for mutation: CS is left as it is. *)
SpiReleaseKeepsCs ==
    /\ Running("RELEASE")
    /\ bus' = [bus EXCEPT !.open = FALSE]
    /\ Publish("OK")
    /\ UNCHANGED <<runs, excuse>>

(* cc3501e_hw_spi1_release: deassert, close, always succeed. *)
cc3501e_hw_spi1_release ==
    /\ Running("RELEASE")
    /\ bus' = [open |-> FALSE, held |-> FALSE]
    /\ Publish("OK")
    /\ UNCHANGED <<runs, excuse>>

OtherBody ==
    /\ Running("OTHER")
    /\ Publish("OK")
    /\ UNCHANGED <<bus, runs, excuse>>

Drain ==
    \/ DrainTake \/ OtherBody
    \/ cc3501e_hw_spi1_configure \/ cc3501e_hw_spi1_transfer \/ cc3501e_hw_spi1_release

Next ==
    \/ \E op \in Ops, hold \in BOOLEAN : Issue(op, hold)
    \/ \E n \in asking : GiveUp(n) \/ Poll(n)
    \/ Drain

Spec == Init /\ [][Next]_vars

-------------------------------------------------------------------------------
(* A transfer is clocked a second time only if its first run failed or the *)
(* poll of another opcode discarded its finished result: the host's own    *)
(* re-sends after a lost reply never re-clock the far-end device           *)
(* (protocol_spi.c:32-40, 165-190).                                        *)
ReclockedOnlyExcused == \A n \in Reqs : runs[n] > 1 => n \in excuse

(* A transfer the host was told OK about was clocked for this very request:*)
(* a result left by another transfer never answers it, abandoned requests  *)
(* and interleaved opcodes included (protocol_spi.c:172-176).              *)
OkWasClocked ==
    told.status = "OK" /\ told.n # 0 /\ req[told.n].op = "TRANSFER" => runs[told.n] > 0

(* While the host has heard OK for a CS_HOLD transfer and has asked nothing*)
(* of this family since, the chain it relies on is there: CS is asserted,  *)
(* and the handlers will refuse a CONFIGURE (protocol_spi.c:87-92,         *)
(* cc3501e_hw_ti_spi_master.c:270-284).                                    *)
Untouched(n) == \A m \in n+1 .. Len(req) : req[m].op = "OTHER"

ChainKept ==
    told.status = "OK" /\ told.n # 0 /\ req[told.n].hold /\ Untouched(told.n) =>
        bus.held /\ g_cs_held

(* The host hears OK for a RELEASE only while CS is deasserted and nothing *)
(* in the handlers would refuse the next CONFIGURE, also when the answer   *)
(* comes from the latch and other opcodes ran since: the escape hatch out  *)
(* of a lost CS_HOLD chain works (protocol_spi.c:217-241).                 *)
ReleaseEscapes ==
    [][ told' # told /\ told'.status = "OK" /\ req[told'.n].op = "RELEASE" =>
            ~bus.held /\ ~g_cs_held' ]_vars
===============================================================================
