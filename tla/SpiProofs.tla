------------------------------- MODULE SpiProofs ------------------------------
(***************************************************************************)
(* Proofs about the two SPI controllers: the SPI1 passthrough (Spi1), for  *)
(* any number of requests within the header's seq space, and the SPI slave *)
(* the host talks to (SpiLink), for any number of faults and of junk       *)
(* headers.                                                                *)
(*                                                                         *)
(* None of the passthrough's properties is inductive.  The argument rests  *)
(* on what the slot says while a finished job lies in it: nothing else of  *)
(* this family has run since, so the bus is as that job left it.  And it   *)
(* rests on the host: the family request it is asking is the latest of the *)
(* family.                                                                 *)
(*                                                                         *)
(* UnarmedIsSeen is not inductive either: a transfer that completes while  *)
(* the quiesce mark is up leaves the slave unarmed and notes nothing, and  *)
(* so does the release of the handle.  The mark must be up exactly in the  *)
(* OTA bracket, whose last step takes it down and arms the slave again.    *)
(***************************************************************************)
EXTENDS Spi1, SpiLink, TLAPS

Requests == [op : Ops, hold : BOOLEAN]
Statuses == {"OK", "INVALID", "STATE", "RADIO", "NOT_READY", "none"}
Cmds == Ops \cup {"none"}
Slots == [st : W!SlotStates, cmd : Cmds, req : 0 .. MaxReq, seq : Nat, res : Statuses]
Latches == [valid : BOOLEAN, op : Cmds, n : 0 .. MaxReq, status : Statuses]

TypeInv ==
    /\ slot \in Slots
    /\ latch \in Latches
    /\ g_configured \in BOOLEAN /\ g_cs_held \in BOOLEAN
    /\ bus \in [open : BOOLEAN, held : BOOLEAN]
    /\ req \in Seq(Requests) /\ Len(req) <= MaxReq
    /\ asking \subseteq 1 .. Len(req)
    /\ runs \in [Reqs -> 0 .. 2]
    /\ told \in [n : 0 .. MaxReq, status : Statuses] /\ told.n <= Len(req)

(* The host: the family request it is asking is the family's latest, and a *)
(* request that was answered is not asked again.                           *)
HostInv ==
    /\ \A n \in 1 .. Len(req) : req[n].hold => req[n].op = "TRANSFER"
    /\ \A n \in asking : req[n].op # "OTHER" => Untouched(n)
    /\ told.n \notin asking

(* The slot and the latch hold what some request asked for. *)
SlotInv ==
    /\ slot.st = "IDLE" <=> slot.cmd = "none"
    /\ slot.st # "IDLE" => slot.req \in 1 .. Len(req) /\ req[slot.req].op = slot.cmd
    /\ slot.cmd = "TRANSFER" => slot.seq = XferSeq(slot.req)
    /\ drain = "running" <=> slot.st = "RUNNING"
    /\ slot.st = "ERR" => slot.res # "OK"
    /\ latch.valid => latch.n \in 1 .. Len(req) /\ req[latch.n].op = latch.op

(* How often a transfer was clocked: one in flight for the first time, or  *)
(* excused; one the host still asks for has its result in the slot, or is  *)
(* excused.                                                                *)
ClockInv ==
    /\ slot.cmd = "TRANSFER" /\ W!InFlight(slot) => runs[slot.req] = 0 \/ slot.req \in excuse
    /\ slot.cmd = "TRANSFER" /\ slot.st = "DONE" => runs[slot.req] > 0
    /\ \A n \in asking : req[n].op = "TRANSFER" /\ runs[n] > 0 =>
           n \in excuse \/ (slot.st = "DONE" /\ slot.cmd = "TRANSFER" /\ slot.req = n)
    /\ \A n \in Reqs : n > Len(req) => runs[n] = 0

(* The bus is as the finished job in the slot, or the RELEASE the host may *)
(* still be answered from the latch, left it.                              *)
BusInv ==
    /\ slot.cmd = "TRANSFER" /\ slot.st = "DONE" => bus.held = req[slot.req].hold
    /\ slot.cmd = "RELEASE" /\ W!Terminal(slot) => ~bus.held
    /\ latch.valid /\ latch.op = "RELEASE" /\ latch.n \in asking => ~bus.held /\ slot.cmd # "TRANSFER"

IInv == TypeInv /\ HostInv /\ SlotInv /\ ClockInv /\ BusInv /\ ReclockedOnlyExcused

(* The host relies on a chain: then no job of the family is under way. *)
Chained == told.status = "OK" /\ told.n # 0 /\ req[told.n].hold /\ Untouched(told.n)

ChainInv == Chained => bus.held /\ g_cs_held /\ (slot.cmd \in Family => W!Terminal(slot))

(* The transfer's seq numbers every request of a behaviour apart. *)
NoWrap == MaxReq <= XferSeqs

-------------------------------------------------------------------------------
(* What is asked, and in which range. *)
LEMMA ReqIs ==
    ASSUME IInv, NEW n \in 1 .. Len(req)
    PROVE  /\ req[n].op \in Ops /\ req[n].hold \in BOOLEAN
           /\ n \in Nat /\ n \in 1 .. MaxReq /\ n \in 0 .. MaxReq /\ Len(req) \in Nat
<1>1. req \in Seq(Requests) /\ Len(req) \in Nat /\ Len(req) <= MaxReq /\ MaxReq \in Nat
  BY Spi1Bounds DEF IInv, TypeInv
<1>2. req[n] \in Requests
  BY <1>1
<1> QED
  BY <1>1, <1>2 DEF Requests

(* The host asks at most one request of the family. *)
LEMMA OneFamily ==
    ASSUME IInv, NEW m \in asking, NEW n \in asking, req[m].op # "OTHER", req[n].op # "OTHER"
    PROVE  m = n
<1>1. m \in 1 .. Len(req) /\ n \in 1 .. Len(req) /\ Len(req) \in Nat
  BY DEF IInv, TypeInv
<1>2. ~(m < n) /\ ~(n < m)
  BY <1>1 DEF IInv, HostInv, Untouched
<1> QED
  BY <1>1, <1>2

(* What a poll for request n may do to the slot: leave it, take a finished *)
(* job of the opcode out of it (not a transfer that succeeded), or queue   *)
(* the request's job.                                                      *)
Job(n) == [st |-> "QUEUED", cmd |-> req[n].op, req |-> n,
           seq |-> IF req[n].op = "TRANSFER" THEN XferSeq(n) ELSE 0, res |-> "none"]

Collects(n) ==
    /\ W!Terminal(slot) /\ slot.cmd = req[n].op
    /\ slot' = W!FreeSlot

SlotStep(n) ==
    \/ slot' = slot
    \/ Collects(n) /\ ~(slot.cmd = "TRANSFER" /\ slot.st = "DONE")
    \/ ~W!InFlight(slot) /\ slot' = Job(n)

(* What it may do to the latch: leave it, forget it, or latch what it took.*)
LatchStep(n) ==
    \/ latch' \in {latch, NoLatch}
    \/ Collects(n) /\ latch' = [valid |-> TRUE, op |-> req[n].op, n |-> n, status |-> slot.res]

(* A transfer's job is queued only before its first run, or excused. *)
QueuesFirst(n) ==
    slot' # slot /\ slot' = Job(n) /\ req[n].op = "TRANSFER" => runs[n] = 0 \/ n \in excuse

(* The poll of another opcode that takes a transfer's result away marks it.*)
MarksDiscard(n) ==
    /\ excuse \subseteq excuse'
    /\ slot' # slot /\ slot.cmd = "TRANSFER" /\ slot.st = "DONE" /\ req[n].op # "TRANSFER" =>
           slot.req \in excuse'

(* The types of what a poll puts in the slot and the latch. *)
LEMMA StepTypes ==
    ASSUME IInv, NEW n \in asking, SlotStep(n), LatchStep(n)
    PROVE  slot' \in Slots /\ latch' \in Latches
<1>1. /\ n \in 0 .. MaxReq /\ req[n].op \in Ops /\ slot \in Slots /\ latch \in Latches
      /\ n \in Nat
  BY ReqIs DEF IInv, TypeInv
<1>2. XferSeq(n) \in Nat
  BY <1>1, Spi1Bounds DEF XferSeq
<1>3. W!FreeSlot \in Slots
  BY Spi1Bounds DEF W!FreeSlot, Slots, W!SlotStates, Cmds, Statuses
<1>4. Job(n) \in Slots
  BY <1>1, <1>2 DEF Job, Slots, W!SlotStates, Cmds, Statuses
<1>5. NoLatch \in Latches
  BY Spi1Bounds DEF NoLatch, Latches, Cmds, Statuses
<1>6. [valid |-> TRUE, op |-> req[n].op, n |-> n, status |-> slot.res] \in Latches
  BY <1>1 DEF Latches, Slots, Cmds
<1> QED
  BY <1>1, <1>3, <1>4, <1>5, <1>6 DEF SlotStep, LatchStep, Collects

(* A poll with these properties keeps the invariant. *)
LEMMA PollKeeps ==
    ASSUME IInv, NEW n \in asking, NEW s \in Statuses \cup {"BUSY"}, Answer(n, s),
           SlotStep(n), LatchStep(n), QueuesFirst(n), MarksDiscard(n),
           UNCHANGED <<bus, drain, req, runs>>,
           g_configured' \in BOOLEAN, g_cs_held' \in BOOLEAN
    PROVE  IInv'
<1>0. n \in 1 .. Len(req) /\ asking \subseteq 1 .. Len(req)
  BY DEF IInv, TypeInv
<1>1. /\ n \in 1 .. Len(req) /\ Len(req) \in Nat /\ req[n].op \in Ops /\ n \in 0 .. MaxReq
      /\ n \in 1 .. MaxReq /\ slot \in Slots /\ latch \in Latches
  BY <1>0, ReqIs DEF IInv, TypeInv
<1>2. /\ asking' \subseteq asking
      /\ told' = told \/ (told' = [n |-> n, status |-> s] /\ n \notin asking' /\ s # "BUSY")
  BY DEF Answer
<1>3. TypeInv'
  <2>1. slot' \in Slots /\ latch' \in Latches
    BY StepTypes
  <2>2. told' \in [n : 0 .. MaxReq, status : Statuses] /\ told'.n <= Len(req)
    BY <1>1, <1>2 DEF IInv, TypeInv
  <2> QED
    BY <1>2, <2>1, <2>2 DEF IInv, TypeInv
<1>4. HostInv'
  BY <1>2 DEF IInv, HostInv, Untouched
<1>5. /\ W!FreeSlot.st = "IDLE" /\ W!FreeSlot.cmd = "none" /\ NoLatch.valid = FALSE
      /\ Job(n).st = "QUEUED" /\ Job(n).cmd = req[n].op /\ Job(n).req = n
      /\ (req[n].op = "TRANSFER" => Job(n).seq = XferSeq(n))
  BY DEF W!FreeSlot, NoLatch, Job
<1>6. SlotInv'
  <2>1. latch'.valid => latch'.n \in 1 .. Len(req) /\ req[latch'.n].op = latch'.op
    BY <1>1, <1>5 DEF LatchStep, IInv, SlotInv
  <2>2. CASE slot' = slot
    BY <2>1, <2>2 DEF IInv, SlotInv
  <2>3. CASE Collects(n)
    BY <2>1, <2>3, <1>5 DEF IInv, SlotInv, Collects, W!Terminal
  <2>4. CASE ~W!InFlight(slot) /\ slot' = Job(n)
    BY <2>1, <2>4, <1>1, <1>5 DEF IInv, SlotInv, W!InFlight, Ops, Family
  <2> QED
    BY <2>2, <2>3, <2>4 DEF SlotStep
<1>7. ClockInv'
  <2>1. CASE slot' = slot
    BY <2>1, <1>2 DEF IInv, ClockInv, MarksDiscard
  <2>2. CASE slot' # slot
    <3>1. /\ slot' = W!FreeSlot \/ slot' = Job(n)
          /\ ~(slot.cmd = "TRANSFER" /\ slot.st = "DONE") \/ slot' = Job(n)
      BY <2>2 DEF SlotStep, Collects
    <3>2. slot'.cmd = "TRANSFER" => slot' = Job(n) /\ req[n].op = "TRANSFER"
      BY <3>1, <1>5
    <3>3. ASSUME NEW m \in asking', req[m].op = "TRANSFER", runs[m] > 0
          PROVE  m \in excuse'
      <4>1. CASE m \in excuse
        BY <4>1 DEF MarksDiscard
      <4>2. CASE slot.st = "DONE" /\ slot.cmd = "TRANSFER" /\ slot.req = m
        <5>1. CASE req[n].op = "TRANSFER"
          <6>1. m = n
            BY <5>1, <3>3, <1>2, OneFamily
          <6>2. runs[n] = 0 \/ n \in excuse
            BY <5>1, <4>2, <3>1, <2>2 DEF QueuesFirst
          <6>3. m \in 1 .. MaxReq
            BY <1>1, <6>1
          <6> QED
            BY <6>1, <6>2, <6>3, <3>3 DEF IInv, TypeInv, Reqs, MarksDiscard
        <5>2. CASE req[n].op # "TRANSFER"
          BY <5>2, <4>2, <2>2 DEF MarksDiscard
        <5> QED
          BY <5>1, <5>2
      <4> QED
        BY <4>1, <4>2, <3>3, <1>2 DEF IInv, ClockInv
    <3>4. slot'.cmd = "TRANSFER" => slot'.st = "QUEUED" /\ slot'.req = n
      BY <3>2, <1>5
    <3>5. slot'.cmd = "TRANSFER" => runs[n] = 0 \/ n \in excuse'
      BY <3>2, <2>2 DEF QueuesFirst, MarksDiscard
    <3> QED
      BY <3>3, <3>4, <3>5 DEF IInv, ClockInv, W!InFlight
  <2> QED
    BY <2>1, <2>2
<1>8. BusInv'
  <2>1. CASE slot' = slot
    <3>1. latch' = latch \/ ~latch'.valid \/ Collects(n)
      BY <1>5 DEF LatchStep
    <3>2. ~Collects(n)
      BY <2>1, <1>5 DEF IInv, SlotInv, Collects, W!Terminal
    <3> QED
      BY <2>1, <3>1, <3>2, <1>2 DEF IInv, BusInv
  <2>2. CASE Collects(n)
    <3>1. slot'.cmd = "none" /\ slot'.st = "IDLE"
      BY <2>2, <1>5 DEF Collects
    <3>2. latch'.valid /\ latch'.op = "RELEASE" /\ latch'.n \in asking' => ~bus.held
      <4>1. CASE latch' = latch
        BY <4>1, <1>2 DEF IInv, BusInv
      <4>2. CASE latch' = NoLatch
        BY <4>2, <1>5
      <4>3. CASE latch' = [valid |-> TRUE, op |-> req[n].op, n |-> n, status |-> slot.res]
        BY <4>3, <2>2 DEF IInv, BusInv, Collects
      <4> QED
        BY <4>1, <4>2, <4>3 DEF LatchStep
    <3> QED
      BY <3>1, <3>2 DEF BusInv, W!Terminal
  <2>3. CASE ~W!InFlight(slot) /\ slot' = Job(n)
    <3>1. latch' = latch \/ ~latch'.valid
      BY <2>3, <1>5 DEF LatchStep, Collects
    <3>2. ASSUME latch'.valid, latch'.op = "RELEASE", latch'.n \in asking'
          PROVE  ~bus.held /\ req[n].op # "TRANSFER"
      <4>1. latch' = latch /\ latch.n \in asking /\ req[latch.n].op = "RELEASE"
        BY <3>1, <3>2, <1>2 DEF IInv, SlotInv
      <4>2. req[n].op = "TRANSFER" => latch.n = n
        BY <4>1, OneFamily
      <4> QED
        BY <4>1, <4>2, <3>2 DEF IInv, BusInv
    <3> QED
      BY <2>3, <3>2, <1>5 DEF BusInv, W!Terminal
  <2> QED
    BY <2>1, <2>2, <2>3 DEF SlotStep
<1>9. ReclockedOnlyExcused'
  BY DEF IInv, ReclockedOnlyExcused, MarksDiscard
<1> QED
  BY <1>3, <1>4, <1>6, <1>7, <1>8, <1>9 DEF IInv

-------------------------------------------------------------------------------
(* A request of another opcode than TRANSFER goes through the latch, the   *)
(* finished job, or the queue.                                             *)
LEMMA RoutedIs ==
    ASSUME IInv, NEW n \in asking, req[n].op # "TRANSFER",
           slot' = Routed(n).slot, latch' = Routed(n).latch
    PROVE  /\ SlotStep(n) /\ LatchStep(n) /\ QueuesFirst(n)
           /\ Routed(n).status \in Statuses \cup {"BUSY"}
           /\ \/ /\ latch.valid /\ latch.op = req[n].op /\ latch.n = n /\ slot' = slot
                 /\ Routed(n).status = latch.status
              \/ /\ Collects(n) /\ Routed(n).status = slot.res
              \/ /\ Routed(n).status = "BUSY" /\ ~Collects(n)
<1>1. slot \in Slots /\ latch \in Latches /\ n \in 1 .. Len(req)
  BY DEF IInv, TypeInv
<1>2. req[n].op \in Ops /\ req[n].op # "none"
  BY <1>1, ReqIs DEF Ops, Family
<1>3. CASE latch.valid /\ latch.op = req[n].op /\ latch.n = n
  <2>1. Routed(n) = [status |-> latch.status, slot |-> slot, latch |-> latch]
    BY <1>3 DEF Routed
  <2> QED
    BY <1>1, <1>3, <2>1 DEF SlotStep, LatchStep, QueuesFirst, Latches
<1>4. CASE ~(latch.valid /\ latch.op = req[n].op /\ latch.n = n)
           /\ W!worker_poll(slot, req[n].op) \in {"DONE", "ERR"}
  <2>1. Routed(n) = [status |-> slot.res, slot |-> W!FreeSlot,
                     latch |-> [valid |-> TRUE, op |-> req[n].op, n |-> n, status |-> slot.res]]
    BY <1>4 DEF Routed
  <2>2. slot.cmd = req[n].op /\ W!Terminal(slot)
    BY <1>4 DEF W!worker_poll, W!Terminal
  <2>3. slot.res \in Statuses
    BY <1>1 DEF Slots
  <2> QED
    BY <2>1, <2>2, <2>3 DEF SlotStep, LatchStep, QueuesFirst, Collects
<1>5. CASE ~(latch.valid /\ latch.op = req[n].op /\ latch.n = n)
           /\ W!worker_poll(slot, req[n].op) \notin {"DONE", "ERR"}
  <2>1. Routed(n) = [status |-> "BUSY", latch |-> IF latch.op = req[n].op THEN NoLatch ELSE latch,
                     slot |-> W!worker_submit(W!SlotAfterPoll(slot, req[n].op), req[n].op, n, 0)]
    BY <1>5 DEF Routed
  <2>2. latch' \in {latch, NoLatch} /\ Routed(n).status = "BUSY"
    BY <2>1
  <2>3. ~(slot.cmd = req[n].op /\ W!Terminal(slot))
    BY <1>5 DEF W!worker_poll, W!Terminal
  <2>4. slot' = W!worker_submit(W!SlotAfterPoll(slot, req[n].op), req[n].op, n, 0)
    BY <2>1
  <2>5. CASE slot.st = "IDLE" \/ W!Terminal(slot)
    <3>1. W!SlotAfterPoll(slot, req[n].op).st = "IDLE"
      BY <2>5, <2>3 DEF W!SlotAfterPoll, W!FreeSlot, W!Terminal
    <3>2. slot' = Job(n)
      BY <3>1, <2>4 DEF W!worker_submit, Job
    <3> QED
      BY <3>2, <2>2, <2>3, <2>5 DEF SlotStep, LatchStep, QueuesFirst, Collects, W!InFlight,
                                    W!Terminal
  <2>6. CASE slot.st # "IDLE" /\ ~W!Terminal(slot)
    BY <2>4, <2>6, <2>2, <2>3
       DEF W!SlotAfterPoll, W!worker_submit, SlotStep, LatchStep, QueuesFirst, Collects
  <2> QED
    BY <2>5, <2>6
<1> QED
  BY <1>3, <1>4, <1>5

(* The ghost of a routed poll marks what the poll discards. *)
LEMMA DisturbMarks ==
    ASSUME NEW n, Disturb
    PROVE  MarksDiscard(n)
BY DEF Disturb, Discards, MarksDiscard, W!Terminal

(* Each poll keeps the invariant. *)
LEMMA PollInv ==
    ASSUME IInv, NEW n \in asking, Poll(n)
    PROVE  IInv'
<1>0. /\ n \in 1 .. Len(req) /\ g_configured \in BOOLEAN /\ g_cs_held \in BOOLEAN /\ slot \in Slots
      /\ {"STATE", "NOT_READY", "OK", "BUSY"} \subseteq Statuses \cup {"BUSY"}
  BY DEF IInv, TypeInv, Statuses
<1>1. CASE PollOther(n)
  <2>1. /\ req[n].op # "TRANSFER" /\ slot' = Routed(n).slot /\ latch' = Routed(n).latch
        /\ Answer(n, Routed(n).status) /\ MarksDiscard(n)
        /\ UNCHANGED <<g_configured, g_cs_held, bus, drain, req, runs>>
    BY <1>1, DisturbMarks DEF PollOther
  <2> QED
    BY <2>1, <1>0, RoutedIs, PollKeeps
<1>2. CASE PollConfigure(n)
  <2>1. /\ req[n].op # "TRANSFER" /\ slot' = Routed(n).slot /\ latch' = Routed(n).latch
        /\ Answer(n, Routed(n).status) /\ MarksDiscard(n)
        /\ UNCHANGED <<bus, drain, req, runs>>
        /\ g_configured' \in BOOLEAN /\ g_cs_held' \in BOOLEAN
    BY <1>2, DisturbMarks DEF PollConfigure
  <2> QED
    BY <2>1, <1>0, RoutedIs, PollKeeps
<1>3. CASE PollRelease(n)
  <2>1. /\ req[n].op # "TRANSFER" /\ slot' = Routed(n).slot /\ latch' = Routed(n).latch
        /\ Answer(n, Routed(n).status) /\ MarksDiscard(n)
        /\ UNCHANGED <<bus, drain, req, runs>>
        /\ g_configured' \in BOOLEAN /\ g_cs_held' \in BOOLEAN
    BY <1>3, DisturbMarks DEF PollRelease
  <2> QED
    BY <2>1, <1>0, RoutedIs, PollKeeps
<1>4. CASE PollConfigureRefused(n) \/ PollTransferUnconfigured(n)
  <2>1. /\ UNCHANGED <<slot, latch, g_configured, g_cs_held, bus, drain, req, runs, excuse>>
        /\ Answer(n, "STATE") \/ Answer(n, "NOT_READY")
    BY <1>4 DEF PollConfigureRefused, PollTransferUnconfigured, firmware
  <2>2. SlotStep(n) /\ LatchStep(n) /\ QueuesFirst(n) /\ MarksDiscard(n)
    BY <2>1 DEF SlotStep, LatchStep, QueuesFirst, MarksDiscard
  <2> QED
    BY <2>1, <2>2, <1>0, PollKeeps
<1>5. CASE PollTransferServed(n)
  <2>1. /\ UNCHANGED <<slot, latch, g_configured, bus, drain, req, runs, excuse>>
        /\ Answer(n, "OK") /\ g_cs_held' = req[slot.req].hold
        /\ slot.cmd = "TRANSFER" /\ slot.st # "IDLE"
    BY <1>5 DEF PollTransferServed, Serves, W!worker_poll, W!InFlight
  <2>2. slot.req \in 1 .. Len(req)
    BY <2>1 DEF IInv, SlotInv
  <2>3. g_cs_held' \in BOOLEAN
    BY <2>1, <2>2, ReqIs
  <2>4. SlotStep(n) /\ LatchStep(n) /\ QueuesFirst(n) /\ MarksDiscard(n)
    BY <2>1 DEF SlotStep, LatchStep, QueuesFirst, MarksDiscard
  <2> QED
    BY <2>1, <2>3, <2>4, <1>0, PollKeeps
<1>6. CASE PollTransferFailed(n)
  <2>1. /\ UNCHANGED <<latch, g_configured, bus, drain, req, runs, excuse>>
        /\ Answer(n, slot.res) /\ g_cs_held' = FALSE /\ slot' = W!FreeSlot
        /\ req[n].op = "TRANSFER" /\ slot.cmd = "TRANSFER" /\ slot.st = "ERR"
    BY <1>6 DEF PollTransferFailed, W!worker_poll, W!InFlight
  <2>2. slot.res \in Statuses
    BY <1>0 DEF Slots
  <2>3. SlotStep(n) /\ LatchStep(n) /\ QueuesFirst(n) /\ MarksDiscard(n)
    BY <2>1 DEF SlotStep, LatchStep, QueuesFirst, MarksDiscard, Collects, Job, W!FreeSlot,
                W!Terminal
  <2> QED
    BY <2>1, <2>2, <2>3, <1>0, PollKeeps
<1>7. CASE PollTransferQueued(n)
  <2>1. /\ UNCHANGED <<latch, g_configured, g_cs_held, bus, drain, req, runs, excuse>>
        /\ Answer(n, "BUSY") /\ req[n].op = "TRANSFER" /\ ~Serves(n)
        /\ slot' = W!worker_submit(IF W!Terminal(slot) THEN W!FreeSlot ELSE slot,
                                   "TRANSFER", n, XferSeq(n))
    BY <1>7 DEF PollTransferQueued
  <2>2. slot' = slot \/ (~W!InFlight(slot) /\ slot' = Job(n))
    BY <2>1, <1>0 DEF W!worker_submit, W!FreeSlot, W!InFlight, W!Terminal, Job, Slots, W!SlotStates
  <2>3. ~(slot.st = "DONE" /\ slot.cmd = "TRANSFER" /\ slot.req = n)
    BY <2>1 DEF Serves, W!worker_poll, IInv, SlotInv
  <2>4. runs[n] = 0 \/ n \in excuse
    BY <2>1, <2>3, <1>0, ReqIs DEF IInv, ClockInv, TypeInv, Reqs
  <2>5. SlotStep(n) /\ LatchStep(n) /\ QueuesFirst(n) /\ MarksDiscard(n)
    BY <2>1, <2>2, <2>4 DEF SlotStep, LatchStep, QueuesFirst, MarksDiscard
  <2> QED
    BY <2>1, <2>5, <1>0, PollKeeps
<1> QED
  BY <1>1, <1>2, <1>3, <1>4, <1>5, <1>6, <1>7 DEF Poll

-------------------------------------------------------------------------------
(* The host's steps keep the invariant. *)
LEMMA IssueInv ==
    ASSUME IInv, NEW op \in Ops, NEW hold \in BOOLEAN, Issue(op, hold)
    PROVE  IInv'
<1> DEFINE k == Len(req) + 1
           new == [op |-> op, hold |-> hold]
<1>1. /\ req \in Seq(Requests) /\ Len(req) \in Nat /\ MaxReq \in Nat /\ Len(req) <= MaxReq
      /\ asking \subseteq 1 .. Len(req) /\ told.n \in Nat /\ told.n <= Len(req)
  BY Spi1Bounds DEF IInv, TypeInv
<1>2. /\ Len(req) < MaxReq /\ (hold => op = "TRANSFER") /\ req' = Append(req, new)
      /\ asking' = asking \cup {k}
      /\ \A n \in asking : op = "OTHER" <=> req[n].op # "OTHER"
      /\ UNCHANGED <<slot, latch, g_configured, g_cs_held, bus, drain, runs, told, excuse>>
  BY DEF Issue, firmware
<1>3. /\ req' \in Seq(Requests) /\ Len(req') = k /\ req'[k] = new
      /\ \A n \in 1 .. Len(req) : req'[n] = req[n]
  <2>1. new \in Requests
    BY DEF Requests
  <2> QED
    BY <2>1, <1>1, <1>2
<1>4. TypeInv'
  <2>1. asking' \subseteq 1 .. Len(req') /\ Len(req') <= MaxReq /\ told'.n <= Len(req')
    <3>1. 1 .. Len(req) \subseteq 1 .. k /\ k \in 1 .. k /\ k <= MaxReq /\ told.n <= k
      BY <1>1, <1>2
    <3>2. asking' \subseteq 1 .. k
      BY <3>1, <1>1, <1>2
    <3> QED
      BY <3>1, <3>2, <1>2, <1>3
  <2> QED
    BY <2>1, <1>2, <1>3 DEF IInv, TypeInv
<1>5. HostInv'
  <2>1. \A n \in 1 .. Len(req') : req'[n].hold => req'[n].op = "TRANSFER"
    BY <1>1, <1>2, <1>3 DEF IInv, HostInv
  <2>2. told'.n \notin asking'
    BY <1>1, <1>2 DEF IInv, HostInv
  <2>3. ASSUME NEW n \in asking', req'[n].op # "OTHER", NEW m \in n+1 .. Len(req')
        PROVE  req'[m].op = "OTHER"
    <3>0. n # k
      BY <2>3, <1>1, <1>3
    <3>1. n \in asking /\ n \in 1 .. Len(req)
      BY <3>0, <1>1, <1>2
    <3>2. req[n].op # "OTHER" /\ op = "OTHER"
      BY <3>1, <2>3, <1>2, <1>3
    <3>3. CASE m = k
      BY <3>2, <3>3, <1>3
    <3>4. CASE m \in n+1 .. Len(req)
      BY <3>1, <3>2, <3>4, <1>1, <1>3 DEF IInv, HostInv, Untouched
    <3>5. m = k \/ m \in n+1 .. Len(req)
      BY <2>3, <3>1, <1>1, <1>3
    <3> QED
      BY <3>3, <3>4, <3>5
  <2> QED
    BY <2>1, <2>2, <2>3 DEF HostInv, Untouched
<1>6. SlotInv'
  BY <1>1, <1>2, <1>3 DEF IInv, SlotInv
<1>7. ClockInv'
  <2>1. k \in Reqs /\ runs[k] = 0
    BY <1>1, <1>2 DEF IInv, ClockInv, Reqs
  <2>2. \A n \in Reqs : n > k => runs[n] = 0
    BY <1>1 DEF IInv, ClockInv, Reqs
  <2> QED
    BY <2>1, <2>2, <1>1, <1>2, <1>3 DEF IInv, ClockInv
<1>8. BusInv'
  <2>1. slot.st # "IDLE" => req'[slot.req] = req[slot.req]
    BY <1>3 DEF IInv, SlotInv
  <2>2. latch.valid => latch.n # k
    BY <1>1 DEF IInv, SlotInv
  <2> QED
    BY <2>1, <2>2, <1>2 DEF IInv, BusInv
<1>9. ReclockedOnlyExcused'
  BY <1>2 DEF IInv, ReclockedOnlyExcused
<1> QED
  BY <1>4, <1>5, <1>6, <1>7, <1>8, <1>9 DEF IInv

(* It stays when the host asks for less and all else is left alone. *)
LEMMA FewerAsked ==
    ASSUME IInv, asking' \subseteq asking,
           UNCHANGED <<slot, latch, g_configured, g_cs_held, bus, drain, req, runs, told, excuse>>
    PROVE  IInv'
<1>1. /\ slot' = slot /\ latch' = latch /\ g_configured' = g_configured /\ g_cs_held' = g_cs_held
      /\ bus' = bus /\ drain' = drain /\ req' = req /\ runs' = runs /\ told' = told
      /\ excuse' = excuse
  BY Zenon
<1>2. TypeInv'
  BY <1>1 DEF IInv, TypeInv
<1>3. HostInv'
  BY <1>1 DEF IInv, HostInv, Untouched
<1>4. SlotInv'
  BY <1>1 DEF IInv, SlotInv
<1>5. ClockInv'
  BY <1>1 DEF IInv, ClockInv, W!InFlight
<1>6. BusInv'
  BY <1>1 DEF IInv, BusInv, W!Terminal
<1>7. ReclockedOnlyExcused'
  BY <1>1 DEF IInv, ReclockedOnlyExcused
<1> QED
  BY <1>2, <1>3, <1>4, <1>5, <1>6, <1>7, Zenon DEF IInv

(* So with a request the host gives up. *)
LEMMA GiveUpInv ==
    ASSUME IInv, NEW n \in asking, GiveUp(n)
    PROVE  IInv'
<1>1. /\ asking' \subseteq asking
      /\ UNCHANGED <<slot, latch, g_configured, g_cs_held, bus, drain, req, runs, told, excuse>>
  BY DEF GiveUp, firmware
<1> QED
  BY <1>1, FewerAsked

-------------------------------------------------------------------------------
(* Taking a job keeps the invariant. *)
LEMMA TakeInv ==
    ASSUME IInv, DrainTake
    PROVE  IInv'
<1>1. /\ slot.st = "QUEUED" /\ drain' = "running" /\ slot \in Slots /\ slot' = [slot EXCEPT !.st = "RUNNING"]
      /\ UNCHANGED <<latch, g_configured, g_cs_held, bus, req, asking, runs, told, excuse>>
  BY DEF DrainTake, W!TakeJob, IInv, TypeInv
<1>2. /\ slot' \in Slots /\ slot'.st = "RUNNING" /\ slot'.cmd = slot.cmd /\ slot'.req = slot.req
      /\ slot'.seq = slot.seq /\ slot'.res = slot.res
  BY <1>1 DEF Slots, W!SlotStates
<1> HIDE DEF Slots
<1>3. TypeInv' /\ HostInv' /\ ReclockedOnlyExcused'
  BY <1>1, <1>2 DEF IInv, TypeInv, HostInv, ReclockedOnlyExcused, Untouched
<1>4. SlotInv'
  BY <1>1, <1>2 DEF IInv, SlotInv
<1>5. ClockInv'
  BY <1>1, <1>2 DEF IInv, ClockInv, W!InFlight
<1>6. BusInv'
  BY <1>1, <1>2 DEF IInv, BusInv, W!Terminal
<1> QED
  BY <1>3, <1>4, <1>5, <1>6 DEF IInv

(* What a body publishes: the job it ran, finished. *)
LEMMA PublishIs ==
    ASSUME IInv, drain = "running", NEW s \in Statuses, Publish(s)
    PROVE  /\ slot.st = "RUNNING" /\ slot' \in Slots /\ slot'.st = (IF s = "OK" THEN "DONE" ELSE "ERR")
           /\ slot'.cmd = slot.cmd /\ slot'.req = slot.req /\ slot'.seq = slot.seq /\ slot'.res = s
           /\ slot.req \in 1 .. Len(req) /\ req[slot.req].op = slot.cmd /\ drain' = "sleep"
           /\ UNCHANGED <<latch, g_configured, g_cs_held, req, asking, told>>
<1>1. slot \in Slots /\ slot.st = "RUNNING"
  BY DEF IInv, TypeInv, SlotInv
<1>2. slot' = [slot EXCEPT !.st = IF s = "OK" THEN "DONE" ELSE "ERR", !.res = s]
  BY DEF Publish, W!PublishJob
<1>3. /\ slot' \in Slots /\ slot'.st = (IF s = "OK" THEN "DONE" ELSE "ERR")
      /\ slot'.cmd = slot.cmd /\ slot'.req = slot.req /\ slot'.seq = slot.seq /\ slot'.res = s
  BY <1>1, <1>2 DEF Slots, W!SlotStates
<1> QED
  BY <1>1, <1>3 DEF Publish, IInv, SlotInv

(* A body keeps the invariant: only a transfer clocks, and it is marked    *)
(* unless it succeeded; only a transfer asserts CS.                        *)
LEMMA BodyInv ==
    ASSUME IInv, drain = "running", NEW s \in Statuses, Publish(s),
           bus' \in [open : BOOLEAN, held : BOOLEAN], excuse \subseteq excuse',
           \/ runs' = runs /\ (slot.cmd = "TRANSFER" => s # "OK")
           \/ /\ slot.cmd = "TRANSFER" /\ (s = "OK" \/ slot.req \in excuse')
              /\ runs' = [runs EXCEPT ![slot.req] = IF @ < 2 THEN @ + 1 ELSE 2],
           slot.cmd # "TRANSFER" /\ bus'.held => bus.held,
           slot.cmd = "RELEASE" => ~bus'.held,
           slot.cmd = "TRANSFER" /\ s = "OK" => bus'.held = req[slot.req].hold
    PROVE  IInv'
<1>1. /\ slot.st = "RUNNING" /\ slot' \in Slots /\ slot'.st = (IF s = "OK" THEN "DONE" ELSE "ERR")
      /\ slot'.cmd = slot.cmd /\ slot'.req = slot.req /\ slot'.seq = slot.seq /\ slot'.res = s
      /\ slot.req \in 1 .. Len(req) /\ req[slot.req].op = slot.cmd /\ drain' = "sleep"
      /\ UNCHANGED <<latch, g_configured, g_cs_held, req, asking, told>>
  BY PublishIs
<1>2. slot.req \in Reqs /\ runs \in [Reqs -> 0 .. 2] /\ slot.req <= Len(req) /\ Len(req) \in Nat
  BY <1>1, ReqIs DEF Reqs, IInv, TypeInv
<1>3. /\ runs' \in [Reqs -> 0 .. 2]
      /\ \A n \in Reqs : n # slot.req => runs'[n] = runs[n]
      /\ runs' # runs => runs'[slot.req] > 0
      /\ runs[slot.req] = 0 => runs'[slot.req] <= 1
      /\ slot.cmd = "TRANSFER" /\ s = "OK" => runs'[slot.req] > 0
      /\ slot.cmd # "TRANSFER" => runs' = runs
  BY <1>2
<1>4. TypeInv' /\ HostInv'
  BY <1>1, <1>3 DEF IInv, TypeInv, HostInv, Untouched
<1>5. SlotInv'
  BY <1>1 DEF IInv, SlotInv
<1>6. slot.cmd = "TRANSFER" => runs[slot.req] = 0 \/ slot.req \in excuse
  BY <1>1 DEF IInv, ClockInv, W!InFlight
<1>7. ClockInv'
  <2>1. \A n \in Reqs : n > Len(req) => runs'[n] = 0
    BY <1>2, <1>3 DEF IInv, ClockInv, Reqs
  <2>2. ASSUME NEW n \in asking, req[n].op = "TRANSFER", runs'[n] > 0
        PROVE  n \in excuse' \/ (slot'.st = "DONE" /\ slot'.cmd = "TRANSFER" /\ slot'.req = n)
    <3>1. n \in Reqs
      BY ReqIs DEF Reqs, IInv, TypeInv
    <3>2. CASE n # slot.req
      BY <3>1, <3>2, <2>2, <1>1, <1>3 DEF IInv, ClockInv
    <3>3. CASE n = slot.req /\ runs' = runs
      BY <3>1, <3>3, <2>2, <1>1, <1>6
    <3>4. CASE n = slot.req /\ runs' # runs
      BY <3>4, <1>1
    <3> QED
      BY <3>2, <3>3, <3>4
  <2> QED
    BY <2>1, <2>2, <1>1, <1>3 DEF ClockInv, W!InFlight
<1>8. BusInv'
  BY <1>1 DEF IInv, BusInv, W!Terminal
<1>9. ReclockedOnlyExcused'
  <2>1. ASSUME NEW n \in Reqs, runs'[n] > 1
        PROVE  n \in excuse'
    <3>1. CASE n # slot.req \/ runs' = runs
      BY <3>1, <2>1, <1>3 DEF IInv, ReclockedOnlyExcused
    <3>2. CASE n = slot.req /\ runs' # runs
      BY <3>2, <2>1, <1>2, <1>3, <1>6
    <3> QED
      BY <3>1, <3>2
  <2> QED
    BY <2>1 DEF ReclockedOnlyExcused
<1> QED
  BY <1>4, <1>5, <1>7, <1>8, <1>9 DEF IInv

(* Every step of the worker task keeps the invariant. *)
LEMMA DrainInv ==
    ASSUME IInv, Drain
    PROVE  IInv'
<1>0. /\ {"OK", "INVALID", "STATE", "RADIO", "NOT_READY"} \subseteq Statuses
      /\ bus \in [open : BOOLEAN, held : BOOLEAN]
  BY DEF Statuses, IInv, TypeInv
<1>1. CASE DrainTake
  BY <1>1, TakeInv
<1>2. CASE OtherBody
  <2>1. /\ drain = "running" /\ slot.cmd = "OTHER" /\ Publish("OK") /\ UNCHANGED <<bus, runs, excuse>>
    BY <1>2 DEF OtherBody, Running
  <2> QED
    BY <2>1, <1>0, BodyInv
<1>3. CASE cc3501e_hw_spi1_configure
  <2>1. drain = "running" /\ slot.cmd = "CONFIGURE" /\ UNCHANGED <<runs, excuse>>
    BY <1>3 DEF cc3501e_hw_spi1_configure, Running
  <2>2. \E s \in {"OK", "INVALID", "STATE", "RADIO"} :
            Publish(s) /\ (bus' = bus \/ bus' = [open |-> s = "OK", held |-> FALSE])
    BY <1>3 DEF cc3501e_hw_spi1_configure
  <2>3. PICK s \in {"OK", "INVALID", "STATE", "RADIO"} :
            Publish(s) /\ (bus' = bus \/ bus' = [open |-> s = "OK", held |-> FALSE])
    BY <2>2
  <2>4. bus' \in [open : BOOLEAN, held : BOOLEAN] /\ (bus'.held => bus.held)
    <3>1. (s = "OK") \in BOOLEAN
      OBVIOUS
    <3>2. CASE bus' = bus
      BY <3>2, <1>0
    <3>3. CASE bus' = [open |-> s = "OK", held |-> FALSE]
      BY <3>1, <3>3
    <3> QED
      BY <3>2, <3>3, <2>3
  <2> QED
    BY <2>1, <2>3, <2>4, <1>0, BodyInv
<1>4. CASE cc3501e_hw_spi1_release
  <2>1. /\ drain = "running" /\ slot.cmd = "RELEASE" /\ Publish("OK") /\ UNCHANGED <<runs, excuse>>
        /\ bus' = [open |-> FALSE, held |-> FALSE]
    BY <1>4 DEF cc3501e_hw_spi1_release, Running
  <2>2. bus' \in [open : BOOLEAN, held : BOOLEAN] /\ ~bus'.held
    BY <2>1
  <2> QED
    BY <2>1, <2>2, <1>0, BodyInv
<1>5. CASE cc3501e_hw_spi1_transfer
  <2>1. drain = "running" /\ slot.cmd = "TRANSFER"
    BY <1>5 DEF cc3501e_hw_spi1_transfer, Running
  <2>2. CASE Publish("NOT_READY") /\ UNCHANGED <<bus, runs, excuse>>
    BY <2>1, <2>2, <1>0, BodyInv
  <2>3. CASE /\ runs' = [runs EXCEPT ![slot.req] = IF @ < 2 THEN @ + 1 ELSE 2]
             /\ \E status \in {"OK", "STATE"} :
                    /\ bus' = [bus EXCEPT !.held = status = "OK" /\ req[slot.req].hold]
                    /\ excuse' = IF status = "OK" THEN excuse ELSE excuse \cup {slot.req}
                    /\ Publish(status)
    <3>1. PICK s \in {"OK", "STATE"} :
                    /\ bus' = [bus EXCEPT !.held = s = "OK" /\ req[slot.req].hold]
                    /\ excuse' = IF s = "OK" THEN excuse ELSE excuse \cup {slot.req}
                    /\ Publish(s)
      BY <2>3
    <3>2. slot.req \in 1 .. Len(req) /\ req[slot.req].hold \in BOOLEAN
      BY <2>1, ReqIs DEF IInv, SlotInv
    <3>3. (s = "OK" /\ req[slot.req].hold) \in BOOLEAN
      OBVIOUS
    <3>4. bus' \in [open : BOOLEAN, held : BOOLEAN] /\ bus'.held = (s = "OK" /\ req[slot.req].hold)
      BY <3>1, <3>3, <1>0
    <3>5. s = "OK" => bus'.held = req[slot.req].hold
      BY <3>2, <3>4
    <3>6. excuse \subseteq excuse' /\ (s = "OK" \/ slot.req \in excuse')
      BY <3>1
    <3> QED
      BY <2>1, <2>3, <3>1, <3>4, <3>5, <3>6, <1>0, BodyInv
  <2> QED
    BY <2>2, <2>3, <1>5 DEF cc3501e_hw_spi1_transfer
<1> QED
  BY <1>1, <1>2, <1>3, <1>4, <1>5 DEF Drain

(* The invariant holds at the start. *)
LEMMA InitInv == Init => IInv
<1> SUFFICES ASSUME Init PROVE IInv
  OBVIOUS
<1>1. W!FreeSlot \in Slots /\ NoLatch \in Latches /\ NothingTold \in [n : 0 .. MaxReq, status : Statuses]
  BY Spi1Bounds
     DEF W!FreeSlot, Slots, W!SlotStates, Cmds, Statuses, NoLatch, Latches, NothingTold
<1>2. req \in Seq(Requests) /\ Len(req) = 0 /\ MaxReq \in Nat
  BY Spi1Bounds DEF Init
<1>3. [open |-> FALSE, held |-> FALSE] \in [open : BOOLEAN, held : BOOLEAN]
  OBVIOUS
<1>4. runs \in [Reqs -> 0 .. 2] /\ NothingTold.n = 0 /\ asking \subseteq 1 .. Len(req)
  BY DEF Init, NothingTold
<1>5. TypeInv
  <2>1. slot \in Slots /\ latch \in Latches /\ told \in [n : 0 .. MaxReq, status : Statuses]
    BY <1>1 DEF Init
  <2>2. g_configured \in BOOLEAN /\ g_cs_held \in BOOLEAN /\ bus \in [open : BOOLEAN, held : BOOLEAN]
    BY <1>3 DEF Init
  <2>3. Len(req) <= MaxReq /\ told.n <= Len(req)
    BY <1>2, <1>4 DEF Init
  <2> QED
    BY <2>1, <2>2, <2>3, <1>2, <1>4 DEF TypeInv
<1> QED
  BY <1>5, <1>2 DEF Init, IInv, HostInv, SlotInv, ClockInv, BusInv, ReclockedOnlyExcused,
                    W!FreeSlot, NoLatch, W!InFlight, W!Terminal

(* Every step keeps it. *)
LEMMA StepInv == IInv /\ [Next]_vars => IInv'
<1> SUFFICES ASSUME IInv, [Next]_vars PROVE IInv'
  OBVIOUS
<1>1. CASE UNCHANGED vars
  <2>1. /\ asking' \subseteq asking
        /\ UNCHANGED <<slot, latch, g_configured, g_cs_held, bus, drain, req, runs, told, excuse>>
    BY <1>1 DEF vars, firmware
  <2> QED
    BY <2>1, FewerAsked
<1>2. CASE \E op \in Ops, hold \in BOOLEAN : Issue(op, hold)
  BY <1>2, IssueInv
<1>3. CASE \E n \in asking : GiveUp(n) \/ Poll(n)
  BY <1>3, GiveUpInv, PollInv
<1>4. CASE Drain
  BY <1>4, DrainInv
<1> QED
  BY <1>1, <1>2, <1>3, <1>4 DEF Next

(* So it holds throughout. *)
LEMMA Invariant == Spec => []IInv
BY InitInv, StepInv, PTL DEF Spec

(* A transfer is clocked again only after a failed run, or after another   *)
(* opcode discarded its result; whatever the host re-sends.                *)
THEOREM ReclockExcused == Spec => []ReclockedOnlyExcused
<1>1. IInv => ReclockedOnlyExcused
  BY DEF IInv
<1> QED
  BY <1>1, Invariant, PTL

-------------------------------------------------------------------------------
(* The host hears OK for a RELEASE only over a deasserted CS. *)
LEMMA ReleaseStep ==
    ASSUME IInv, Next, told' # told, told'.status = "OK", req[told'.n].op = "RELEASE"
    PROVE  ~bus.held /\ ~g_cs_held'
<1>1. ~(\E op \in Ops, hold \in BOOLEAN : Issue(op, hold)) /\ ~Drain
  BY DEF Issue, Drain, DrainTake, OtherBody, cc3501e_hw_spi1_configure, cc3501e_hw_spi1_transfer,
     cc3501e_hw_spi1_release, Publish
<1>2. PICK n \in asking : Poll(n)
  BY <1>1 DEF Next, GiveUp
<1>3. \A s : Answer(n, s) => told'.n = n /\ s = told'.status
  BY DEF Answer
<1>4. req[n].op = "RELEASE"
  BY <1>2, <1>3 DEF Poll, PollOther, PollConfigureRefused, PollConfigure, PollRelease,
     PollTransferUnconfigured, PollTransferServed, PollTransferFailed, PollTransferQueued
<1>5. PollRelease(n)
  BY <1>2, <1>4 DEF Poll, PollOther, PollConfigureRefused, PollConfigure,
     PollTransferUnconfigured, PollTransferServed, PollTransferFailed, PollTransferQueued
<1>6. /\ slot' = Routed(n).slot /\ latch' = Routed(n).latch /\ Routed(n).status = "OK"
      /\ ~g_cs_held'
  BY <1>3, <1>5 DEF PollRelease
<1>7. \/ latch.valid /\ latch.op = "RELEASE" /\ latch.n = n
      \/ Collects(n)
  BY <1>4, <1>6, RoutedIs
<1> QED
  BY <1>4, <1>6, <1>7 DEF IInv, BusInv, Collects

(* The escape hatch out of a lost CS_HOLD chain works: an OK for a RELEASE *)
(* is never heard over an asserted CS, and never leaves the handlers'      *)
(* record of a chain behind.                                               *)
THEOREM ReleaseHolds == Spec => ReleaseEscapes
<1>1. IInv /\ [Next]_vars =>
        [told' # told /\ told'.status = "OK" /\ req[told'.n].op = "RELEASE" =>
            ~bus.held /\ ~g_cs_held']_vars
  BY ReleaseStep DEF vars
<1> QED
  BY <1>1, Invariant, PTL DEF Spec, ReleaseEscapes

-------------------------------------------------------------------------------
(* Below the wrap two requests have different transfer seqs. *)
LEMMA XferSeqInjective ==
    ASSUME NoWrap, NEW m \in Reqs, NEW n \in Reqs, XferSeq(m) = XferSeq(n) PROVE m = n
<1> USE Spi1Bounds DEF NoWrap, Reqs, XferSeq
<1>1. \A k \in Reqs : k < XferSeqs => k % XferSeqs = k
  OBVIOUS
<1>2. XferSeqs % XferSeqs = 0
  OBVIOUS
<1> QED
  BY <1>1, <1>2

(* The finished transfer that answers request n ran for n. *)
LEMMA ServedIsOwn ==
    ASSUME NoWrap, IInv, NEW n \in asking, Serves(n)
    PROVE  slot.cmd = "TRANSFER" /\ slot.st = "DONE" /\ slot.req = n
<1>1. slot.cmd = "TRANSFER" /\ slot.st = "DONE" /\ slot.seq = XferSeq(n)
  BY DEF Serves, W!worker_poll, W!InFlight
<1>2. slot.req \in 1 .. Len(req) /\ slot.seq = XferSeq(slot.req) /\ n \in 1 .. Len(req)
  BY <1>1 DEF IInv, SlotInv, TypeInv
<1>3. slot.req \in Reqs /\ n \in Reqs
  BY <1>2, ReqIs DEF Reqs
<1> QED
  BY <1>1, <1>2, <1>3, XferSeqInjective

(* A poll touches neither the wire nor the host's requests, and an answer  *)
(* is one to the request polled.                                           *)
LEMMA PollIs ==
    ASSUME NEW n \in asking, Poll(n)
    PROVE  /\ UNCHANGED <<req, bus, runs>>
           /\ told' = told \/ told'.n = n
<1>1. UNCHANGED <<req, bus, runs>>
  BY DEF Poll, PollOther, PollConfigureRefused, PollConfigure, PollRelease, firmware,
     PollTransferUnconfigured, PollTransferServed, PollTransferFailed, PollTransferQueued
<1>2. \A s : Answer(n, s) => told' = told \/ told'.n = n
  BY DEF Answer
<1>3. told' = told \/ told'.n = n
  BY <1>2 DEF Poll, PollOther, PollConfigureRefused, PollConfigure, PollRelease,
     PollTransferUnconfigured, PollTransferServed, PollTransferFailed, PollTransferQueued
<1> QED
  BY <1>1, <1>3

(* An OK for a transfer comes from the slot. *)
LEMMA OkIsServed ==
    ASSUME IInv, NEW n \in asking, Poll(n), told' # told, told'.status = "OK", req[n].op = "TRANSFER"
    PROVE  PollTransferServed(n)
<1>1. ASSUME NEW s, Answer(n, s) PROVE s = "OK"
  <2>1. told' = [n |-> n, status |-> s]
    BY <1>1, Zenon DEF Answer
  <2>2. told'.status = s
    BY <2>1
  <2> QED
    BY <2>2
<1>2. ~PollTransferUnconfigured(n) /\ ~PollTransferQueued(n)
  BY <1>1 DEF PollTransferUnconfigured, PollTransferQueued
<1>3. ~PollTransferFailed(n)
  BY <1>1 DEF PollTransferFailed, W!worker_poll, W!InFlight, IInv, SlotInv
<1> QED
  BY <1>2, <1>3 DEF Poll, PollOther, PollConfigureRefused, PollConfigure, PollRelease

(* A request of the family being asked, the host relies on no chain. *)
LEMMA AskingUnchains ==
    ASSUME IInv, NEW n \in asking, req[n].op # "OTHER"
    PROVE  ~Chained
<1> SUFFICES ASSUME Chained PROVE FALSE
  OBVIOUS
<1>1. TypeInv /\ HostInv /\ Untouched(n) /\ Untouched(told.n) /\ told.n # 0 /\ told.n # n
  BY DEF IInv, HostInv, Chained
<1>2. PICK len \in Nat : len = Len(req)
  BY <1>1 DEF TypeInv
<1>3. n \in 1 .. len
  BY <1>1, <1>2 DEF TypeInv
<1>4. PICK i \in Nat : i = n /\ 1 <= i /\ i <= len
  BY <1>3
<1>5. told.n \in 0 .. MaxReq /\ told.n <= len
  BY <1>1, <1>2 DEF TypeInv
<1>6. PICK j \in Nat : j = told.n /\ 1 <= j /\ j <= len
  BY <1>1, <1>5, Spi1Bounds
<1>7. req[j].op = "TRANSFER"
  <2>1. j \in 1 .. len
    BY <1>6
  <2> QED
    BY <1>1, <1>2, <1>6, <2>1 DEF HostInv, Chained
<1>8. ~(j < i)
  <2>1. j < i => i \in j+1 .. len
    BY <1>4
  <2> QED
    BY <1>1, <1>2, <1>4, <1>6, <2>1 DEF Untouched
<1>9. ~(i < j)
  <2>1. i < j => j \in i+1 .. len
    BY <1>6
  <2> QED
    BY <1>1, <1>2, <1>4, <1>6, <1>7, <2>1 DEF Untouched
<1>10. i # j
  BY <1>1, <1>4, <1>6, Zenon
<1> QED
  BY <1>8, <1>9, <1>10

(* What the host was told of a transfer was so, and stays so. *)
LEMMA OkStep == NoWrap /\ IInv /\ OkWasClocked /\ [Next]_vars => OkWasClocked'
<1> SUFFICES ASSUME NoWrap, IInv, OkWasClocked, [Next]_vars,
                    told'.status = "OK", told'.n # 0, req'[told'.n].op = "TRANSFER"
             PROVE  runs'[told'.n] > 0
  BY DEF OkWasClocked
<1>0. /\ Len(req) \in Nat /\ told.n \in Nat /\ told.n <= Len(req) /\ req \in Seq(Requests)
      /\ runs \in [Reqs -> 0 .. 2] /\ Len(req) <= MaxReq
  BY DEF IInv, TypeInv
<1>1. \A n \in Reqs : runs[n] > 0 => runs'[n] > 0
  <2>1. runs' = runs \/ (slot.req \in Reqs /\ runs' = [runs EXCEPT ![slot.req] = IF @ < 2 THEN @ + 1 ELSE 2])
    <3>1. CASE cc3501e_hw_spi1_transfer
      <4>1. slot.req \in Reqs
        BY <3>1, ReqIs DEF cc3501e_hw_spi1_transfer, Running, IInv, SlotInv, Reqs
      <4> QED
        BY <3>1, <4>1 DEF cc3501e_hw_spi1_transfer
    <3>2. CASE ~cc3501e_hw_spi1_transfer
      BY <3>2 DEF vars, Next, Issue, GiveUp, Drain, DrainTake, OtherBody, cc3501e_hw_spi1_configure,
         cc3501e_hw_spi1_release, Poll, PollOther, PollConfigureRefused, PollConfigure, PollRelease,
         PollTransferUnconfigured, PollTransferServed, PollTransferFailed, PollTransferQueued
    <3> QED
      BY <3>1, <3>2
  <2> QED
    BY <2>1, <1>0
<1>2. CASE told' = told
  <2>1. req' = req \/ \E r : req' = Append(req, r)
    BY DEF vars, Next, Issue, GiveUp, Drain, DrainTake, OtherBody, cc3501e_hw_spi1_configure,
           Publish,
       cc3501e_hw_spi1_transfer, cc3501e_hw_spi1_release, Poll, PollOther, PollConfigureRefused,
       PollConfigure, PollRelease, firmware,
       PollTransferUnconfigured, PollTransferServed, PollTransferFailed, PollTransferQueued
  <2>2. told.n \in 1 .. Len(req) /\ told.n \in Reqs
    BY <1>0, <1>2, ReqIs DEF Reqs
  <2>3. req'[told.n] = req[told.n]
    BY <2>1, <2>2, <1>0
  <2> QED
    BY <2>2, <2>3, <1>1, <1>2 DEF OkWasClocked
<1>3. CASE told' # told
  <2>1. PICK n \in asking : Poll(n)
    BY <1>3 DEF vars, Next, Issue, GiveUp, Drain, DrainTake, OtherBody, cc3501e_hw_spi1_configure,
       cc3501e_hw_spi1_transfer, cc3501e_hw_spi1_release, Publish
  <2>2. told'.n = n /\ req' = req
    BY <2>1, <1>3, PollIs
  <2>3. PollTransferServed(n)
    BY <2>1, <2>2, <1>3, OkIsServed
  <2>4. runs' = runs /\ Serves(n)
    BY <2>3 DEF PollTransferServed
  <2> QED
    BY <2>2, <2>4, ServedIsOwn DEF IInv, ClockInv
<1> QED
  BY <1>2, <1>3

(* Below the wrap of the transfer's seq, a transfer the host was told OK   *)
(* about was clocked, and for this very request.                           *)
THEOREM OkClocked == ASSUME NoWrap PROVE Spec => []OkWasClocked
<1>1. Init => OkWasClocked
  BY DEF Init, OkWasClocked, NothingTold
<1> QED
  BY <1>1, Invariant, OkStep, PTL DEF Spec

(* The chain the host relies on stands: no step of it or of another opcode *)
(* takes it away.                                                          *)
LEMMA ChainStep == NoWrap /\ IInv /\ ChainInv /\ [Next]_vars => ChainInv'
<1> SUFFICES ASSUME NoWrap, IInv, ChainInv, [Next]_vars, Chained'
             PROVE  (bus.held /\ g_cs_held /\ (slot.cmd \in Family => W!Terminal(slot)))'
  BY DEF ChainInv
<1>0. /\ Len(req) \in Nat /\ told.n \in Nat /\ told.n <= Len(req) /\ req \in Seq(Requests)
      /\ slot \in Slots
  BY DEF IInv, TypeInv
<1>1. CASE UNCHANGED vars
  BY <1>1 DEF vars, ChainInv, Chained, Untouched, W!Terminal
<1>2. ASSUME NEW op \in Ops, NEW hold \in BOOLEAN, Issue(op, hold)
      PROVE  (bus.held /\ g_cs_held /\ (slot.cmd \in Family => W!Terminal(slot)))'
  <2>1. /\ req' = Append(req, [op |-> op, hold |-> hold]) /\ told' = told
        /\ UNCHANGED <<slot, bus, g_cs_held>>
    BY <1>2 DEF Issue, firmware
  <2>2. told.n \in 1 .. Len(req) /\ Len(req') = Len(req) + 1
        /\ \A m \in 1 .. Len(req) : req'[m] = req[m]
    BY <2>1, <1>0 DEF Chained
  <2>3. Chained
    <3>1. told.status = "OK" /\ told.n # 0 /\ req[told.n].hold
      BY <2>1, <2>2 DEF Chained
    <3>2. ASSUME NEW m \in told.n + 1 .. Len(req) PROVE req[m].op = "OTHER"
      <4>1. m \in 1 .. Len(req) /\ m \in told'.n + 1 .. Len(req')
        BY <2>1, <2>2, <1>0
      <4>2. req'[m].op = "OTHER"
        BY <4>1 DEF Chained, Untouched
      <4> QED
        BY <4>1, <4>2, <2>2
    <3> QED
      BY <3>1, <3>2 DEF Chained, Untouched
  <2> QED
    BY <2>1, <2>3 DEF ChainInv, W!Terminal
<1>3. ASSUME NEW n \in asking, GiveUp(n)
      PROVE  (bus.held /\ g_cs_held /\ (slot.cmd \in Family => W!Terminal(slot)))'
  BY <1>3 DEF GiveUp, firmware, ChainInv, Chained, Untouched, W!Terminal
<1>4. ASSUME NEW n \in asking, Poll(n)
      PROVE  (bus.held /\ g_cs_held /\ (slot.cmd \in Family => W!Terminal(slot)))'
  <2>1. req' = req /\ (told' = told \/ told'.n = n) /\ n \in 1 .. Len(req) /\ bus' = bus
    BY <1>4, PollIs DEF IInv, TypeInv
  <2>2. told' = told => Chained /\ req[n].op = "OTHER"
    <3>1. told' = told => Chained
      BY <2>1 DEF Chained, Untouched
    <3> QED
      BY <3>1, AskingUnchains
  <2>3. CASE told' = told
    <3>1. PollOther(n)
      BY <1>4, <2>2, <2>3 DEF Poll, PollConfigureRefused, PollConfigure, PollRelease,
         PollTransferUnconfigured, PollTransferServed, PollTransferFailed, PollTransferQueued
    <3>2. g_cs_held' = g_cs_held /\ SlotStep(n)
      BY <3>1, <2>2, <2>3, RoutedIs DEF PollOther
    <3>3. slot' = slot \/ slot'.cmd \in {"none", "OTHER"}
      <4>1. W!FreeSlot.cmd = "none" /\ Job(n).cmd = req[n].op
        BY DEF W!FreeSlot, Job
      <4> QED
        BY <4>1, <3>2, <2>2, <2>3 DEF SlotStep, Collects
    <3>4. {"none", "OTHER"} \cap Family = {}
      BY DEF Family
    <3> QED
      BY <2>1, <2>2, <2>3, <3>2, <3>3, <3>4 DEF ChainInv, W!Terminal
  <2>4. CASE told' # told
    <3>1. told'.n = n /\ told'.status = "OK" /\ req[n].hold
      BY <2>1, <2>4 DEF Chained
    <3>2. req[n].op = "TRANSFER"
      BY <3>1, <2>1 DEF IInv, HostInv
    <3>3. PollTransferServed(n)
      BY <3>1, <3>2, <2>4, <1>4, OkIsServed
    <3>4. slot.cmd = "TRANSFER" /\ slot.st = "DONE" /\ slot.req = n
      BY <3>3, ServedIsOwn DEF PollTransferServed
    <3>5. slot' = slot /\ g_cs_held' = req[n].hold
      BY <3>3, <3>4 DEF PollTransferServed
    <3>6. bus.held = req[n].hold
      BY <3>4 DEF IInv, BusInv
    <3> QED
      BY <2>1, <3>1, <3>4, <3>5, <3>6 DEF W!Terminal
  <2> QED
    BY <2>3, <2>4
<1>5. CASE Drain
  <2>1. UNCHANGED <<req, told, g_cs_held>>
    BY <1>5 DEF Drain, DrainTake, OtherBody, cc3501e_hw_spi1_configure, cc3501e_hw_spi1_transfer,
       cc3501e_hw_spi1_release, Publish
  <2>2. bus.held /\ g_cs_held /\ (slot.cmd \in Family => W!Terminal(slot))
    BY <2>1 DEF ChainInv, Chained, Untouched
  <2>3. CASE DrainTake
    <3>1. slot.cmd \notin Family /\ slot'.cmd = slot.cmd /\ bus' = bus
      BY <2>2, <2>3, <1>0 DEF DrainTake, W!TakeJob, W!Terminal, Slots
    <3> QED
      BY <3>1, <2>1, <2>2
  <2>4. CASE ~DrainTake
    <3>1. drain = "running"
      BY <1>5, <2>4 DEF Drain, OtherBody, cc3501e_hw_spi1_configure, cc3501e_hw_spi1_transfer,
         cc3501e_hw_spi1_release, Running
    <3>2. slot.cmd \notin Family
      BY <3>1, <2>2 DEF W!Terminal, IInv, SlotInv
    <3>3. OtherBody
      BY <1>5, <2>4, <3>2 DEF Drain, cc3501e_hw_spi1_configure, cc3501e_hw_spi1_transfer,
         cc3501e_hw_spi1_release, Running, Family
    <3>4. slot'.cmd = slot.cmd /\ bus' = bus
      BY <3>3, <1>0 DEF OtherBody, Publish, W!PublishJob, Slots
    <3> QED
      BY <3>2, <3>4, <2>1, <2>2
  <2> QED
    BY <2>3, <2>4
<1> QED
  BY <1>1, <1>2, <1>3, <1>4, <1>5 DEF Next

(* Below the wrap of the transfer's seq, the CS_HOLD chain the host relies *)
(* on is there on the wire and in the handlers' record, whatever requests  *)
(* were given up and whatever other opcodes ran in between.                *)
THEOREM ChainStands == ASSUME NoWrap PROVE Spec => []ChainKept
<1>1. Init => ChainInv
  BY DEF Init, ChainInv, Chained, NothingTold
<1>2. ChainInv => ChainKept
  BY DEF ChainInv, Chained, ChainKept
<1> QED
  BY <1>1, <1>2, Invariant, ChainStep, PTL DEF Spec

-------------------------------------------------------------------------------
(* The slave the host talks to. *)

Links == [open : BOOLEAN, armed : BOOLEAN, phase : Phases, timed : BOOLEAN,
          late : BOOLEAN, ready : BOOLEAN, dead : BOOLEAN, quiesce : BOOLEAN]

Places == {"idle", "body", "ran", "finish", "dead?", "resync?", "armfail?", "stall?", "quiet?",
           "ota?", "quiesced", "flash"}

Tasks == [pc : Places, job : Jobs \cup {"none"}, rearmed : BOOLEAN]

LinkTypeInv ==
    /\ link \in Links
    /\ armFail \in BOOLEAN
    /\ task \in Tasks

Bracket == {"quiesced", "flash"}

QuiesceInv == link.quiesce <=> task.pc \in Bracket

LinkInv == LinkTypeInv /\ QuiesceInv /\ UnarmedIsSeen

-------------------------------------------------------------------------------
(* What arming does to the fields the invariant is about. *)
LEMMA ArmedFields ==
    ASSUME NEW l \in Links, NEW ph \in Phases, NEW ok \in BOOLEAN
    PROVE  /\ Armed(l, ph, ok) \in Links
           /\ Armed(l, ph, ok).quiesce = l.quiesce
           /\ Armed(l, ph, ok).dead = l.dead
           /\ Armed(l, ph, ok).armed = (ok /\ ~l.quiesce)
<1>1. (ok /\ ~l.quiesce) \in BOOLEAN /\ (ok /\ ~l.quiesce /\ ph # "REQ_HEADER") \in BOOLEAN
  OBVIOUS
<1> QED
  BY <1>1 DEF Armed, Links

(* What a re-init does to them: it arms the slave, or leaves it marked     *)
(* dead, or fails in the arming.                                           *)
LEMMA ReopenedFields ==
    ASSUME NEW l \in Links, NEW o \in Outcomes
    PROVE  /\ Reopened(l, o) \in Links
           /\ Reopened(l, o).quiesce = l.quiesce
           /\ o = "open_fails" => Reopened(l, o).dead
           /\ (o = "ok" /\ ~l.quiesce) => Reopened(l, o).armed
<1>1. CASE o = "open_fails"
  BY <1>1 DEF Reopened, Links
<1>2. CASE o # "open_fails"
  <2> DEFINE m == [l EXCEPT !.open = TRUE, !.dead = FALSE]
             a == Armed(m, "REQ_HEADER", o = "ok")
  <2>1. m \in Links /\ m.quiesce = l.quiesce
    BY DEF Links
  <2>2. "REQ_HEADER" \in Phases /\ (o = "ok") \in BOOLEAN
    BY DEF Phases
  <2>3. a \in Links /\ a.quiesce = m.quiesce /\ a.armed = (o = "ok" /\ ~m.quiesce)
    BY <2>1, <2>2, ArmedFields
  <2>4. (l.ready \/ o = "ok") \in BOOLEAN
    OBVIOUS
  <2>5. Reopened(l, o) = [a EXCEPT !.ready = l.ready \/ o = "ok"]
    BY <1>2 DEF Reopened
  <2> HIDE DEF a, m
  <2> QED
    BY <1>2, <2>1, <2>3, <2>4, <2>5 DEF Links
<1> QED
  BY <1>1, <1>2

(* A task that goes on to another place ... *)
LEMMA GotoFields ==
    ASSUME NEW t \in Tasks, NEW pc \in Places
    PROVE  [t EXCEPT !.pc = pc] \in Tasks /\ [t EXCEPT !.pc = pc].pc = pc
BY DEF Tasks

(* ... and one that starts anew, is a task. *)
LEMMA TaskFields ==
    ASSUME NEW pc \in Places, NEW j \in Jobs \cup {"none"}, NEW r \in BOOLEAN
    PROVE  [pc |-> pc, job |-> j, rearmed |-> r] \in Tasks
BY DEF Tasks

(* Lowering or raising READY, and the quiesce mark. *)
LEMMA LineFields ==
    ASSUME NEW l \in Links
    PROVE  /\ Busy(l) \in Links /\ Ready(l) \in Links
           /\ Busy(l).quiesce = l.quiesce /\ Ready(l).quiesce = l.quiesce
           /\ Busy(l).armed = l.armed /\ Ready(l).armed = l.armed
           /\ Busy(l).dead = l.dead /\ Ready(l).dead = l.dead
           /\ \A q \in BOOLEAN : /\ [l EXCEPT !.quiesce = q] \in Links
                                 /\ [l EXCEPT !.quiesce = q].quiesce = q
BY DEF Busy, Ready, Links

(* A step that re-initialises the slave from a state l without the quiesce *)
(* mark, and notes a failure to arm, keeps the invariant.                  *)
LEMMA ReopenedSeen ==
    ASSUME LinkTypeInv, NEW l \in Links, ~l.quiesce, NEW o \in Outcomes,
           link' \in {Reopened(l, o), Ready(Reopened(l, o))},
           o = "arm_fails" => armFail', armFail' \in BOOLEAN,
           task' \in Tasks, task'.pc \notin Bracket
    PROVE  LinkInv'
<1>1. /\ Reopened(l, o) \in Links /\ ~Reopened(l, o).quiesce
      /\ o = "open_fails" => Reopened(l, o).dead
      /\ o = "ok" => Reopened(l, o).armed
  BY ReopenedFields
<1>2. /\ link' \in Links /\ ~link'.quiesce
      /\ o = "open_fails" => link'.dead
      /\ o = "ok" => link'.armed
  BY <1>1, LineFields
<1> QED
  BY <1>2 DEF LinkInv, LinkTypeInv, QuiesceInv, UnarmedIsSeen, Outcomes

(* A step that leaves the slave alone but for READY, forgets no failure    *)
(* and stays out of the OTA bracket keeps it too.                          *)
LEMMA LeftAloneSeen ==
    ASSUME LinkInv, ~link.quiesce,
           link' \in {link, Busy(link), Ready(link)},
           armFail' = armFail,
           task' \in Tasks, task'.pc \notin Bracket
    PROVE  LinkInv'
<1>1. /\ link' \in Links /\ link'.quiesce = link.quiesce
      /\ link'.armed = link.armed /\ link'.dead = link.dead
  BY LineFields DEF LinkInv, LinkTypeInv
<1> QED
  BY <1>1 DEF LinkInv, LinkTypeInv, QuiesceInv, UnarmedIsSeen

(* A transfer that ends: the slave is armed again, or the failure noted.   *)
LEMMA RearmSeen ==
    ASSUME LinkInv, NEW ph \in Phases, NEW ok \in BOOLEAN, Rearm(ph, ok)
    PROVE  LinkInv'
<1>1. /\ link' \in Links /\ link'.quiesce = link.quiesce /\ link'.dead = link.dead
      /\ link'.armed = (ok /\ ~link.quiesce)
  BY ArmedFields DEF Rearm, LinkInv, LinkTypeInv
<1>2. armFail' = (armFail \/ (~ok /\ ~link.quiesce)) /\ armFail' \in BOOLEAN /\ task' = task
  BY DEF Rearm, LinkInv, LinkTypeInv
<1>3. LinkTypeInv' /\ QuiesceInv'
  BY <1>1, <1>2 DEF LinkInv, LinkTypeInv, QuiesceInv
<1>4. UnarmedIsSeen'
  BY <1>1, <1>2 DEF UnarmedIsSeen, LinkInv, LinkTypeInv
<1> QED
  BY <1>3, <1>4 DEF LinkInv

(* Every step keeps the invariant. *)
LEMMA StepSeen == LinkInv /\ [LinkNext]_linkVars => LinkInv'
<1> SUFFICES ASSUME LinkInv, [LinkNext]_linkVars PROVE LinkInv'
  OBVIOUS
<1> USE DEF At, Goto
<1>0. link \in Links /\ armFail \in BOOLEAN /\ task \in Tasks /\ LinkTypeInv
  BY DEF LinkInv, LinkTypeInv
<1>a. task.pc \notin {"quiesced", "flash"} => ~link.quiesce
  BY DEF LinkInv, QuiesceInv, Bracket
<1>b. Busy(link) \in Links /\ Busy(link).quiesce = link.quiesce
  BY <1>0, LineFields
<1>p. {"idle", "body", "ran", "finish", "dead?", "resync?", "armfail?", "stall?", "quiet?",
       "ota?", "quiesced", "flash"} \subseteq Places
  BY DEF Places
<1>1. CASE Transfer
  <2>1. \A w \in {"junk", "short", "long"} : NextPhase(w) \in Phases
    BY <1>0 DEF NextPhase, Phases, Links
  <2> QED
    BY <1>1, <2>1, RearmSeen DEF Transfer, Completed, TransferFailed, Phases
<1>2. CASE Elapse
  <2>1. link' = [link EXCEPT !.late = TRUE] /\ armFail' = armFail /\ task' = task
    BY <1>2 DEF Elapse
  <2> QED
    BY <1>0, <2>1 DEF LinkInv, LinkTypeInv, QuiesceInv, UnarmedIsSeen, Links
<1>3. CASE \/ \E j \in Jobs : JobTake(j)
           \/ HealBegin \/ NoJob \/ BodyPlain \/ DrainSkip \/ DrainFinish \/ OtaIdle
  <2>1. ~link.quiesce
    BY <1>3, <1>a DEF JobTake, HealBegin, NoJob, BodyPlain, DrainSkip, DrainFinish, OtaIdle
  <2>2. link' \in {link, Busy(link), Ready(link)} /\ armFail' = armFail
    BY <1>3 DEF JobTake, HealBegin, NoJob, BodyPlain, DrainSkip, DrainFinish, OtaIdle
  <2>3. \/ \E pc \in {"dead?", "finish", "idle"} : task' = [task EXCEPT !.pc = pc]
        \/ \E j \in Jobs : task' = [task EXCEPT !.pc = "ran", !.job = j]
        \/ \E j \in Jobs : task' = [pc |-> "body", job |-> j, rearmed |-> TRUE]
        \/ task' = [pc |-> "dead?", job |-> "none", rearmed |-> TRUE]
    BY <1>3
       DEF JobTake, HealBegin, NoJob, BodyPlain, DrainSkip, DrainFinish, OtaIdle, Jobs
  <2>4. task' \in Tasks /\ task'.pc \notin Bracket
    <3>1. CASE \E pc \in {"dead?", "finish", "idle"} : task' = [task EXCEPT !.pc = pc]
      BY <3>1, <1>0, <1>p, GotoFields DEF Bracket
    <3>2. CASE \E j \in Jobs : task' = [task EXCEPT !.pc = "ran", !.job = j]
      <4>1. PICK j \in Jobs : task' = [task EXCEPT !.pc = "ran", !.job = j]
        BY <3>2
      <4>2. j \in Jobs \cup {"none"}
        OBVIOUS
      <4> QED
        BY <4>1, <4>2, <1>0 DEF Tasks, Places, Bracket
    <3>3. CASE \E j \in Jobs : task' = [pc |-> "body", job |-> j, rearmed |-> TRUE]
      <4>1. PICK j \in Jobs : task' = [pc |-> "body", job |-> j, rearmed |-> TRUE]
        BY <3>3
      <4>2. j \in Jobs \cup {"none"} /\ TRUE \in BOOLEAN /\ "body" \in Places
        BY <1>p
      <4>3. task' \in Tasks
        BY <4>1, <4>2, TaskFields
      <4> QED
        BY <4>1, <4>3 DEF Bracket
    <3>4. CASE task' = [pc |-> "dead?", job |-> "none", rearmed |-> TRUE]
      BY <3>4, <1>p, TaskFields DEF Bracket
    <3> QED
      BY <2>3, <3>1, <3>2, <3>3, <3>4
  <2> QED
    BY <2>1, <2>2, <2>4, LeftAloneSeen
<1>4. CASE OtaQuiesce
  <2>1. /\ link' = [Busy(link) EXCEPT !.quiesce = TRUE] /\ armFail' = armFail
        /\ task' = [task EXCEPT !.pc = "quiesced"]
    BY <1>4 DEF OtaQuiesce
  <2>2. link' \in Links /\ link'.quiesce
    BY <2>1, <1>b, LineFields
  <2>3. task' \in Tasks /\ task'.pc = "quiesced"
    BY <1>0, <1>p, <2>1, GotoFields
  <2> QED
    BY <1>0, <2>1, <2>2, <2>3 DEF LinkInv, LinkTypeInv, QuiesceInv, UnarmedIsSeen, Bracket
<1>5. CASE OtaRelease
  <2>1. /\ link' = [link EXCEPT !.open = FALSE, !.armed = FALSE, !.phase = "REQ_HEADER",
                                !.timed = FALSE, !.late = FALSE]
        /\ armFail' = armFail /\ task' = [task EXCEPT !.pc = "flash"]
    BY <1>5 DEF OtaRelease
  <2>2. link' \in Links /\ link'.quiesce = link.quiesce /\ link'.dead = link.dead
    BY <1>0, <2>1 DEF Links, Phases
  <2>3. task' \in Tasks /\ task'.pc = "flash"
    BY <1>0, <1>p, <2>1, GotoFields
  <2>4. link.quiesce
    BY <1>5 DEF OtaRelease, LinkInv, QuiesceInv, Bracket
  <2> QED
    BY <1>0, <2>1, <2>2, <2>3, <2>4 DEF LinkInv, LinkTypeInv, QuiesceInv, UnarmedIsSeen, Bracket
<1>6. ASSUME NEW o \in Outcomes, BodyBle(o) \/ BodyConnected(o) \/ DrainReinit(o) PROVE LinkInv'
  <2>1. ~link.quiesce
    BY <1>6, <1>a DEF BodyBle, BodyConnected, DrainReinit
  <2>2. /\ link' \in {Reopened(Busy(link), o), Ready(Reopened(Busy(link), o))}
        /\ armFail' = (armFail \/ o = "arm_fails")
    BY <1>6 DEF BodyBle, BodyConnected, DrainReinit, ReinitNoted, Reinit
  <2>3. armFail' \in BOOLEAN /\ (o = "arm_fails" => armFail') /\ (o = "ok") \in BOOLEAN
    BY <2>2
  <2>4. \/ task' = [task EXCEPT !.pc = "ran"]
        \/ task' = [pc |-> "ran", job |-> "skip", rearmed |-> o = "ok"]
        \/ task' = [task EXCEPT !.pc = "finish", !.rearmed = o = "ok"]
    BY <1>6 DEF BodyBle, BodyConnected, DrainReinit
  <2>5. "skip" \in Jobs \cup {"none"}
    BY DEF Jobs
  <2>6. task' \in Tasks /\ task'.pc \notin Bracket
    <3>1. CASE task' = [task EXCEPT !.pc = "ran"]
      BY <3>1, <1>0, <1>p, GotoFields DEF Bracket
    <3>2. CASE task' = [pc |-> "ran", job |-> "skip", rearmed |-> o = "ok"]
      BY <3>2, <2>3, <2>5, <1>p, TaskFields DEF Bracket
    <3>3. CASE task' = [task EXCEPT !.pc = "finish", !.rearmed = o = "ok"]
      <4>1. "finish" \in Places
        BY <1>p
      <4> QED
        BY <3>3, <4>1, <2>3, <1>0 DEF Tasks, Bracket
    <3> QED
      BY <2>4, <3>1, <3>2, <3>3
  <2> QED
    BY <1>0, <1>b, <2>1, <2>2, <2>3, <2>6, ReopenedSeen
<1>7. ASSUME NEW o \in Outcomes,
             HealDead(o) \/ HealResync(o) \/ HealArmFail(o) \/ HealStall(o) \/ HealQuiet(o)
      PROVE  LinkInv'
  <2> DEFINE Healed == {"resync?", "armfail?", "stall?", "quiet?", "ota?", "body"}
  <2>1. ~link.quiesce
    BY <1>7, <1>a DEF HealDead, HealResync, HealArmFail, HealStall, HealQuiet, HealPass
  <2>2. \E pc \in Healed : task' = [task EXCEPT !.pc = pc]
    BY <1>7 DEF HealDead, HealResync, HealArmFail, HealStall, HealQuiet, HealPass, AfterStall
  <2>3. task' \in Tasks /\ task'.pc \notin Bracket
    BY <2>2, <1>0, <1>p, GotoFields DEF Bracket
  <2>4. \/ link' = link /\ armFail' = armFail
        \/ /\ link' \in {Reopened(link, o), Reopened(Busy(link), o)}
           /\ armFail' = (armFail \/ o = "arm_fails") \/ armFail' = (o = "arm_fails")
    BY <1>7 DEF HealDead, HealResync, HealArmFail, HealStall, HealQuiet, HealPass,
                ReinitNoted, Reinit
  <2>5. CASE link' = link /\ armFail' = armFail
    BY <2>1, <2>3, <2>5, LeftAloneSeen
  <2>6. CASE /\ link' \in {Reopened(link, o), Reopened(Busy(link), o)}
             /\ armFail' = (armFail \/ o = "arm_fails") \/ armFail' = (o = "arm_fails")
    <3>1. armFail' \in BOOLEAN /\ (o = "arm_fails" => armFail')
      BY <2>6
    <3> QED
      BY <1>0, <1>b, <2>1, <2>3, <2>6, <3>1, ReopenedSeen
  <2> QED
    BY <2>4, <2>5, <2>6
<1>8. ASSUME NEW o \in Outcomes, OtaReopen(o) PROVE LinkInv'
  <2> DEFINE l == [link EXCEPT !.quiesce = FALSE]
  <2>1. /\ link' = Ready(Reopened(l, o)) /\ armFail' = (armFail \/ o = "arm_fails")
        /\ task' = [task EXCEPT !.pc = "idle"]
    BY <1>8 DEF OtaReopen
  <2>2. l \in Links /\ ~l.quiesce
    BY <1>0, LineFields
  <2>3. armFail' \in BOOLEAN /\ (o = "arm_fails" => armFail')
    BY <2>1
  <2>4. task' \in Tasks /\ task'.pc \notin Bracket
    BY <2>1, <1>0, <1>p, GotoFields DEF Bracket
  <2> HIDE DEF l
  <2> QED
    BY <1>0, <2>1, <2>2, <2>3, <2>4, ReopenedSeen
<1>9. CASE UNCHANGED linkVars
  BY <1>9 DEF linkVars, LinkInv, LinkTypeInv, QuiesceInv, UnarmedIsSeen
<1> QED
  BY <1>1, <1>2, <1>3, <1>4, <1>5, <1>6, <1>7, <1>8, <1>9 DEF LinkNext, Task

(* The slave is not armed at start only with the failure that caused it.   *)
LEMMA InitSeen == LinkInit => LinkInv
<1> SUFFICES ASSUME LinkInit PROVE LinkInv
  OBVIOUS
<1>1. PICK o \in Outcomes : link = Ready(Reopened(Closed, o)) /\ armFail = (o = "arm_fails")
  BY DEF LinkInit
<1>2. Closed \in Links /\ ~Closed.quiesce
  BY DEF Closed, Links, Phases
<1>3. /\ Reopened(Closed, o) \in Links /\ ~Reopened(Closed, o).quiesce
      /\ o = "open_fails" => Reopened(Closed, o).dead
      /\ o = "ok" => Reopened(Closed, o).armed
  BY <1>2, ReopenedFields
<1>4. /\ link \in Links /\ ~link.quiesce
      /\ o = "open_fails" => link.dead
      /\ o = "ok" => link.armed
  BY <1>1, <1>3, LineFields
<1>5. task = [pc |-> "idle", job |-> "none", rearmed |-> TRUE]
  BY DEF LinkInit
<1>6. task \in Tasks /\ task.pc \notin Bracket
  BY <1>5 DEF Tasks, Places, Bracket
<1> QED
  BY <1>1, <1>4, <1>6 DEF LinkInv, LinkTypeInv, QuiesceInv, UnarmedIsSeen, Outcomes

(* A slave that is not armed is never unnoticed: whichever transfer,       *)
(* re-init or OTA bracket left it so, either the dead mark is up or an arm *)
(* failure waits for cc3501e_hw_link_heal.                                 *)
THEOREM UnarmedSeen == LinkSpec => []UnarmedIsSeen
<1>1. LinkInv => UnarmedIsSeen
  BY DEF LinkInv
<1> QED
  BY <1>1, InitSeen, StepSeen, PTL DEF LinkSpec
===============================================================================
