-------------------------------- MODULE Bridge --------------------------------
(***************************************************************************)
(* The request path of the bridge: the host's poll-by-repeat, the SPI      *)
(* callback that dispatches a frame (src/src/protocol.c and                *)
(* protocol_sockets.c), and the drain task that runs the queued job        *)
(* (worker_run_pending in src/src/worker.c).                               *)
(*                                                                         *)
(* Three actors interleave.                                                *)
(*   host      issues requests, re-sends the identical frame until it gets *)
(*             a final answer, may give up, may lose any reply;            *)
(*   callback  one dispatch is one step: it interrupts the drain anywhere  *)
(*             and the drain never interrupts it;                          *)
(*   drain     take, run the HAL body, publish, re-arm the link, finish:   *)
(*             one step per critical section or blocking call.             *)
(*                                                                         *)
(* Opcodes.  Generic stands for the opcodes the host polls to completion   *)
(* through handle_worker_routed, _payload and _payload_reply: the three    *)
(* helpers differ in the data they copy, not in what they do to the slot   *)
(* or the latch.  Send is SOCK_SEND, Connect is WIFI_CONNECT_STA and       *)
(* ApStart is WIFI_AP_START.  A Big opcode's reply exceeds the 32 bytes of *)
(* the latch; a Bare opcode is sent without a header seq (seq 0).          *)
(*                                                                         *)
(* Each opcode has at most one request outstanding (the host API's single  *)
(* caller contract, protocol_sockets.c:88-104); MaxAlive bounds the        *)
(* outstanding requests of all opcodes: 1 is a lockstep host.              *)
(*                                                                         *)
(* Ghost state: request numbers (the firmware sees only their seqs), execs *)
(* (how often a body ran for a request, counted up to 2) and answer (for   *)
(* each opcode, the last final answer the host accepted: the request and   *)
(* the request whose execution produced it).                               *)
(***************************************************************************)
EXTENDS Naturals, FiniteSets

CONSTANTS Generic, Big, Bare, Send, Connect, ApStart,
          NoOp,       \* no opcode: a free slot, no answer yet
          HdrSeqs,    \* usable header seqs, 1..HdrSeqs (5 bits, 0 reserved)
          SendSeqs,   \* SOCK_SEND seqs, 0..SendSeqs-1 (8 bits)
          MaxReq,     \* requests per opcode ...
          MaxJoin,    \* ... and per fire-and-forget opcode
          MaxAlive,   \* requests outstanding at once
          MayGiveUp   \* opcodes whose request the host may abandon

Joins == {Connect, ApStart}
Polled == Generic \cup {Send}
Ops == Polled \cup Joins

ASSUME OpsAssumption ==
    /\ Send \notin Generic /\ Connect \notin Generic /\ ApStart \notin Generic
    /\ Send # Connect /\ Send # ApStart /\ Connect # ApStart
    /\ NoOp \notin Ops
    /\ Big \subseteq Generic /\ Bare \subseteq Generic

ASSUME BoundsAssumption ==
    /\ HdrSeqs \in Nat \ {0} /\ SendSeqs \in Nat \ {0}
    /\ MaxReq \in Nat /\ MaxJoin \in 0..MaxReq /\ MaxAlive \in Nat
    /\ MayGiveUp \subseteq Ops

VARIABLES
    slot,     \* the worker's job slot; req is a request number
    latch,    \* s_retry_latch: the last collected outcome
    cache,    \* g_sock_send_*: the last completed SOCK_SEND
    drain,    \* where worker_run_pending stands, and the job it holds
    conn,     \* g_conn's connecting flag, as WIFI_STATUS reports it
    asking,   \* host: opcodes with a request outstanding
    issued,   \* host: number of the latest request of each opcode
    execs,    \* ghost: executions of each request
    answer    \* ghost: the last final answer to each opcode

vars == <<slot, latch, cache, drain, conn, asking, issued, execs, answer>>

W == INSTANCE WorkerSlot WITH NoCmd <- NoOp, NoReq <- 0, NoRes <- "none"

Reqs == 1 .. MaxReq
SendSeqUntruncated(n) == n    \* variant for mutation
SendSeq(n) == n % SendSeqs
HdrSeq(op) == IF op \in Bare THEN 0 ELSE ((issued[op] - 1) % HdrSeqs) + 1
SlotSeq(op, n) == IF op = Send THEN SendSeq(n) ELSE 0

NoLatch == [valid |-> FALSE, cmd |-> NoOp, seq |-> 0, by |-> 0]
NoCache == [valid |-> FALSE, seq |-> 0, by |-> 0]
NoAnswer == [n |-> 0, by |-> 0]
Asleep == [pc |-> "sleep", cmd |-> NoOp]

Init ==
    /\ slot = W!FreeSlot
    /\ latch = NoLatch
    /\ cache = NoCache
    /\ drain = Asleep
    /\ conn = "DOWN"
    /\ asking = {}
    /\ issued = [op \in Ops |-> 0]
    /\ execs = [op \in Polled |-> [n \in Reqs |-> 0]]
    /\ answer = [op \in Polled |-> NoAnswer]

-------------------------------------------------------------------------------
(* The host (external: the alp-sdk driver, from how the firmware uses it). *)

Issue(op) ==
    /\ op \notin asking
    /\ Cardinality(asking) < MaxAlive
    /\ issued[op] < IF op \in Joins THEN MaxJoin ELSE MaxReq
    /\ asking' = asking \cup {op}
    /\ issued' = [issued EXCEPT ![op] = @ + 1]
    /\ UNCHANGED <<slot, latch, cache, drain, conn, execs, answer>>

GiveUp(op) ==
    /\ op \in MayGiveUp
    /\ op \in asking
    /\ asking' = asking \ {op}
    /\ UNCHANGED <<slot, latch, cache, drain, conn, issued, execs, answer>>

(* A reply reaches the host, or is lost and the host will ask again. *)
Final(op, by) ==
    /\ asking' = asking \ {op}
    /\ answer' = IF op \in Polled
                THEN [answer EXCEPT ![op] = [n |-> issued[op], by |-> by]]
                ELSE answer

Lost == UNCHANGED <<asking, answer>>

(* BUSY means "ask again", except to the fire-and-forget opcodes, whose    *)
(* host takes it as accepted and turns to WIFI_STATUS.                     *)
Busy(op) ==
    /\ asking' = IF op \in Joins THEN asking \ {op} ELSE asking
    /\ UNCHANGED answer

-------------------------------------------------------------------------------
(* The generic retry latch. *)

(* Variant for mutation: the opcode alone is compared. *)
LatchHitAnySeq(op) == op # Send /\ HdrSeq(op) # 0 /\ latch.valid /\ latch.cmd = op

(* The entry answers a re-send: same opcode and same seq, SOCK_SEND apart. *)
LatchHit(op) ==
    /\ op # Send
    /\ HdrSeq(op) # 0
    /\ latch.valid /\ latch.cmd = op /\ latch.seq = HdrSeq(op)

(* A miss on the same opcode with another seq drops the entry. *)
LatchAfterMiss(op) ==
    IF op # Send /\ HdrSeq(op) # 0 /\ latch.valid /\ latch.cmd = op
    THEN [latch EXCEPT !.valid = FALSE]
    ELSE latch

(* Variant for mutation: only a successful outcome takes the latch. *)
LatchStoreOkOnly(op, st, by) ==
    IF op = Send THEN latch
    ELSE IF HdrSeq(op) = 0 \/ op \in Big \/ st = "ERR"
    THEN [latch EXCEPT !.valid = FALSE]
    ELSE [valid |-> TRUE, cmd |-> op, seq |-> HdrSeq(op), by |-> by]

(* Any collected outcome takes the latch, or empties it when it cannot be  *)
(* kept: no seq, or a successful reply too big for it.                     *)
retry_latch_store(op, st, by) ==
    IF op = Send THEN latch
    ELSE IF HdrSeq(op) = 0 \/ (op \in Big /\ st = "DONE")
    THEN [latch EXCEPT !.valid = FALSE]
    ELSE [valid |-> TRUE, cmd |-> op, seq |-> HdrSeq(op), by |-> by]

-------------------------------------------------------------------------------
(* The dispatch of one frame.  handle_worker_routed(op, s) is what follows *)
(* a latch miss, from slot s.                                              *)

Collect(op, s) ==
    /\ W!worker_poll(s, op) \in {"DONE", "ERR"}
    /\ slot' = W!FreeSlot
    /\ latch' = retry_latch_store(op, s.st, s.req)
    /\ Final(op, s.req) \/ Lost
    /\ UNCHANGED conn

Submit(op, s) ==
    /\ W!worker_poll(s, op) = "IDLE"
    /\ slot' = W!worker_submit(W!SlotAfterPoll(s, op), op, issued[op],
                               SlotSeq(op, issued[op]))
    /\ conn' = IF op = Connect THEN "CONNECTING" ELSE conn
    /\ latch' = LatchAfterMiss(op)
    /\ Busy(op) \/ Lost

StillBusy(op, s) ==
    /\ W!worker_poll(s, op) \in {"QUEUED", "RUNNING"}
    /\ slot' = s
    /\ latch' = LatchAfterMiss(op)
    /\ Busy(op) \/ Lost
    /\ UNCHANGED conn

handle_worker_routed(op, s) == Collect(op, s) \/ Submit(op, s) \/ StillBusy(op, s)

(* Every opcode but SOCK_SEND: latch first, then the worker. *)
PollLatched(op) ==
    /\ op \in asking
    /\ LatchHit(op)
    /\ Final(op, latch.by) \/ Lost
    /\ UNCHANGED <<slot, latch, cache, drain, conn, issued, execs>>

PollWorker(op) ==
    /\ op \in asking \ {Send}
    /\ ~LatchHit(op)
    /\ handle_worker_routed(op, slot)
    /\ UNCHANGED <<cache, drain, issued, execs>>

(* Variant for mutation: the entry counts only while its job holds the slot. *)
CacheHitInSlot == cache.valid /\ cache.seq = SendSeq(issued[Send]) /\ slot.cmd = Send

(* SOCK_SEND: its own cache first.  A hit also frees the finished job. *)
CacheHit == cache.valid /\ cache.seq = SendSeq(issued[Send])

PollSendCached ==
    /\ Send \in asking
    /\ CacheHit
    /\ slot' = W!worker_reclaim_matching_terminal(slot, Send, SendSeq(issued[Send]))
    /\ Final(Send, cache.by) \/ Lost
    /\ UNCHANGED <<latch, cache, drain, conn, issued, execs>>

(* A miss drops the entry, evicts an older send's result, then goes on.    *)
PollSendWorker ==
    /\ Send \in asking
    /\ ~CacheHit
    /\ cache' = [cache EXCEPT !.valid = FALSE]
    /\ handle_worker_routed(Send,
           W!worker_discard_stale_terminal(slot, Send, SendSeq(issued[Send])))
    /\ UNCHANGED <<drain, issued, execs>>

Poll(op) ==
    \/ PollLatched(op)
    \/ PollWorker(op)
    \/ op = Send /\ (PollSendCached \/ PollSendWorker)

-------------------------------------------------------------------------------
(* The drain task: worker_run_pending. *)

DrainTake ==
    /\ drain.pc = "sleep"
    /\ slot.st = "QUEUED"
    /\ slot' = W!TakeJob(slot)
    /\ drain' = [pc |-> "taken", cmd |-> slot.cmd]
    /\ UNCHANGED <<latch, cache, conn, asking, issued, execs, answer>>

(* worker_execute's switch: the blocking HAL body runs.  A connect body    *)
(* ends by publishing its outcome in the status latch.                     *)
Once(k) == IF k < 2 THEN k + 1 ELSE 2

DrainBody ==
    /\ drain.pc = "taken"
    /\ execs' = IF drain.cmd \in Polled
               THEN [execs EXCEPT ![drain.cmd][slot.req] = Once(@)]
               ELSE execs
    /\ conn' = IF drain.cmd = Connect THEN "SETTLED" ELSE conn
    /\ drain' = [drain EXCEPT !.pc = "ran"]
    /\ UNCHANGED <<slot, latch, cache, asking, issued, answer>>

(* Variant for mutation: only a successful send fills the cache. *)
PublishOkOnly(ok) ==
    /\ drain.pc = "ran"
    /\ cache' = IF drain.cmd = Send /\ ok
                THEN [valid |-> TRUE, seq |-> slot.seq, by |-> slot.req]
                ELSE cache
    /\ slot' = W!PublishJob(slot, ok, "none")
    /\ drain' = [drain EXCEPT !.pc = "published"]
    /\ UNCHANGED <<latch, conn, asking, issued, execs, answer>>

(* worker_execute's last critical section: a finished send fills its cache *)
(* before the slot turns terminal, whatever the outcome.                   *)
DrainPublish(ok) ==
    /\ drain.pc = "ran"
    /\ cache' = IF drain.cmd = Send
                THEN [valid |-> TRUE, seq |-> slot.seq, by |-> slot.req]
                ELSE cache
    /\ slot' = W!PublishJob(slot, ok, "none")
    /\ drain' = [drain EXCEPT !.pc = "published"]
    /\ UNCHANGED <<latch, conn, asking, issued, execs, answer>>

(* The rest of worker_run_pending: the link is re-armed (SpiLink models    *)
(* it), then the fire-and-forget opcodes free the slot themselves.         *)
DrainFinish ==
    /\ drain.pc = "published"
    /\ slot' = IF drain.cmd \in Joins THEN W!FreeSlot ELSE slot
    /\ drain' = Asleep
    /\ UNCHANGED <<latch, cache, conn, asking, issued, execs, answer>>

Drain == DrainTake \/ DrainBody \/ (\E ok \in BOOLEAN : DrainPublish(ok)) \/ DrainFinish

Next ==
    \/ \E op \in Ops : Issue(op) \/ GiveUp(op) \/ Poll(op)
    \/ Drain

Spec == Init /\ [][Next]_vars

(* The drain task is periodic (main.c:222-232), a host with a request      *)
(* outstanding keeps re-sending it, and a reply that is offered again and  *)
(* again is not lost for ever.                                             *)
Fairness ==
    /\ WF_vars(Drain)
    /\ \A op \in Ops : WF_vars(Poll(op)) /\ SF_vars(Poll(op) /\ op \notin asking')

FairSpec == Spec /\ Fairness

-------------------------------------------------------------------------------
(* Type correctness of the slot, the latch, the cache and the host's side. *)
TypeOK ==
    /\ slot \in [st : W!SlotStates, cmd : Ops \cup {NoOp}, req : 0..MaxReq,
                 seq : 0..SendSeqs-1, res : {"none"}]
    /\ latch \in [valid : BOOLEAN, cmd : Ops \cup {NoOp}, seq : 0..HdrSeqs, by : 0..MaxReq]
    /\ cache \in [valid : BOOLEAN, seq : 0..SendSeqs-1, by : 0..MaxReq]
    /\ drain \in [pc : {"sleep", "taken", "ran", "published"}, cmd : Ops \cup {NoOp}]
    /\ conn \in {"DOWN", "CONNECTING", "SETTLED"}
    /\ asking \in SUBSET Ops
    /\ issued \in [Ops -> 0..MaxReq]
    /\ execs \in [Polled -> [Reqs -> 0..2]]
    /\ answer \in [Polled -> [n : 0..MaxReq, by : 0..MaxReq]]

(* The slot is RUNNING exactly while the drain is inside worker_execute,   *)
(* for the opcode the drain took: no dispatch resets or replaces a job     *)
(* under the body that is running it (worker.c:728-863, 865-912).          *)
RunningIsHeld ==
    /\ slot.st = "RUNNING" <=> drain.pc \in {"taken", "ran"}
    /\ slot.st = "RUNNING" => slot.cmd = drain.cmd

(* A SOCK_SEND body runs at most once for each logical send, however often *)
(* its frame is re-sent, its reply lost, its result discarded by another   *)
(* opcode's poll, or its seq reused after a wrap (protocol_sockets.c:28-62)*)
SendAtMostOnce == \A n \in Reqs : execs[Send][n] <= 1

(* A finished send that its host still asks for is in the cache whenever   *)
(* its terminal state can be seen (worker.h:203-247, worker.c:625-661).    *)
SendCachedFirst ==
    W!Terminal(slot) /\ slot.cmd = Send /\ slot.req = issued[Send] =>
        cache.valid /\ cache.seq = slot.seq /\ cache.by = slot.req

(* For a lockstep host, a numbered opcode whose reply fits the latch, and  *)
(* which the host does not give up, runs at most once per request, whatever*)
(* the host abandons of the others (protocol.c:178-366, issue #102).       *)
Lockstep == MaxAlive = 1
Kept == Generic \ MayGiveUp

LockstepOnce ==
    Lockstep => \A op \in Kept \ (Big \cup Bare) : \A n \in Reqs : execs[op][n] <= 1

(* An opcode whose requests the host does not give up is answered with its *)
(* own result, never with that of an earlier request left in the latch or  *)
(* the slot (protocol.c:178-366).                                          *)
KeptOwnAnswer == \A op \in Kept : answer[op].by = answer[op].n

(* A lockstep host that keeps asking is answered (protocol.c:428-447).     *)
LockstepAnswered == Lockstep => \A op \in Ops : op \in asking ~> op \notin asking

(* An accepted connect is followed by its outcome: WIFI_STATUS leaves      *)
(* CONNECTING (protocol.c:566-573).                                        *)
ConnectSettles == conn = "CONNECTING" ~> conn # "CONNECTING"

(* What SOCK_SEND promises, as SendService states it. *)
Service == INSTANCE SendService WITH
    N <- MaxReq, asked <- issued[Send], ran <- execs[Send], told <- answer[Send]

ImplementsSendService == Service!Spec
===============================================================================
