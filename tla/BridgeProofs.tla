----------------------------- MODULE BridgeProofs -----------------------------
(***************************************************************************)
(* Proofs about Bridge, for every set of opcodes, every bound and every    *)
(* width of the two seqs.                                                  *)
(***************************************************************************)
EXTENDS Bridge, TLAPS

(* What the slot holds: nothing, or a request that was issued, with its    *)
(* seq; the drain holds the job it took until it finishes.                 *)
SlotInv ==
    /\ slot.st = "IDLE" => slot = W!FreeSlot
    /\ slot.st # "IDLE" =>
          /\ slot.cmd \in Ops
          /\ slot.req \in 1..issued[slot.cmd]
          /\ slot.seq = SlotSeq(slot.cmd, slot.req)
    /\ drain.pc # "sleep" => drain.cmd \in Ops
    /\ \A op \in asking : issued[op] > 0
    /\ RunningIsHeld

(* Why no send runs twice.  The latest send that has run is either still   *)
(* RUNNING or in the cache, so its retries never reach the submit; while   *)
(* an older send occupies the slot the latest one has not run, so the      *)
(* older completion cannot push it out of the cache.                       *)
FutureNotRun == \A n \in Reqs : n > issued[Send] => execs[Send][n] = 0

PendingNotRun ==
    slot.cmd = Send /\ (slot.st = "QUEUED" \/ (slot.st = "RUNNING" /\ drain.pc = "taken"))
        => execs[Send][slot.req] = 0

OlderInSlot ==
    slot.cmd = Send /\ slot.req < issued[Send] => execs[Send][issued[Send]] = 0

LatestKept ==
    issued[Send] > 0 /\ execs[Send][issued[Send]] = 1 =>
        (slot.cmd = Send /\ slot.st = "RUNNING" /\ slot.req = issued[Send]) \/ CacheHit

SendInv ==
    /\ SendAtMostOnce /\ FutureNotRun /\ PendingNotRun /\ OlderInSlot /\ LatestKept

SlotType == [st : W!SlotStates, cmd : Ops \cup {NoOp}, req : 0..MaxReq,
             seq : 0..SendSeqs-1, res : {"none"}]

LatchType == [valid : BOOLEAN, cmd : Ops \cup {NoOp}, seq : 0..HdrSeqs, by : 0..MaxReq]

Inv == TypeOK /\ SlotInv /\ SendInv /\ SendCachedFirst

-------------------------------------------------------------------------------
(* The seq of a send is a byte of the wire, whatever the request number.   *)
LEMMA SendSeqType == \A n \in Nat : SendSeq(n) \in 0..SendSeqs-1
  BY BoundsAssumption DEF SendSeq

(* The initial state satisfies the inductive invariant.                    *)
LEMMA InitInv == Init => Inv
  <1> SUFFICES ASSUME Init PROVE Inv
    OBVIOUS
  <1> USE OpsAssumption, BoundsAssumption
  <1>1. TypeOK
    BY DEF Init, TypeOK, NoLatch, NoCache, NoAnswer, Asleep, W!FreeSlot, W!SlotStates,
           Reqs, Ops, Polled
  <1>2. SlotInv
    BY DEF Init, SlotInv, RunningIsHeld, Asleep, W!FreeSlot
  <1>3. SendInv
    BY DEF Init, SendInv, SendAtMostOnce, FutureNotRun, PendingNotRun, OlderInSlot, LatestKept, W!FreeSlot, Reqs, Ops, Polled
  <1>4. SendCachedFirst
    BY DEF Init, SendCachedFirst, W!FreeSlot, W!Terminal
  <1> QED BY <1>1, <1>2, <1>3, <1>4 DEF Inv

-------------------------------------------------------------------------------
(* The host's own steps touch neither the slot nor the cache.              *)
LEMMA IssueInv == ASSUME Inv, NEW op \in Ops, Issue(op) PROVE Inv'
  <1> USE OpsAssumption, BoundsAssumption DEF Issue, Inv
  <1>1. TypeOK'
    BY DEF TypeOK, Ops, Polled, Joins
  <1>2. SlotInv'
    BY DEF TypeOK, SlotInv, RunningIsHeld, SlotSeq, SendSeq
  <1>3. Send \in Ops /\ issued[Send] \in 0..MaxReq /\ issued'[Send] \in 0..MaxReq
    BY <1>1 DEF TypeOK, Ops, Polled
  <1>4. issued'[Send] = issued[Send] \/ (issued'[Send] = issued[Send] + 1 /\ issued'[Send] \in Reqs)
    BY <1>1, <1>3 DEF TypeOK, Reqs
  <1>5. SendInv'
    <2>1. CASE issued'[Send] = issued[Send]
      BY <2>1, <1>3 DEF SendInv, SendAtMostOnce, FutureNotRun, PendingNotRun, OlderInSlot, LatestKept, CacheHit, SendSeq
    <2>2. CASE issued'[Send] = issued[Send] + 1 /\ issued'[Send] \in Reqs
      <3>1. execs[Send][issued'[Send]] = 0
        BY <1>3, <2>2 DEF SendInv, FutureNotRun, Reqs
      <3> QED BY <1>3, <2>2, <3>1 DEF SendInv, SendAtMostOnce, FutureNotRun, PendingNotRun, OlderInSlot, LatestKept, Reqs
    <2> QED BY <1>4, <2>1, <2>2
  <1>6. SendCachedFirst'
    BY <1>3 DEF TypeOK, SlotInv, SendCachedFirst, W!Terminal, Ops, Polled
  <1> QED BY <1>1, <1>2, <1>5, <1>6

(* Giving a request up touches nothing of the bridge. *)
LEMMA GiveUpInv == ASSUME Inv, NEW op \in Ops, GiveUp(op) PROVE Inv'
  BY DEF GiveUp, Inv, TypeOK, SlotInv, RunningIsHeld, SlotSeq, SendSeq, SendInv, SendAtMostOnce, FutureNotRun, PendingNotRun, OlderInSlot, LatestKept, CacheHit,
         SendCachedFirst, W!Terminal

(* Delivered or lost, a reply leaves the host's view well typed.           *)
AskType == asking \in SUBSET Ops
AnswerType == answer \in [Polled -> [n : 0..MaxReq, by : 0..MaxReq]]

(* A reply, heard or lost. *)
LEMMA FinalType ==
    ASSUME TypeOK, NEW op \in Ops, NEW by \in 0..MaxReq, Final(op, by) \/ Lost
    PROVE  AskType' /\ AnswerType' /\ asking' \subseteq asking
  <1>1. AskType /\ AnswerType /\ issued[op] \in 0..MaxReq
    BY DEF TypeOK, AskType, AnswerType
  <1>2. CASE Lost
    BY <1>1, <1>2 DEF Lost, AskType, AnswerType
  <1>3. CASE Final(op, by)
    <2>1. [n |-> issued[op], by |-> by] \in [n : 0..MaxReq, by : 0..MaxReq]
      BY <1>1
    <2>2. AnswerType'
      BY <1>1, <1>3, <2>1 DEF Final, AnswerType
    <2> QED BY <1>1, <1>3, <2>2 DEF Final, AskType
  <1> QED BY <1>2, <1>3

(* A BUSY, heard or lost. *)
LEMMA BusyType ==
    ASSUME TypeOK, NEW op \in Ops, Busy(op) \/ Lost
    PROVE  AskType' /\ AnswerType' /\ asking' \subseteq asking
  BY DEF TypeOK, AskType, AnswerType, Busy, Lost

(* A latched answer changes nothing but the host's view.                   *)
LEMMA PollLatchedInv == ASSUME Inv, NEW op \in Ops, PollLatched(op) PROVE Inv'
  <1> USE OpsAssumption, BoundsAssumption DEF PollLatched, Final, Lost, Inv
  <1>1. TypeOK'
    BY FinalType DEF TypeOK, AskType, AnswerType
  <1>2. SlotInv'
    BY DEF TypeOK, SlotInv, RunningIsHeld, SlotSeq, SendSeq
  <1>3. SendInv' /\ SendCachedFirst'
    BY DEF TypeOK, SendInv, SendAtMostOnce, FutureNotRun, PendingNotRun, OlderInSlot, LatestKept, CacheHit, SendCachedFirst, W!Terminal, SendSeq
  <1> QED BY <1>1, <1>2, <1>3

-------------------------------------------------------------------------------
(* The drain's steps. *)
LEMMA DrainTakeInv == ASSUME Inv, DrainTake PROVE Inv'
  <1> USE OpsAssumption, BoundsAssumption DEF DrainTake, Inv, W!TakeJob
  <1>1. TypeOK'
    BY DEF TypeOK, W!SlotStates
  <1>2. SlotInv'
    BY DEF TypeOK, SlotInv, RunningIsHeld, SlotSeq, SendSeq
  <1>3. SendInv'
    BY DEF TypeOK, SlotInv, SendInv, SendAtMostOnce, FutureNotRun, PendingNotRun, OlderInSlot, LatestKept, CacheHit, SendSeq
  <1>4. SendCachedFirst'
    BY DEF TypeOK, SendCachedFirst, W!Terminal
  <1> QED BY <1>1, <1>2, <1>3, <1>4

(* Inside worker_execute the slot is RUNNING the drain's own job.          *)
LEMMA HeldJob ==
    ASSUME Inv, drain.pc \in {"taken", "ran"}
    PROVE  /\ slot.st = "RUNNING" /\ slot.cmd = drain.cmd /\ slot.cmd \in Ops
           /\ issued[slot.cmd] \in 0..MaxReq
           /\ slot.req \in 1..issued[slot.cmd] /\ slot.req \in Reqs
           /\ slot.seq = SlotSeq(slot.cmd, slot.req)
  <1>1. slot.st = "RUNNING" /\ slot.cmd = drain.cmd
    BY DEF Inv, SlotInv, RunningIsHeld
  <1>2. /\ slot.cmd \in Ops /\ slot.req \in 1..issued[slot.cmd]
        /\ slot.seq = SlotSeq(slot.cmd, slot.req)
    BY <1>1 DEF Inv, SlotInv
  <1>3. issued[slot.cmd] \in 0..MaxReq
    BY <1>2 DEF Inv, TypeOK
  <1> QED BY <1>1, <1>2, <1>3, BoundsAssumption DEF Reqs

(* The body counts a run of the job the drain holds. *)
LEMMA DrainBodyInv == ASSUME Inv, DrainBody PROVE Inv'
  <1> USE OpsAssumption, BoundsAssumption DEF DrainBody, Inv
  <1>1. /\ slot.st = "RUNNING" /\ slot.cmd = drain.cmd /\ slot.cmd \in Ops
        /\ slot.req \in 1..issued[slot.cmd] /\ slot.req \in Reqs
    BY HeldJob
  <1>2. TypeOK'
    <2>1. execs' \in [Polled -> [Reqs -> 0..2]]
      BY <1>1 DEF TypeOK, Once
    <2> QED BY <2>1 DEF TypeOK
  <1>3. SlotInv'
    BY <1>1 DEF TypeOK, SlotInv, RunningIsHeld, SlotSeq, SendSeq
  <1>4. SendCachedFirst'
    BY <1>1 DEF SendCachedFirst, W!Terminal
  <1>5. Send \in Ops /\ issued[Send] \in 0..MaxReq
    BY DEF TypeOK, Ops, Polled
  <1>6. CASE drain.cmd = Send
    <2>1. execs[Send][slot.req] = 0
      BY <1>1, <1>6 DEF SendInv, PendingNotRun
    <2>2. \A n \in Reqs : execs'[Send][n] = IF n = slot.req THEN 1 ELSE execs[Send][n]
      BY <1>1, <1>6, <2>1 DEF TypeOK, Polled, Once
    <2>3. SendAtMostOnce'
      BY <2>2 DEF SendInv, SendAtMostOnce
    <2>4. FutureNotRun'
      BY <1>1, <1>5, <1>6, <2>2 DEF SendInv, FutureNotRun, Reqs
    <2>5. PendingNotRun'
      BY <1>1 DEF PendingNotRun
    <2>6. OlderInSlot' /\ LatestKept'
      <3>1. CASE slot.req = issued[Send]
        BY <1>1, <1>5, <1>6, <3>1 DEF OlderInSlot, LatestKept
      <3>2. CASE slot.req # issued[Send]
        <4>1. issued[Send] \in Reqs /\ slot.req < issued[Send]
          BY <1>1, <1>5, <1>6, <3>2 DEF Reqs
        <4>2. execs'[Send][issued[Send]] = 0
          BY <1>6, <1>1, <2>2, <4>1, <3>2 DEF SendInv, OlderInSlot
        <4> QED BY <4>1, <4>2 DEF OlderInSlot, LatestKept
      <3> QED BY <3>1, <3>2
    <2> QED BY <1>2, <1>3, <1>4, <2>3, <2>4, <2>5, <2>6 DEF SendInv
  <1>7. CASE drain.cmd # Send
    <2>1. execs'[Send] = execs[Send]
      BY <1>1, <1>7 DEF TypeOK, Polled
    <2>2. SendInv'
      BY <1>1, <1>7, <2>1
         DEF SendInv, SendAtMostOnce, FutureNotRun, PendingNotRun, OlderInSlot, LatestKept, CacheHit, SendSeq
    <2> QED BY <1>2, <1>3, <1>4, <2>2
  <1> QED BY <1>6, <1>7

(* A finished send is in the cache as its slot turns terminal. *)
LEMMA DrainPublishInv == ASSUME Inv, NEW ok \in BOOLEAN, DrainPublish(ok) PROVE Inv'
  <1> USE OpsAssumption, BoundsAssumption DEF DrainPublish, Inv, W!PublishJob
  <1>1. /\ slot.st = "RUNNING" /\ slot.cmd = drain.cmd /\ slot.cmd \in Ops
        /\ slot.req \in 1..issued[slot.cmd] /\ slot.seq = SlotSeq(slot.cmd, slot.req)
    BY HeldJob
  <1>2. TypeOK'
    BY <1>1 DEF TypeOK, W!SlotStates
  <1>3. SlotInv'
    BY <1>1 DEF TypeOK, SlotInv, RunningIsHeld, SlotSeq, SendSeq
  <1>4. SendCachedFirst'
    BY <1>1 DEF TypeOK, SendCachedFirst, W!Terminal
  <1>5. /\ slot'.st \in {"DONE", "ERR"}
        /\ slot'.cmd = slot.cmd /\ slot'.req = slot.req
    BY DEF TypeOK
  <1>6. SendAtMostOnce' /\ FutureNotRun' /\ PendingNotRun' /\ OlderInSlot'
    BY <1>5 DEF SendInv, SendAtMostOnce, FutureNotRun, PendingNotRun, OlderInSlot
  <1>7. LatestKept'
    <2>1. CASE drain.cmd # Send
      BY <1>1, <2>1 DEF SendInv, LatestKept, CacheHit, SendSeq
    <2>2. CASE drain.cmd = Send /\ slot.req = issued[Send]
      BY <1>1, <2>2 DEF LatestKept, CacheHit, SlotSeq, SendSeq
    <2>3. CASE drain.cmd = Send /\ slot.req # issued[Send]
      <3>0. issued[Send] \in 0..MaxReq /\ slot.req \in 1..issued[Send]
        BY <1>1, <2>3, HeldJob
      <3>1. slot.req < issued[Send]
        BY <2>3, <3>0
      <3> QED BY <1>1, <2>3, <3>1 DEF SendInv, OlderInSlot, LatestKept
    <2> QED BY <2>1, <2>2, <2>3
  <1> QED BY <1>2, <1>3, <1>4, <1>6, <1>7 DEF SendInv

(* The drain frees no slot that a send occupies while it runs. *)
LEMMA DrainFinishInv == ASSUME Inv, DrainFinish PROVE Inv'
  <1> USE OpsAssumption, BoundsAssumption DEF DrainFinish, Inv, Asleep, W!FreeSlot
  <1>1. slot.st # "RUNNING"
    BY DEF SlotInv, RunningIsHeld
  <1>2. TypeOK'
    BY DEF TypeOK, W!SlotStates
  <1>3. SlotInv'
    BY <1>1 DEF TypeOK, SlotInv, RunningIsHeld, SlotSeq, SendSeq
  <1>4. SendInv'
    BY <1>1 DEF TypeOK, SlotInv, SendInv, SendAtMostOnce, FutureNotRun, PendingNotRun, OlderInSlot, LatestKept, CacheHit, SendSeq, Ops, Polled
  <1>5. SendCachedFirst'
    BY DEF TypeOK, SendCachedFirst, W!Terminal
  <1> QED BY <1>2, <1>3, <1>4, <1>5

-------------------------------------------------------------------------------
(* The dispatch, from a slot s that is the current one or the current one  *)
(* with a finished job evicted.  Whatever it does, the slot afterwards is  *)
(* s, free, or holds this very request, freshly queued.                    *)
LEMMA RoutedSlot ==
    ASSUME NEW op \in Ops, NEW s \in SlotType,
           handle_worker_routed(op, s)
    PROVE  \/ Collect(op, s) /\ slot' = W!FreeSlot /\ W!Terminal(s) /\ s.cmd = op
           \/ StillBusy(op, s) /\ slot' = s
           \/ /\ Submit(op, s)
              /\ ~W!InFlight(s)
              /\ slot' = [st |-> "QUEUED", cmd |-> op, req |-> issued[op],
                          seq |-> SlotSeq(op, issued[op]), res |-> "none"]
  <1> USE DEF W!worker_poll, W!InFlight, W!Terminal, W!SlotStates, SlotType
  <1>1. CASE Collect(op, s)
    BY <1>1 DEF Collect
  <1>2. CASE StillBusy(op, s)
    BY <1>2 DEF StillBusy
  <1>3. CASE Submit(op, s)
    <2>1. ~W!InFlight(s)
      BY <1>3 DEF Submit
    <2>2. W!SlotAfterPoll(s, op).st = "IDLE"
      BY <1>3 DEF Submit, W!SlotAfterPoll, W!FreeSlot
    <2> QED BY <1>3, <2>1, <2>2 DEF Submit, W!worker_submit
  <1> QED BY <1>1, <1>2, <1>3 DEF handle_worker_routed

(* It leaves the slot as it found it, free, or queued: never running.      *)
LEMMA RoutedNotRunning ==
    ASSUME NEW op \in Ops, NEW s \in SlotType, s = slot \/ s = W!FreeSlot,
           handle_worker_routed(op, s)
    PROVE  slot' = slot \/ slot'.st # "RUNNING"
  <1>1. slot' = s \/ slot' = W!FreeSlot \/ slot'.st = "QUEUED"
    BY RoutedSlot
  <1>2. W!FreeSlot.st = "IDLE"
    BY DEF W!FreeSlot
  <1> QED BY <1>1, <1>2

(* The latch and the host's view stay well typed through a dispatch.       *)
LEMMA RoutedType ==
    ASSUME TypeOK, SlotInv, NEW op \in asking,
           NEW s \in SlotType,
           handle_worker_routed(op, s)
    PROVE  /\ latch' \in LatchType
           /\ conn' \in {"DOWN", "CONNECTING", "SETTLED"}
           /\ AskType' /\ AnswerType' /\ asking' \subseteq asking
           /\ slot' \in SlotType
  <1> USE OpsAssumption, BoundsAssumption DEF SlotType, LatchType
  <1>1. op \in Ops /\ issued[op] \in 0..MaxReq /\ issued[op] > 0
    BY DEF TypeOK, SlotInv
  <1>2. HdrSeq(op) \in 0..HdrSeqs
    BY <1>1 DEF HdrSeq
  <1>3. SlotSeq(op, issued[op]) \in 0..SendSeqs-1
    BY <1>1, SendSeqType DEF SlotSeq
  <1>4. CASE Collect(op, s)
    <2>1. s.req \in 0..MaxReq
      OBVIOUS
    <2>2. AskType' /\ AnswerType' /\ asking' \subseteq asking
      BY <1>1, <1>4, <2>1, FinalType DEF Collect
    <2>3. latch' = retry_latch_store(op, s.st, s.req) /\ slot' = W!FreeSlot /\ conn' = conn
      BY <1>4 DEF Collect
    <2>4. retry_latch_store(op, s.st, s.req) \in LatchType
      BY <1>1, <1>2, <2>1 DEF TypeOK, retry_latch_store
    <2>5. W!FreeSlot \in SlotType
      BY DEF W!FreeSlot, W!SlotStates
    <2> QED BY <2>2, <2>3, <2>4, <2>5 DEF TypeOK
  <1>5. CASE StillBusy(op, s)
    BY <1>1, <1>5, BusyType DEF StillBusy, TypeOK, LatchAfterMiss
  <1>6. CASE Submit(op, s)
    <2>1. AskType' /\ AnswerType' /\ asking' \subseteq asking
      BY <1>1, <1>6, BusyType DEF Submit
    <2>2. slot' \in SlotType
      BY <1>1, <1>3, <1>6 DEF Submit, W!worker_submit, W!SlotAfterPoll, W!FreeSlot, W!SlotStates
    <2> QED BY <1>6, <2>1, <2>2 DEF Submit, TypeOK, LatchAfterMiss
  <1> QED BY <1>4, <1>5, <1>6 DEF handle_worker_routed

(* Every opcode but SOCK_SEND leaves the send's records alone: it can only *)
(* free a finished send, or take a slot that holds no job in flight.       *)
LEMMA PollWorkerInv == ASSUME Inv, NEW op \in Ops, PollWorker(op) PROVE Inv'
  <1> USE OpsAssumption, BoundsAssumption DEF Inv
  <1>1. /\ op \in asking /\ op # Send /\ handle_worker_routed(op, slot)
        /\ UNCHANGED <<cache, drain, issued, execs>>
    BY DEF PollWorker
  <1>2. slot \in SlotType /\ issued[op] \in 1..MaxReq
    BY <1>1 DEF TypeOK, SlotInv, SlotType
  <1>3. TypeOK'
    BY <1>1, <1>2, RoutedType DEF TypeOK, SlotType, LatchType, AskType, AnswerType
  <1>4. asking' \subseteq asking
    BY <1>1, <1>2, RoutedType
  <1>5. CASE slot' = slot
    BY <1>1, <1>3, <1>4, <1>5
       DEF SlotInv, RunningIsHeld, SlotSeq, SendSeq, SendInv, SendAtMostOnce, FutureNotRun,
           PendingNotRun, OlderInSlot, LatestKept, CacheHit, SendCachedFirst, W!Terminal
  <1>6. CASE slot' = W!FreeSlot /\ W!Terminal(slot) /\ slot.cmd = op
    <2>1. SlotInv'
      BY <1>1, <1>4, <1>6 DEF SlotInv, RunningIsHeld, W!FreeSlot, W!Terminal
    <2>2. SendInv'
      BY <1>1, <1>6 DEF SendInv, SendAtMostOnce, FutureNotRun,
           PendingNotRun, OlderInSlot, LatestKept, CacheHit, SendSeq, W!FreeSlot, Ops, Polled
    <2> QED BY <1>3, <1>6, <2>1, <2>2 DEF SendCachedFirst, W!Terminal, W!FreeSlot
  <1>7. CASE /\ ~W!InFlight(slot)
             /\ slot' = [st |-> "QUEUED", cmd |-> op, req |-> issued[op],
                         seq |-> SlotSeq(op, issued[op]), res |-> "none"]
    <2>1. SlotInv'
      BY <1>1, <1>2, <1>4, <1>7 DEF SlotInv, RunningIsHeld, W!InFlight, SlotSeq, SendSeq
    <2>2. SendInv'
      BY <1>1, <1>7 DEF SendInv, SendAtMostOnce, FutureNotRun,
           PendingNotRun, OlderInSlot, LatestKept, CacheHit, SendSeq, W!InFlight
    <2> QED BY <1>1, <1>3, <1>7, <2>1, <2>2 DEF SendCachedFirst, W!Terminal
  <1> QED BY <1>1, <1>2, <1>5, <1>6, <1>7, RoutedSlot

(* A cached send frees at most its own finished job.                       *)
LEMMA PollSendCachedInv == ASSUME Inv, PollSendCached PROVE Inv'
  <1> USE OpsAssumption, BoundsAssumption DEF Inv
  <1>1. /\ Send \in Ops /\ CacheHit /\ UNCHANGED <<latch, cache, drain, conn, issued, execs>>
        /\ slot' = slot \/ (slot' = W!FreeSlot /\ W!Terminal(slot))
    BY DEF PollSendCached, Ops, Polled, W!worker_reclaim_matching_terminal
  <1>2. AskType' /\ AnswerType' /\ asking' \subseteq asking
    <2>1. cache.by \in 0..MaxReq
      BY DEF TypeOK
    <2> QED BY <1>1, <2>1, FinalType DEF PollSendCached
  <1>3. TypeOK'
    BY <1>1, <1>2 DEF TypeOK, AskType, AnswerType, W!FreeSlot, W!SlotStates
  <1>4. SlotInv'
    BY <1>1, <1>2 DEF SlotInv, RunningIsHeld, SlotSeq, SendSeq, W!FreeSlot, W!Terminal
  <1>5. SendInv'
    BY <1>1 DEF SendInv, SendAtMostOnce, FutureNotRun,
         PendingNotRun, OlderInSlot, LatestKept, CacheHit, SendSeq, W!FreeSlot, Ops, Polled
  <1>6. SendCachedFirst'
    BY <1>1 DEF SendCachedFirst, W!Terminal, W!FreeSlot
  <1> QED BY <1>3, <1>4, <1>5, <1>6

(* An uncached send: if its body has run, the slot is RUNNING it and the   *)
(* answer is BUSY; so what is submitted has never run.                     *)
LEMMA PollSendWorkerInv == ASSUME Inv, PollSendWorker PROVE Inv'
  <1> DEFINE c == issued[Send]
             s == W!worker_discard_stale_terminal(slot, Send, SendSeq(c))
  <1> USE OpsAssumption, BoundsAssumption DEF Inv
  <1>1. /\ Send \in asking /\ ~CacheHit /\ cache' = [cache EXCEPT !.valid = FALSE]
        /\ handle_worker_routed(Send, s)
        /\ UNCHANGED <<drain, issued, execs>>
    BY DEF PollSendWorker
  <1>2. Send \in Ops /\ slot \in SlotType /\ c \in 1..MaxReq
    BY <1>1 DEF TypeOK, SlotInv, SlotType
  <1>3. s = slot \/ (s = W!FreeSlot /\ W!Terminal(slot))
    BY DEF W!worker_discard_stale_terminal
  <1>4. s \in SlotType
    BY <1>2, <1>3 DEF SlotType, W!FreeSlot, W!SlotStates
  <1>5. TypeOK'
    BY <1>1, <1>4, RoutedType DEF TypeOK, SlotType, LatchType, AskType, AnswerType
  <1>6. asking' \subseteq asking
    BY <1>1, <1>2, <1>4, RoutedType
  <1>7. execs[Send][c] \in 0..1
    <2>1. execs[Send][c] \in 0..2
      <3>1. execs \in [Polled -> [Reqs -> 0..2]]
        BY DEF TypeOK
      <3>2. Send \in Polled /\ c \in Reqs
        BY <1>2 DEF Polled, Reqs
      <3> QED BY <3>1, <3>2
    <2>2. execs[Send][c] <= 1
      BY <1>2 DEF SendInv, SendAtMostOnce, Reqs
    <2> QED BY <2>1, <2>2
  <1>8. execs[Send][c] = 1 => slot.cmd = Send /\ slot.st = "RUNNING" /\ slot.req = c
    BY <1>1, <1>2 DEF SendInv, LatestKept
  <1>9. SendAtMostOnce' /\ FutureNotRun'
    BY <1>1 DEF SendInv, SendAtMostOnce, FutureNotRun
  <1>10. CASE StillBusy(Send, s) /\ slot' = s
    <2>1. slot' = slot /\ ~W!Terminal(slot)
      BY <1>2, <1>3, <1>10 DEF StillBusy, W!worker_poll, W!Terminal, W!FreeSlot, W!InFlight, SlotType, W!SlotStates
    <2>2. SlotInv'
      BY <1>1, <1>6, <2>1 DEF SlotInv, RunningIsHeld, SlotSeq, SendSeq
    <2>3. PendingNotRun' /\ OlderInSlot' /\ LatestKept'
      BY <1>1, <1>8, <2>1 DEF SendInv, PendingNotRun, OlderInSlot, LatestKept
    <2> QED BY <1>5, <1>9, <2>1, <2>2, <2>3 DEF SendInv, SendCachedFirst, W!Terminal
  <1>11. CASE slot' = W!FreeSlot /\ W!Terminal(s) /\ s.cmd = Send
    <2>1. slot.st # "RUNNING"
      BY <1>3, <1>11 DEF W!Terminal
    <2>2. SlotInv'
      BY <1>1, <1>6, <1>11, <2>1 DEF SlotInv, RunningIsHeld, W!FreeSlot
    <2>3. PendingNotRun' /\ OlderInSlot' /\ LatestKept'
      BY <1>1, <1>2, <1>8, <1>11, <2>1 DEF PendingNotRun, OlderInSlot, LatestKept, W!FreeSlot
    <2> QED BY <1>5, <1>9, <1>11, <2>2, <2>3 DEF SendInv, SendCachedFirst, W!Terminal, W!FreeSlot
  <1>12. CASE /\ ~W!InFlight(s)
              /\ slot' = [st |-> "QUEUED", cmd |-> Send, req |-> c,
                          seq |-> SlotSeq(Send, c), res |-> "none"]
    <2>1. slot.st # "RUNNING"
      BY <1>3, <1>12 DEF W!InFlight, W!Terminal
    <2>2. execs[Send][c] = 0
      BY <1>7, <1>8, <2>1
    <2>3. SlotInv'
      BY <1>1, <1>2, <1>6, <1>12, <2>1 DEF SlotInv, RunningIsHeld, SlotSeq, SendSeq
    <2>4. PendingNotRun' /\ OlderInSlot' /\ LatestKept'
      BY <1>1, <1>2, <1>12, <2>2 DEF PendingNotRun, OlderInSlot, LatestKept
    <2> QED BY <1>5, <1>9, <1>12, <2>3, <2>4 DEF SendInv, SendCachedFirst, W!Terminal
  <1> QED BY <1>1, <1>2, <1>4, <1>10, <1>11, <1>12, RoutedSlot

-------------------------------------------------------------------------------
(* Every step preserves the inductive invariant.                           *)
LEMMA NextInv == Inv /\ [Next]_vars => Inv'
  <1> SUFFICES ASSUME Inv, [Next]_vars PROVE Inv'
    OBVIOUS
  <1>1. CASE UNCHANGED vars
    <2> USE <1>1 DEF vars, Inv
    <2>1. TypeOK'
      BY DEF TypeOK
    <2>2. SlotInv'
      BY DEF SlotInv, RunningIsHeld, SlotSeq, SendSeq
    <2>3. SendInv'
      BY DEF SendInv, SendAtMostOnce, FutureNotRun, PendingNotRun, OlderInSlot, LatestKept,
             CacheHit, SendSeq
    <2>4. SendCachedFirst'
      BY DEF CacheHit, SendCachedFirst, W!Terminal, SendSeq
    <2> QED BY <2>1, <2>2, <2>3, <2>4
  <1>2. ASSUME NEW op \in Ops, Issue(op) PROVE Inv'
    BY <1>2, IssueInv
  <1>3. ASSUME NEW op \in Ops, GiveUp(op) PROVE Inv'
    BY <1>3, GiveUpInv
  <1>4. ASSUME NEW op \in Ops, Poll(op) PROVE Inv'
    BY <1>4, PollLatchedInv, PollWorkerInv, PollSendCachedInv, PollSendWorkerInv DEF Poll
  <1>5. CASE Drain
    BY <1>5, DrainTakeInv, DrainBodyInv, DrainPublishInv, DrainFinishInv DEF Drain
  <1> QED BY <1>1, <1>2, <1>3, <1>4, <1>5 DEF Next

(* So it holds throughout. *)
LEMMA SpecInv == Spec => []Inv
  BY InitInv, NextInv, PTL DEF Spec

(* Every variable keeps its type.                                          *)
THEOREM TypeCorrect == Spec => []TypeOK
  BY SpecInv, PTL DEF Inv

(* No dispatch disturbs the job the drain is running.                      *)
THEOREM RunningHeld == Spec => []RunningIsHeld
  BY SpecInv, PTL DEF Inv, SlotInv

(* No SOCK_SEND body runs twice for one request: for any number of other   *)
(* opcodes and threads, with abandoned requests and lost replies, for any  *)
(* width of the seq, wrapped or not.                                       *)
THEOREM SendOnce == Spec => []SendAtMostOnce
  BY SpecInv, PTL DEF Inv, SendInv

(* The completion cache holds a finished send no later than the slot shows *)
(* it finished.                                                            *)
THEOREM SendCached == Spec => []SendCachedFirst
  BY SpecInv, PTL DEF Inv

-------------------------------------------------------------------------------
(* SOCK_SEND implements SendService as long as the requests do not outrun  *)
(* the seqs.  What the cache holds is the outcome of a send that ran.      *)
NoWrap == MaxReq <= SendSeqs

RanOnce ==
    slot.cmd = Send /\ slot.st = "RUNNING" /\ drain.pc = "ran" => execs[Send][slot.req] = 1

CacheRan ==
    cache.valid => cache.by \in Reqs /\ cache.seq = SendSeq(cache.by) /\ execs[Send][cache.by] = 1

CacheInv == RanOnce /\ CacheRan

(* Below the wrap two sends have different seqs.                           *)
LEMMA SendSeqInjective ==
    ASSUME NoWrap, NEW m \in Reqs, NEW n \in Reqs, SendSeq(m) = SendSeq(n) PROVE m = n
  <1> USE BoundsAssumption DEF NoWrap, Reqs, SendSeq
  <1>1. \A k \in Reqs : k < SendSeqs => k % SendSeqs = k
    OBVIOUS
  <1>2. SendSeqs % SendSeqs = 0
    OBVIOUS
  <1> QED BY <1>1, <1>2

(* Every step preserves what is known of the cache. *)
LEMMA NextCacheInv == Inv /\ CacheInv /\ [Next]_vars => CacheInv'
  <1> SUFFICES ASSUME Inv, CacheInv, [Next]_vars PROVE CacheInv'
    OBVIOUS
  <1> USE OpsAssumption, BoundsAssumption
  <1>1. CASE UNCHANGED vars
    BY <1>1 DEF vars, CacheInv, RanOnce, CacheRan, SendSeq
  <1>2. ASSUME NEW op \in Ops, Issue(op) \/ GiveUp(op) \/ PollLatched(op) PROVE CacheInv'
    BY <1>2 DEF Issue, GiveUp, PollLatched, CacheInv, RanOnce, CacheRan, SendSeq
  <1>3. ASSUME NEW op \in Ops, PollWorker(op) PROVE CacheInv'
    <2>1. UNCHANGED <<cache, drain, execs>>
      BY <1>3 DEF PollWorker
    <2>2. slot' = slot \/ slot'.st # "RUNNING"
      <3>1. handle_worker_routed(op, slot) /\ slot \in SlotType
        BY <1>3 DEF PollWorker, Inv, TypeOK, SlotType
      <3> QED BY <3>1, RoutedNotRunning
    <2> QED BY <2>1, <2>2 DEF CacheInv, RanOnce, CacheRan, SendSeq
  <1>4. CASE PollSendCached
    <2>1. UNCHANGED <<cache, drain, execs>> /\ (slot' = slot \/ slot'.st # "RUNNING")
      BY <1>4 DEF PollSendCached, W!worker_reclaim_matching_terminal, W!FreeSlot
    <2> QED BY <2>1 DEF CacheInv, RanOnce, CacheRan, SendSeq
  <1>5. CASE PollSendWorker
    <2> DEFINE s == W!worker_discard_stale_terminal(slot, Send, SendSeq(issued[Send]))
    <2>1. ~cache'.valid /\ UNCHANGED <<drain, execs>> /\ handle_worker_routed(Send, s)
      BY <1>5 DEF PollSendWorker, Inv, TypeOK
    <2>2. (s = slot \/ s = W!FreeSlot) /\ s \in SlotType
      BY DEF W!worker_discard_stale_terminal, Inv, TypeOK, SlotType, W!FreeSlot, W!SlotStates
    <2>3. slot' = slot \/ slot'.st # "RUNNING"
      <3>1. Send \in Ops
        BY DEF Ops, Polled
      <3> HIDE DEF s
      <3> QED BY <2>1, <2>2, <3>1, RoutedNotRunning
    <2> QED BY <2>1, <2>3 DEF CacheInv, RanOnce, CacheRan
  <1>6. CASE DrainTake
    BY <1>6 DEF DrainTake, W!TakeJob, CacheInv, RanOnce, CacheRan, SendSeq
  <1>7. CASE DrainBody
    <2>1. slot.st = "RUNNING" /\ slot.cmd = drain.cmd /\ slot.req \in Reqs
      BY <1>7, HeldJob DEF DrainBody
    <2>2. slot.cmd = Send => execs[Send][slot.req] = 0
      BY <1>7, <2>1 DEF DrainBody, Inv, SendInv, PendingNotRun
    <2>3. \A n \in Reqs : execs'[Send][n] =
             IF slot.cmd = Send /\ n = slot.req THEN 1 ELSE execs[Send][n]
      BY <1>7, <2>1, <2>2 DEF DrainBody, Inv, TypeOK, Polled, Once
    <2> QED BY <1>7, <2>1, <2>2, <2>3 DEF DrainBody, CacheInv, RanOnce, CacheRan, SendSeq
  <1>8. ASSUME NEW ok \in BOOLEAN, DrainPublish(ok) PROVE CacheInv'
    <2>1. slot.st = "RUNNING" /\ slot.cmd = drain.cmd /\ slot.req \in Reqs
          /\ slot.seq = SlotSeq(slot.cmd, slot.req)
      BY <1>8, HeldJob DEF DrainPublish
    <2>2. slot'.st # "RUNNING"
      BY <1>8 DEF DrainPublish, W!PublishJob, Inv, TypeOK
    <2> QED BY <1>8, <2>1, <2>2 DEF DrainPublish, CacheInv, RanOnce, CacheRan, SlotSeq, SendSeq
  <1>9. CASE DrainFinish
    BY <1>9 DEF DrainFinish, W!FreeSlot, Asleep, CacheInv, RanOnce, CacheRan, SendSeq
  <1> QED BY <1>1, <1>2, <1>3, <1>4, <1>5, <1>6, <1>7, <1>8, <1>9 DEF Next, Poll, Drain

(* A step that answers nothing and runs nothing is a stutter of the        *)
(* service; an answer to another opcode is one too.                        *)
LEMMA OtherAnswer ==
    ASSUME TypeOK, NEW op \in Ops, op # Send, NEW by, Final(op, by) \/ Lost
    PROVE  answer'[Send] = answer[Send]
  BY OpsAssumption DEF TypeOK, Final, Lost, Polled

(* Each step of the bridge is a step of the service or leaves it alone.    *)
LEMMA StepSimulates ==
    ASSUME NoWrap, Inv, CacheInv, [Next]_vars
    PROVE  [Service!Next]_(Service!vars)
  <1> USE OpsAssumption, BoundsAssumption DEF Service!vars
  <1>0. Send \in Ops /\ Send \in Polled /\ issued[Send] \in 0..MaxReq
    BY DEF Inv, TypeOK, Ops, Polled
  <1>1. CASE UNCHANGED vars
    BY <1>1 DEF vars
  <1>2. ASSUME NEW op \in Ops, Issue(op) PROVE [Service!Next]_(Service!vars)
    <2>1. CASE op = Send
      BY <1>0, <1>2, <2>1 DEF Issue, Service!Next, Service!Ask, Inv, TypeOK, Joins
    <2>2. CASE op # Send
      BY <1>2, <2>2 DEF Issue, Inv, TypeOK
    <2> QED BY <2>1, <2>2
  <1>3. ASSUME NEW op \in Ops, GiveUp(op) PROVE [Service!Next]_(Service!vars)
    BY <1>3 DEF GiveUp
  <1>4. ASSUME NEW op \in Ops, PollLatched(op) PROVE [Service!Next]_(Service!vars)
    BY <1>4, OtherAnswer DEF PollLatched, LatchHit, Inv
  <1>5. ASSUME NEW op \in Ops, PollWorker(op) PROVE [Service!Next]_(Service!vars)
    <2>1. answer'[Send] = answer[Send]
      BY <1>5, OtherAnswer DEF PollWorker, handle_worker_routed, Collect, Submit, StillBusy,
           Busy, Lost, Inv
    <2> QED BY <1>5, <2>1 DEF PollWorker
  <1>6. CASE PollSendCached
    <2>1. cache.by = issued[Send]
      <3>1. cache.by \in Reqs /\ issued[Send] \in Reqs /\ SendSeq(cache.by) = SendSeq(issued[Send])
        <4>1. Send \in asking /\ cache.valid /\ cache.seq = SendSeq(issued[Send])
          BY <1>6 DEF PollSendCached, CacheHit
        <4>2. cache.by \in Reqs /\ cache.seq = SendSeq(cache.by)
          BY <4>1 DEF CacheInv, CacheRan
        <4>3. issued[Send] \in Reqs
          BY <1>0, <4>1 DEF Inv, SlotInv, Reqs
        <4> QED BY <4>1, <4>2, <4>3
      <3> QED BY <3>1, SendSeqInjective
    <2>2. execs[Send][issued[Send]] = 1 /\ issued[Send] > 0
      <3>1. cache.valid
        BY <1>6 DEF PollSendCached, CacheHit
      <3>2. cache.by \in Reqs /\ execs[Send][cache.by] = 1
        BY <3>1 DEF CacheInv, CacheRan
      <3> QED BY <2>1, <3>2 DEF Reqs
    <2>3. CASE Lost
      BY <1>6, <2>3 DEF PollSendCached, Lost
    <2>4. CASE Final(Send, cache.by)
      BY <1>0, <1>6, <2>1, <2>2, <2>4
         DEF PollSendCached, Final, Service!Next, Service!Tell, Inv, TypeOK
    <2> QED BY <1>6, <2>3, <2>4 DEF PollSendCached
  <1>7. CASE PollSendWorker
    <2> DEFINE s == W!worker_discard_stale_terminal(slot, Send, SendSeq(issued[Send]))
    <2>1. ~Collect(Send, s)
      <3> SUFFICES ASSUME Collect(Send, s) PROVE FALSE
        OBVIOUS
      <3>1. W!Terminal(slot) /\ slot.cmd = Send /\ slot.seq = SendSeq(issued[Send])
        <4>1. W!Terminal(s) /\ s.cmd = Send
          BY DEF Collect, W!worker_poll, W!Terminal, W!InFlight
        <4>2. s = slot
          BY <4>1 DEF W!worker_discard_stale_terminal, W!FreeSlot, W!Terminal
        <4> QED BY <4>1, <4>2 DEF W!worker_discard_stale_terminal, W!FreeSlot, W!Terminal
      <3>2. slot.req \in Reqs /\ issued[Send] \in Reqs /\ slot.seq = SendSeq(slot.req)
        BY <1>0, <3>1 DEF Inv, SlotInv, SlotSeq, Reqs, W!Terminal
      <3>3. slot.req = issued[Send]
        BY <3>1, <3>2, SendSeqInjective
      <3> QED BY <1>7, <3>1, <3>3 DEF Inv, SendCachedFirst, PollSendWorker, CacheHit
    <2>2. answer' = answer
      BY <1>7, <2>1 DEF PollSendWorker, handle_worker_routed, Submit, StillBusy, Busy, Lost
    <2> QED BY <1>7, <2>2 DEF PollSendWorker
  <1>8. CASE DrainTake \/ (\E ok \in BOOLEAN : DrainPublish(ok)) \/ DrainFinish
    BY <1>8 DEF DrainTake, DrainPublish, DrainFinish
  <1>9. CASE DrainBody
    <2>1. /\ slot.st = "RUNNING" /\ slot.cmd = drain.cmd /\ slot.req \in Reqs
          /\ slot.req \in 1..issued[slot.cmd]
      BY <1>9, HeldJob DEF DrainBody
    <2>2. CASE drain.cmd = Send
      <3>1. execs[Send][slot.req] = 0
        BY <1>9, <2>1, <2>2 DEF DrainBody, Inv, SendInv, PendingNotRun
      <3>2. execs'[Send] = [execs[Send] EXCEPT ![slot.req] = 1]
        BY <1>0, <1>9, <2>1, <2>2, <3>1 DEF DrainBody, Inv, TypeOK, Once
      <3>3. Service!Run(slot.req)
        BY <1>0, <1>9, <2>1, <2>2, <3>1, <3>2 DEF DrainBody, Service!Run
      <3> QED BY <2>1, <3>3 DEF Service!Next, Reqs
    <2>3. CASE drain.cmd # Send
      BY <1>9, <2>3 DEF DrainBody, Inv, TypeOK
    <2> QED BY <2>2, <2>3
  <1> QED BY <1>1, <1>2, <1>3, <1>4, <1>5, <1>6, <1>7, <1>8, <1>9 DEF Next, Poll, Drain

(* The bridge implements SendService: below the wrap of its seq, a send is *)
(* answered with the outcome of its own single execution.                  *)
THEOREM SendImplements == ASSUME NoWrap PROVE Spec => ImplementsSendService
  <1>1. Init => Service!Init
    BY OpsAssumption DEF Init, Service!Init, NoAnswer, Reqs, Ops, Polled
  <1>2. Init => CacheInv
    BY DEF Init, CacheInv, RanOnce, CacheRan, NoCache, W!FreeSlot
  <1> QED BY <1>1, <1>2, InitInv, NextInv, NextCacheInv, StepSimulates, PTL
          DEF Spec, Service!Spec, ImplementsSendService
===============================================================================
