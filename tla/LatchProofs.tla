----------------------------- MODULE LatchProofs ------------------------------
(***************************************************************************)
(* Proofs about the retry latch of Bridge, for every set of opcodes and    *)
(* every bound, on top of the invariant of BridgeProofs.                   *)
(***************************************************************************)
EXTENDS BridgeProofs

(* A request the host does not give up ends only by an answer: it leaves   *)
(* nothing of its opcode in the slot, and in the latch only its own        *)
(* outcome.  So the entry a later request can meet there is its            *)
(* predecessor's, whose seq is another one.                                *)
NumSeq(n) == ((n - 1) % HdrSeqs) + 1

KeptSlot(op) == slot.cmd = op => op \in asking /\ slot.req = issued[op]

KeptLatch(op) ==
    latch.valid /\ latch.cmd = op =>
        /\ op \notin Bare /\ latch.by > 0 /\ latch.seq = NumSeq(latch.by)
        /\ \/ latch.by = issued[op] /\ slot.cmd # op
           \/ latch.by + 1 = issued[op] /\ op \in asking

KeptInv == KeptOwnAnswer /\ \A op \in Kept : KeptSlot(op) /\ KeptLatch(op)

(* With one request outstanding at a time, nothing comes between the run   *)
(* of a request and the latching of its outcome, or between that and the   *)
(* answer that reaches the host.                                           *)
OneAsked == asking = {} \/ \E op \in Ops : asking = {op}

Numbered == Kept \ (Big \cup Bare)

NotRunYet(op) ==
    slot.cmd = op /\ (slot.st = "QUEUED" \/ drain.pc = "taken") => execs[op][issued[op]] = 0

RunIsKept(op) ==
    op \in asking /\ execs[op][issued[op]] > 0 =>
        (slot.cmd = op /\ slot.st \in {"RUNNING", "DONE", "ERR"}) \/ LatchHit(op)

PublishedByDrain == drain.pc = "published" /\ W!Terminal(slot) => slot.cmd = drain.cmd

OnceInv ==
    /\ OneAsked /\ PublishedByDrain
    /\ \A op \in Numbered :
          /\ NotRunYet(op) /\ RunIsKept(op)
          /\ \A n \in Reqs : execs[op][n] <= 1 /\ (n > issued[op] => execs[op][n] = 0)

(* Two requests in a row have different seqs. *)
LEMMA NextSeqDiffers == ASSUME HdrSeqs > 1, NEW n \in Nat \ {0} PROVE NumSeq(n) # NumSeq(n + 1)
  <1> DEFINE k == n - 1
             H == HdrSeqs
  <1>1. k \in Nat /\ H \in Nat /\ H > 1 /\ n + 1 - 1 = k + 1
    BY BoundsAssumption
  <1> HIDE DEF k, H
  <1>2. ASSUME k % H = (k + 1) % H PROVE FALSE
    <2>0. \A m \in Nat : m = H * (m \div H) + (m % H) /\ m \div H \in Nat
      BY <1>1
    <2>1. PICK q \in Nat : k = H * q + (k % H)
      BY <1>1, <2>0
    <2>2. PICK u \in Nat : k + 1 = H * u + ((k + 1) % H)
      <3>1. k + 1 \in Nat
        BY <1>1
      <3>2. k + 1 = H * ((k + 1) \div H) + ((k + 1) % H) /\ (k + 1) \div H \in Nat
        BY <2>0, <3>1
      <3> QED BY <3>2
    <2>3. k % H \in Nat
      BY <1>1
    <2>4. H * u = H * q + 1
      BY <1>1, <1>2, <2>1, <2>2, <2>3
    <2>5. CASE u <= q
      <3>1. PICK d \in Nat : q = u + d
        BY <2>5
      <3>2. H * q = H * u + H * d /\ H * d >= 0
        BY <1>1, <3>1
      <3> QED BY <1>1, <2>4, <3>2
    <2>6. CASE q < u
      <3>1. PICK d \in Nat : u = q + 1 + d
        BY <2>6
      <3>2. H * u = H * q + H + H * d /\ H * d >= 0
        BY <1>1, <3>1
      <3> QED BY <1>1, <2>4, <3>2
    <2> QED BY <2>5, <2>6
  <1>3. k % H \in Nat /\ (k + 1) % H \in Nat
    BY <1>1
  <1> QED BY <1>1, <1>2, <1>3 DEF NumSeq, k, H

(* What the poll of opcode p does to the slot and the latch.               *)
Replied(p, by) == Final(p, by) \/ Lost

Latched(p) ==
    LatchHit(p) /\ UNCHANGED <<slot, latch>> /\ Replied(p, latch.by)

Collected(p) ==
    /\ W!Terminal(slot) /\ slot.cmd = p /\ slot' = W!FreeSlot
    /\ latch' = retry_latch_store(p, slot.st, slot.req)
    /\ Replied(p, slot.req)

Reclaimed(p) ==
    /\ p = Send /\ latch' = latch /\ Replied(p, cache.by)
    /\ slot' = slot \/ (slot' = W!FreeSlot /\ W!Terminal(slot))

Waits(p) ==
    /\ ~LatchHit(p) /\ slot' = slot /\ latch' = LatchAfterMiss(p) /\ (Busy(p) \/ Lost)

Queues(p) ==
    /\ ~LatchHit(p) /\ ~W!InFlight(slot) /\ (p # Send => ~(W!Terminal(slot) /\ slot.cmd = p))
    /\ slot' = [st |-> "QUEUED", cmd |-> p, req |-> issued[p],
                seq |-> SlotSeq(p, issued[p]), res |-> "none"]
    /\ latch' = LatchAfterMiss(p) /\ (Busy(p) \/ Lost)

(* A poll is one of these. *)
LEMMA PollKinds ==
    ASSUME Inv, NEW p \in Ops, Poll(p)
    PROVE  /\ p \in asking /\ UNCHANGED <<drain, issued, execs>>
           /\ Latched(p) \/ Collected(p) \/ Reclaimed(p) \/ Waits(p) \/ Queues(p)
  <1>0. slot \in SlotType
    BY DEF Inv, TypeOK, SlotType
  <1>1. CASE PollLatched(p)
    BY <1>1 DEF PollLatched, Latched, Replied
  <1>2. CASE PollWorker(p)
    <2>1. /\ p \in asking /\ UNCHANGED <<drain, issued, execs>> /\ ~LatchHit(p)
          /\ handle_worker_routed(p, slot)
      BY <1>2 DEF PollWorker
    <2>2. CASE Collect(p, slot) /\ slot' = W!FreeSlot /\ W!Terminal(slot) /\ slot.cmd = p
      BY <2>1, <2>2 DEF Collect, Collected, Replied
    <2>3. CASE StillBusy(p, slot) /\ slot' = slot
      BY <2>1, <2>3 DEF StillBusy, Waits
    <2>4. CASE /\ Submit(p, slot) /\ ~W!InFlight(slot)
               /\ slot' = [st |-> "QUEUED", cmd |-> p, req |-> issued[p],
                           seq |-> SlotSeq(p, issued[p]), res |-> "none"]
      BY <2>1, <2>4 DEF Submit, Queues, W!worker_poll, W!Terminal
    <2> QED BY <2>1, <2>2, <2>3, <2>4, <1>0, RoutedSlot
  <1>3. CASE p = Send /\ PollSendCached
    BY <1>3 DEF PollSendCached, Reclaimed, Replied, W!worker_reclaim_matching_terminal
  <1>4. CASE p = Send /\ PollSendWorker
    <2> DEFINE s == W!worker_discard_stale_terminal(slot, Send, SendSeq(issued[Send]))
    <2>1. /\ p \in asking /\ UNCHANGED <<drain, issued, execs>> /\ handle_worker_routed(p, s)
          /\ ~LatchHit(p)
      BY <1>4 DEF PollSendWorker, LatchHit
    <2>2. s = slot \/ (s = W!FreeSlot /\ W!Terminal(slot))
      BY DEF W!worker_discard_stale_terminal
    <2>3. s \in SlotType
      BY <1>0, <2>2, OpsAssumption, BoundsAssumption DEF SlotType, W!FreeSlot, W!SlotStates
    <2> HIDE DEF s
    <2>4. CASE Collect(p, s) /\ slot' = W!FreeSlot /\ W!Terminal(s) /\ s.cmd = p
      <3>1. s = slot
        BY <2>2, <2>4 DEF W!FreeSlot, W!Terminal
      <3> QED BY <2>1, <2>4, <3>1 DEF Collect, Collected, Replied
    <2>5. CASE StillBusy(p, s) /\ slot' = s
      <3>1. s = slot
        BY <2>2, <2>5 DEF StillBusy, W!worker_poll, W!FreeSlot, W!InFlight
      <3> QED BY <2>1, <2>5, <3>1 DEF StillBusy, Waits
    <2>6. CASE /\ Submit(p, s) /\ ~W!InFlight(s)
               /\ slot' = [st |-> "QUEUED", cmd |-> p, req |-> issued[p],
                           seq |-> SlotSeq(p, issued[p]), res |-> "none"]
      <3>1. ~W!InFlight(slot)
        BY <2>2, <2>6 DEF W!InFlight, W!Terminal
      <3> QED BY <1>4, <2>1, <2>6, <3>1 DEF Submit, Queues
    <2> QED BY <2>1, <2>3, <2>4, <2>5, <2>6, RoutedSlot
  <1> QED BY <1>1, <1>2, <1>3, <1>4 DEF Poll

(* In short: a poll leaves the slot, frees it or queues its own opcode,    *)
(* and adds nobody to those who ask.                                       *)
LEMMA PollSlot ==
    ASSUME Inv, NEW p \in Ops, Poll(p)
    PROVE  /\ drain' = drain /\ asking' \subseteq asking
           /\ slot' = slot \/ slot'.st \in {"IDLE", "QUEUED"}
           /\ slot' = slot \/ slot'.cmd \in {NoOp, p}
  <1>1. \A by : Replied(p, by) => asking' \subseteq asking
    BY DEF Replied, Final, Lost
  <1>2. Busy(p) \/ Lost => asking' \subseteq asking
    BY DEF Busy, Lost
  <1>3. asking' \subseteq asking
    BY <1>1, <1>2, PollKinds DEF Latched, Collected, Reclaimed, Waits, Queues
  <1>4. W!FreeSlot.st = "IDLE" /\ W!FreeSlot.cmd = NoOp
    BY DEF W!FreeSlot
  <1>5. slot' = slot \/ slot' = W!FreeSlot \/ (slot'.st = "QUEUED" /\ slot'.cmd = p)
    <2>1. CASE Latched(p) \/ Collected(p) \/ Reclaimed(p) \/ Waits(p)
      BY <2>1 DEF Latched, Collected, Reclaimed, Waits
    <2>2. CASE Queues(p)
      BY <2>2 DEF Queues
    <2> QED BY <2>1, <2>2, PollKinds
  <1>6. drain' = drain
    BY PollKinds
  <1> QED BY <1>3, <1>4, <1>5, <1>6

(* What an opcode the host does not give up is, and is not.                *)
LEMMA KeptIs ==
    ASSUME Inv, NEW op \in Kept
    PROVE  /\ op \in Ops /\ op \in Polled /\ op # Send /\ op \notin Joins /\ op # NoOp
           /\ op \notin MayGiveUp /\ issued[op] \in Nat
           /\ op \notin Bare => HdrSeq(op) = NumSeq(issued[op])
  BY OpsAssumption DEF Inv, TypeOK, Kept, Ops, Polled, Joins, HdrSeq, NumSeq

(* Who is asking, and what was answered, after a reply or a BUSY.          *)
LEMMA RepliedIs ==
    ASSUME Inv, NEW p \in Ops, NEW by, Replied(p, by), NEW op \in Kept
    PROVE  \/ asking' = asking /\ answer'[op] = answer[op]
           \/ p # op /\ (op \in asking <=> op \in asking') /\ answer'[op] = answer[op]
           \/ p = op /\ op \notin asking' /\ answer'[op] = [n |-> issued[op], by |-> by]
  <1>1. op \in Polled /\ answer \in [Polled -> [n : 0..MaxReq, by : 0..MaxReq]]
    BY KeptIs DEF Inv, TypeOK
  <1> QED BY <1>1 DEF Replied, Final, Lost

(* BUSY changes neither, for an opcode that is polled to completion. *)
LEMMA BusyIs ==
    ASSUME Inv, NEW p \in Ops, Busy(p) \/ Lost, NEW op \in Kept
    PROVE  (op \in asking <=> op \in asking') /\ answer'[op] = answer[op]
  BY KeptIs DEF Busy, Lost

(* An entry that answers a request the host keeps is its own.              *)
LEMMA HitIsOwn ==
    ASSUME HdrSeqs > 1, Inv, KeptInv, NEW op \in Kept, LatchHit(op)
    PROVE  latch.valid /\ latch.cmd = op /\ latch.by = issued[op] /\ slot.cmd # op
  <1>1. latch.valid /\ latch.cmd = op /\ latch.seq = HdrSeq(op)
    BY DEF LatchHit
  <1>2. /\ op \notin Bare /\ latch.by > 0 /\ latch.seq = NumSeq(latch.by) /\ latch.by \in Nat
        /\ \/ latch.by = issued[op] /\ slot.cmd # op
           \/ latch.by + 1 = issued[op]
    BY <1>1, BoundsAssumption DEF KeptInv, KeptLatch, Inv, TypeOK
  <1>3. NumSeq(latch.by) # NumSeq(latch.by + 1)
    BY <1>2, NextSeqDiffers
  <1>4. HdrSeq(op) = NumSeq(issued[op])
    BY <1>2, KeptIs
  <1> QED BY <1>1, <1>2, <1>3, <1>4

(* After a miss the latch holds nothing of the opcode that missed.         *)
LEMMA MissClears ==
    ASSUME Inv, KeptInv, NEW p \in Ops, latch' = LatchAfterMiss(p), NEW op \in Kept
    PROVE  /\ p = op => ~(latch'.valid /\ latch'.cmd = op)
           /\ p # op => latch' = latch \/ ~latch'.valid \/ latch'.cmd # op
  <1>1. latch \in LatchType
    BY DEF Inv, TypeOK, LatchType
  <1>2. op \notin Bare => HdrSeq(op) # 0
    <2>1. \A n \in Nat \ {0} : NumSeq(n) # 0
      BY BoundsAssumption DEF NumSeq
    <2>2. op \notin Bare /\ issued[op] = 0 => NumSeq(issued[op]) # 0
      BY BoundsAssumption DEF NumSeq
    <2> QED BY <2>1, <2>2, KeptIs
  <1> QED BY <1>1, <1>2, KeptIs DEF LatchAfterMiss, LatchType, KeptInv, KeptLatch

(* A poll, of this opcode or another, keeps what is known of the opcode.   *)
LEMMA KeptPoll ==
    ASSUME HdrSeqs > 1, Inv, KeptInv, NEW p \in Ops, Poll(p), NEW op \in Kept
    PROVE  /\ KeptSlot(op)' /\ KeptLatch(op)' /\ (answer[op].by = answer[op].n)'
  <1>0. /\ p \in asking /\ UNCHANGED <<drain, issued, execs>>
        /\ op # Send /\ op # NoOp /\ op \in Ops /\ issued[op] \in Nat
        /\ KeptSlot(op) /\ KeptLatch(op) /\ answer[op].by = answer[op].n
    BY PollKinds, KeptIs DEF KeptInv, KeptOwnAnswer
  <1>a. ASSUME NEW by, Replied(p, by)
        PROVE  \/ asking' = asking /\ answer'[op] = answer[op]
               \/ p # op /\ (op \in asking <=> op \in asking') /\ answer'[op] = answer[op]
               \/ p = op /\ op \notin asking' /\ answer'[op] = [n |-> issued[op], by |-> by]
    BY <1>a, RepliedIs
  <1>b. answer[op].by = answer[op].n
    BY <1>0
  <1>1. W!FreeSlot.cmd # op
    BY <1>0 DEF W!FreeSlot
  <1>2. CASE Latched(p)
    <2>1. UNCHANGED <<slot, latch>> /\ LatchHit(p) /\ Replied(p, latch.by)
      BY <1>2 DEF Latched
    <2>2. p = op => latch.by = issued[op] /\ slot.cmd # op
      BY <2>1, HitIsOwn
    <2>3. \/ asking' = asking /\ answer'[op] = answer[op]
          \/ p # op /\ (op \in asking <=> op \in asking') /\ answer'[op] = answer[op]
          \/ p = op /\ op \notin asking' /\ answer'[op] = [n |-> issued[op], by |-> latch.by]
      BY <2>1, <1>a
    <2>4. (answer[op].by = answer[op].n)'
      BY <1>b, <2>2, <2>3
    <2>5. KeptSlot(op)'
      BY <1>0, <2>1, <2>2, <2>3 DEF KeptSlot
    <2>6. KeptLatch(op)'
      BY <1>0, <2>1, <2>2, <2>3 DEF KeptLatch, NumSeq
    <2> QED BY <2>4, <2>5, <2>6
  <1>3. CASE Collected(p)
    <2>1. /\ W!Terminal(slot) /\ slot.cmd = p /\ slot'.cmd # op /\ Replied(p, slot.req)
          /\ latch' = retry_latch_store(p, slot.st, slot.req)
      BY <1>1, <1>3 DEF Collected
    <2>2. p = op => slot.req = issued[op] /\ slot.req > 0
      BY <2>1, <1>0 DEF KeptSlot, Inv, SlotInv, W!Terminal
    <2>r. \/ asking' = asking /\ answer'[op] = answer[op]
          \/ p # op /\ (op \in asking <=> op \in asking') /\ answer'[op] = answer[op]
          \/ p = op /\ op \notin asking' /\ answer'[op] = [n |-> issued[op], by |-> slot.req]
      BY <2>1, <1>a
    <2>3. KeptSlot(op)' /\ (answer[op].by = answer[op].n)'
      <3>1. KeptSlot(op)'
        BY <2>1 DEF KeptSlot
      <3>2. (answer[op].by = answer[op].n)'
        BY <1>b, <2>2, <2>r
      <3> QED BY <3>1, <3>2
    <2>4. latch \in LatchType
      BY DEF Inv, TypeOK, LatchType
    <2>5. CASE p # op
      <3>1. latch' = latch \/ ~latch'.valid \/ latch'.cmd # op
        BY <2>1, <2>4, <2>5 DEF retry_latch_store, LatchType
      <3> QED BY <1>0, <2>1, <2>3, <2>5, <2>r, <3>1 DEF KeptLatch, NumSeq
    <2>6. CASE p = op
      <3>1. \/ ~latch'.valid
            \/ /\ op \notin Bare /\ latch'.by = slot.req /\ latch'.seq = HdrSeq(op)
        BY <1>0, <2>1, <2>4, <2>6 DEF retry_latch_store, LatchType, HdrSeq
      <3>2. op \notin Bare => HdrSeq(op) = NumSeq(issued[op])
        BY KeptIs
      <3> QED BY <1>0, <2>1, <2>2, <2>3, <2>6, <3>1, <3>2 DEF KeptLatch, NumSeq
    <2> QED BY <2>3, <2>5, <2>6
  <1>4. CASE Reclaimed(p)
    <2>1. p # op /\ latch' = latch /\ Replied(p, cache.by) /\ (slot' = slot \/ slot'.cmd # op)
      BY <1>0, <1>1, <1>4 DEF Reclaimed
    <2>2. (op \in asking <=> op \in asking') /\ answer'[op] = answer[op]
      BY <2>1, <1>a
    <2> QED BY <1>0, <2>1, <2>2 DEF KeptSlot, KeptLatch, NumSeq
  <1>5. CASE Waits(p) \/ Queues(p)
    <2>1. /\ latch' = LatchAfterMiss(p) /\ (Busy(p) \/ Lost)
          /\ slot' = slot \/ (slot'.cmd = p /\ slot'.req = issued[p])
      BY <1>5 DEF Waits, Queues
    <2>2. (op \in asking <=> op \in asking') /\ answer'[op] = answer[op]
      BY <2>1, BusyIs
    <2>3. KeptSlot(op)'
      BY <1>0, <2>1, <2>2 DEF KeptSlot
    <2>4. KeptLatch(op)'
      <3>1. CASE p = op
        BY <2>1, <3>1, MissClears DEF KeptLatch
      <3>2. CASE p # op
        BY <1>0, <2>1, <2>2, <3>2, MissClears DEF KeptLatch, NumSeq
      <3> QED BY <3>1, <3>2
    <2> QED BY <1>0, <2>2, <2>3, <2>4
  <1> QED BY <1>2, <1>3, <1>4, <1>5, PollKinds

(* The invariant of the opcodes the host does not give up.                 *)
LEMMA KeptInit == Init => KeptInv
  <1> SUFFICES ASSUME Init PROVE KeptInv
    OBVIOUS
  <1>1. Inv
    BY InitInv
  <1>2. \A op \in Kept : op # NoOp /\ op \in Polled
    BY <1>1, KeptIs
  <1> QED BY <1>2 DEF Init, KeptInv, KeptOwnAnswer, KeptSlot, KeptLatch, W!FreeSlot, NoLatch, NoAnswer

(* Every step keeps it. *)
LEMMA KeptStep == ASSUME HdrSeqs > 1 PROVE Inv /\ KeptInv /\ [Next]_vars => KeptInv'
  <1> SUFFICES ASSUME Inv, KeptInv, [Next]_vars, NEW op \in Kept
               PROVE  KeptSlot(op)' /\ KeptLatch(op)' /\ (answer[op].by = answer[op].n)'
    BY DEF KeptInv, KeptOwnAnswer
  <1>0. /\ op # Send /\ op # NoOp /\ op \in Ops /\ op \notin MayGiveUp /\ issued[op] \in Nat
        /\ KeptSlot(op) /\ KeptLatch(op) /\ answer[op].by = answer[op].n
        /\ slot \in SlotType /\ issued \in [Ops -> 0..MaxReq] /\ latch \in LatchType
    BY KeptIs DEF KeptInv, KeptOwnAnswer, Inv, TypeOK, SlotType, LatchType
  <1>1. CASE UNCHANGED vars
    BY <1>0, <1>1 DEF vars, KeptSlot, KeptLatch, NumSeq
  <1>2. ASSUME NEW p \in Ops, Issue(p)
        PROVE  KeptSlot(op)' /\ KeptLatch(op)' /\ (answer[op].by = answer[op].n)'
    <2>1. /\ p \notin asking /\ asking' = asking \cup {p} /\ UNCHANGED <<slot, latch, answer>>
          /\ issued' = [issued EXCEPT ![p] = @ + 1]
      BY <1>2 DEF Issue
    <2>2. issued'[op] = IF op = p THEN issued[op] + 1 ELSE issued[op]
      BY <1>0, <2>1
    <2>3. CASE op = p
      BY <1>0, <2>1, <2>2, <2>3 DEF KeptSlot, KeptLatch, NumSeq
    <2>4. CASE op # p
      BY <1>0, <2>1, <2>2, <2>4 DEF KeptSlot, KeptLatch, NumSeq
    <2> QED BY <2>3, <2>4
  <1>3. ASSUME NEW p \in Ops, GiveUp(p)
        PROVE  KeptSlot(op)' /\ KeptLatch(op)' /\ (answer[op].by = answer[op].n)'
    BY <1>0, <1>3 DEF GiveUp, KeptSlot, KeptLatch, NumSeq
  <1>4. ASSUME NEW p \in Ops, Poll(p)
        PROVE  KeptSlot(op)' /\ KeptLatch(op)' /\ (answer[op].by = answer[op].n)'
    BY <1>4, KeptPoll
  <1>5. CASE Drain
    <2>1. UNCHANGED <<latch, asking, issued, answer>>
      BY <1>5 DEF Drain, DrainTake, DrainBody, DrainPublish, DrainFinish
    <2>2. (slot'.cmd = slot.cmd /\ slot'.req = slot.req) \/ slot'.cmd # op
      <3>1. CASE DrainTake
        BY <1>0, <3>1 DEF DrainTake, W!TakeJob, SlotType
      <3>2. CASE DrainBody
        BY <3>2 DEF DrainBody
      <3>3. ASSUME NEW ok \in BOOLEAN, DrainPublish(ok)
            PROVE  slot'.cmd = slot.cmd /\ slot'.req = slot.req
        BY <1>0, <3>3 DEF DrainPublish, W!PublishJob, SlotType
      <3>4. CASE DrainFinish
        BY <1>0, <3>4 DEF DrainFinish, W!FreeSlot
      <3> QED BY <1>5, <3>1, <3>2, <3>3, <3>4 DEF Drain
    <2> QED BY <1>0, <2>1, <2>2 DEF KeptSlot, KeptLatch, NumSeq
  <1> QED BY <1>1, <1>2, <1>3, <1>4, <1>5 DEF Next

(* With two header seqs or more, an opcode whose requests the host does    *)
(* not give up is answered with its own result, for any number of other    *)
(* threads and opcodes, and whatever the host abandons of those.           *)
THEOREM KeptAnswersOwn == ASSUME HdrSeqs > 1 PROVE Spec => []KeptOwnAnswer
  <1>1. KeptInv => KeptOwnAnswer
    BY DEF KeptInv
  <1> QED BY <1>1, SpecInv, KeptInit, KeptStep, PTL DEF Spec

-------------------------------------------------------------------------------
(* A set of one opcode counts one. *)
LEMMA CardinalityOfOne == ASSUME NEW x PROVE Cardinality({x}) = 1
  <1> DEFINE G(g) == g = [T \in SUBSET {x} |-> IF T = {} THEN 0 ELSE 1 + g[T \ {CHOOSE y : y \in T}]]
             c == CHOOSE g : G(g)
             f == [T \in SUBSET {x} |-> IF T = {} THEN 0 ELSE 1]
  <1>1. Cardinality({x}) = c[{x}]
    BY DEF Cardinality
  <1>2. (CHOOSE y : y \in {x}) = x /\ {x} \ {x} = {} /\ \A T \in SUBSET {x} : T = {} \/ T = {x}
    OBVIOUS
  <1>3. f[{}] = 0 /\ f[{x}] = 1
    OBVIOUS
  <1>4. \A T \in SUBSET {x} : f[T] = IF T = {} THEN 0 ELSE 1 + f[T \ {CHOOSE y : y \in T}]
    BY <1>2, <1>3
  <1>5. G(f)
    BY <1>4
  <1> HIDE DEF G
  <1>6. G(c)
    BY <1>5
  <1>7. c[{}] = 0 /\ c[{x}] = 1 + c[{x} \ {CHOOSE y : y \in {x}}]
    BY <1>6 DEF G
  <1> QED BY <1>1, <1>2, <1>7

(* A lockstep host asks one request at a time.                             *)
LEMMA OneAskedStep ==
    ASSUME Lockstep, Inv, OneAsked, [Next]_vars
    PROVE  OneAsked'
  <1>1. asking' \subseteq asking \/ \E op \in Ops : asking = {} /\ asking' = {op}
    <2>1. CASE UNCHANGED vars
      BY <2>1 DEF vars
    <2>2. ASSUME NEW op \in Ops, Issue(op) PROVE asking = {} /\ asking' = {op}
      <3>1. Cardinality(asking) < 1 /\ asking' = asking \cup {op}
        BY <2>2 DEF Issue, Lockstep
      <3>2. \A p \in Ops : asking # {p}
        BY <3>1, CardinalityOfOne
      <3> QED BY <3>1, <3>2 DEF OneAsked
    <2>3. ASSUME NEW op \in Ops, GiveUp(op) PROVE asking' \subseteq asking
      BY <2>3 DEF GiveUp
    <2>4. ASSUME NEW op \in Ops, Poll(op) PROVE asking' \subseteq asking
      BY <2>4, PollSlot
    <2>5. CASE Drain
      BY <2>5 DEF Drain, DrainTake, DrainBody, DrainPublish, DrainFinish
    <2> QED BY <2>1, <2>2, <2>3, <2>4, <2>5 DEF Next
  <1> QED BY <1>1 DEF OneAsked

(* While the drain re-arms the link, a finished job in the slot is the one *)
(* it just ran.                                                            *)
LEMMA PublishedStep ==
    ASSUME Inv, PublishedByDrain, [Next]_vars
    PROVE  PublishedByDrain'
  <1>0. slot \in SlotType /\ RunningIsHeld /\ drain \in [pc : {"sleep", "taken", "ran", "published"}, cmd : Ops \cup {NoOp}]
    BY DEF Inv, TypeOK, SlotInv, SlotType
  <1>1. CASE UNCHANGED vars
    BY <1>1 DEF vars, PublishedByDrain, W!Terminal
  <1>2. ASSUME NEW op \in Ops, Issue(op) \/ GiveUp(op) PROVE PublishedByDrain'
    BY <1>2 DEF Issue, GiveUp, PublishedByDrain, W!Terminal
  <1>3. ASSUME NEW op \in Ops, Poll(op) PROVE PublishedByDrain'
    <2>1. drain' = drain /\ (slot' = slot \/ slot'.st \in {"IDLE", "QUEUED"})
      BY <1>3, PollSlot
    <2> QED BY <2>1 DEF PublishedByDrain, W!Terminal
  <1>4. CASE DrainTake \/ DrainBody
    BY <1>0, <1>4 DEF DrainTake, DrainBody, PublishedByDrain
  <1>5. ASSUME NEW ok \in BOOLEAN, DrainPublish(ok) PROVE PublishedByDrain'
    <2>1. slot'.cmd = slot.cmd /\ drain'.cmd = drain.cmd
      BY <1>0, <1>5 DEF DrainPublish, W!PublishJob, SlotType
    <2>2. slot.cmd = drain.cmd
      BY <1>0, <1>5 DEF DrainPublish, RunningIsHeld
    <2> QED BY <2>1, <2>2 DEF PublishedByDrain
  <1>6. CASE DrainFinish
    BY <1>6 DEF DrainFinish, Asleep, PublishedByDrain
  <1> QED BY <1>1, <1>2, <1>3, <1>4, <1>5, <1>6 DEF Next, Drain

(* What is known of one numbered opcode. *)
OnceOf(op) ==
    /\ NotRunYet(op) /\ RunIsKept(op)
    /\ \A n \in Reqs : execs[op][n] <= 1 /\ (n > issued[op] => execs[op][n] = 0)

(* A poll of another opcode finds the numbered one neither asked nor in    *)
(* the slot; its own poll submits it only before it ran.                   *)
LEMMA OncePoll ==
    ASSUME HdrSeqs > 1, Inv, KeptInv, OneAsked, NEW p \in Ops, Poll(p), NEW op \in Numbered, OnceOf(op)
    PROVE  OnceOf(op)'
  <1>0. /\ op \in Kept /\ op \notin Big /\ op \notin Bare /\ op # Send /\ op # NoOp /\ op \in Ops
        /\ HdrSeq(op) = NumSeq(issued[op]) /\ issued[op] \in Nat /\ KeptSlot(op)
    BY KeptIs DEF Numbered, KeptInv
  <1>1. p \in asking /\ UNCHANGED <<drain, issued, execs>>
    BY PollKinds
  <1>2. slot \in SlotType /\ RunningIsHeld /\ issued[op] \in 0..MaxReq /\ latch \in LatchType
    BY <1>0 DEF Inv, TypeOK, SlotInv, SlotType, LatchType
  <1>3. \A n \in Reqs : execs'[op][n] <= 1 /\ (n > issued'[op] => execs'[op][n] = 0)
    BY <1>1 DEF OnceOf
  <1>4. HdrSeq(op)' = HdrSeq(op) /\ W!FreeSlot.cmd # op
    BY <1>0, <1>1 DEF HdrSeq, W!FreeSlot
  <1>7. p = op => issued[op] \in Reqs /\ issued[op] \in Nat \ {0}
    <2>1. p = op => issued[op] > 0
      BY <1>1 DEF Inv, SlotInv
    <2> QED BY <1>2, <2>1, BoundsAssumption DEF Reqs
  <1>5. CASE p # op
    <2>1. op \notin asking /\ slot.cmd # op
      <3>1. op \notin asking
        BY <1>1, <1>5 DEF OneAsked
      <3> QED BY <3>1, <1>0 DEF KeptSlot
    <2>2. slot'.cmd # op
      BY <1>0, <1>5, <2>1, PollSlot
    <2>3. op \notin asking'
      BY <2>1, PollSlot
    <2> QED BY <1>3, <2>2, <2>3 DEF OnceOf, NotRunYet, RunIsKept
  <1>6. CASE p = op
    <2>1. CASE Latched(op)
      <3>1. UNCHANGED <<slot, latch>> /\ LatchHit(op)
        BY <2>1 DEF Latched
      <3>2. LatchHit(op)'
        BY <1>4, <3>1 DEF LatchHit
      <3> QED BY <1>1, <1>3, <3>1, <3>2 DEF OnceOf, NotRunYet, RunIsKept
    <2>2. CASE Collected(op)
      <3>1. /\ slot'.cmd # op
            /\ \/ latch' = [valid |-> TRUE, cmd |-> op, seq |-> HdrSeq(op), by |-> slot.req]
               \/ HdrSeq(op) = 0
        BY <1>0, <1>4, <2>2 DEF Collected, retry_latch_store
      <3>2. HdrSeq(op) # 0
        <4>1. NumSeq(issued[op]) > 0
          BY <1>6, <1>7, BoundsAssumption DEF NumSeq
        <4> QED BY <4>1, <1>0
      <3>3. LatchHit(op)'
        <4>1. latch'.valid /\ latch'.cmd = op /\ latch'.seq = HdrSeq(op)
          BY <3>1, <3>2
        <4> QED BY <1>0, <1>4, <3>2, <4>1 DEF LatchHit
      <3> QED BY <1>1, <1>3, <3>1, <3>2, <3>3 DEF OnceOf, NotRunYet, RunIsKept
    <2>3. CASE Waits(op)
      <3>1. slot' = slot /\ ~LatchHit(op) /\ (op \in asking' => op \in asking)
        BY <1>1, <1>6, <2>3 DEF Waits
      <3> QED BY <1>1, <1>3, <3>1 DEF OnceOf, NotRunYet, RunIsKept
    <2>4. CASE Queues(op)
      <3>1. /\ ~LatchHit(op) /\ slot'.cmd = op /\ slot'.st = "QUEUED" /\ slot.st \notin {"QUEUED", "RUNNING"}
        BY <2>4 DEF Queues, W!InFlight
      <3>2. ~W!Terminal(slot) \/ slot.cmd # op
        BY <1>0, <2>4 DEF Queues
      <3>3. execs[op][issued[op]] = 0
        <4>1. execs \in [Polled -> [Reqs -> 0..2]] /\ op \in Polled
          BY <1>0, KeptIs DEF Inv, TypeOK
        <4>2. execs[op][issued[op]] \in 0..2
          BY <1>6, <1>7, <4>1
        <4>3. ~(execs[op][issued[op]] > 0)
          BY <1>1, <1>6, <3>1, <3>2 DEF OnceOf, RunIsKept, W!Terminal
        <4> QED BY <4>2, <4>3
      <3>4. execs'[op][issued'[op]] = 0
        BY <1>1, <3>3
      <3>5. NotRunYet(op)' /\ RunIsKept(op)'
        BY <3>4 DEF NotRunYet, RunIsKept
      <3> QED BY <1>3, <3>5 DEF OnceOf
    <2> QED BY <1>0, <1>6, <2>1, <2>2, <2>3, <2>4, PollKinds DEF Reclaimed
  <1> QED BY <1>5, <1>6

(* Every step of a lockstep host and the bridge keeps what is known. *)
LEMMA OnceStep ==
    ASSUME HdrSeqs > 1, Lockstep PROVE Inv /\ KeptInv /\ OnceInv /\ [Next]_vars => OnceInv'
  <1> SUFFICES ASSUME Inv, KeptInv, OneAsked, PublishedByDrain, [Next]_vars, NEW op \in Numbered, OnceOf(op)
               PROVE  OnceOf(op)'
    BY OneAskedStep, PublishedStep DEF OnceInv, OnceOf
  <1>0. /\ op \in Kept /\ op \in Polled /\ op \in Ops /\ op \notin Joins /\ issued[op] \in 0..MaxReq
        /\ slot \in SlotType /\ RunningIsHeld /\ issued \in [Ops -> 0..MaxReq]
        /\ execs \in [Polled -> [Reqs -> 0..2]] /\ KeptSlot(op)
        /\ drain \in [pc : {"sleep", "taken", "ran", "published"}, cmd : Ops \cup {NoOp}]
    BY KeptIs DEF Numbered, KeptInv, Inv, TypeOK, SlotInv, SlotType
  <1>1. CASE UNCHANGED vars
    BY <1>1 DEF vars, OnceOf, NotRunYet, RunIsKept, LatchHit, HdrSeq
  <1>2. ASSUME NEW p \in Ops, Issue(p) PROVE OnceOf(op)'
    <2>1. /\ p \notin asking /\ asking' = asking \cup {p} /\ UNCHANGED <<slot, latch, drain, execs>>
          /\ issued' = [issued EXCEPT ![p] = @ + 1] /\ issued[p] < MaxReq
      BY <1>2, BoundsAssumption DEF Issue, Inv, TypeOK
    <2>2. CASE p # op
      <3>1. issued'[op] = issued[op] /\ (op \in asking' <=> op \in asking) /\ LatchHit(op)' = LatchHit(op)
        BY <1>0, <2>1, <2>2 DEF LatchHit, HdrSeq
      <3> QED BY <2>1, <3>1 DEF OnceOf, NotRunYet, RunIsKept
    <2>3. CASE p = op
      <3>1. issued'[op] = issued[op] + 1 /\ issued'[op] \in Reqs /\ slot.cmd # op
        BY <1>0, <2>1, <2>3, BoundsAssumption DEF Reqs, KeptSlot
      <3>2. execs[op][issued'[op]] = 0
        BY <1>0, <3>1 DEF OnceOf
      <3>3. \A n \in Reqs : execs'[op][n] <= 1 /\ (n > issued'[op] => execs'[op][n] = 0)
        BY <1>0, <2>1, <3>1, BoundsAssumption DEF OnceOf, Reqs
      <3>4. NotRunYet(op)' /\ RunIsKept(op)'
        BY <2>1, <3>1, <3>2 DEF NotRunYet, RunIsKept
      <3> QED BY <3>3, <3>4 DEF OnceOf
    <2> QED BY <2>2, <2>3
  <1>3. ASSUME NEW p \in Ops, GiveUp(p) PROVE OnceOf(op)'
    BY <1>3 DEF GiveUp, OnceOf, NotRunYet, RunIsKept, LatchHit, HdrSeq
  <1>4. ASSUME NEW p \in Ops, Poll(p) PROVE OnceOf(op)'
    BY <1>4, OncePoll
  <1>5. CASE DrainTake
    <2>1. /\ slot'.cmd = slot.cmd /\ slot.st = "QUEUED" /\ slot'.st = "RUNNING"
          /\ UNCHANGED <<latch, asking, issued, execs>>
      BY <1>0, <1>5 DEF DrainTake, W!TakeJob, SlotType
    <2>2. LatchHit(op)' = LatchHit(op)
      BY <2>1 DEF LatchHit, HdrSeq
    <2> QED BY <2>1, <2>2 DEF OnceOf, NotRunYet, RunIsKept
  <1>6. CASE DrainBody
    <2>1. /\ drain.pc = "taken" /\ drain'.pc = "ran" /\ UNCHANGED <<slot, latch, asking, issued>>
          /\ slot.st = "RUNNING" /\ slot.cmd = drain.cmd
          /\ execs' = IF drain.cmd \in Polled THEN [execs EXCEPT ![drain.cmd][slot.req] = Once(@)] ELSE execs
      BY <1>0, <1>6 DEF DrainBody, RunningIsHeld
    <2>2. LatchHit(op)' = LatchHit(op)
      BY <2>1 DEF LatchHit, HdrSeq
    <2>3. CASE slot.cmd # op
      <3>1. execs'[op] = execs[op]
        BY <1>0, <2>1, <2>3
      <3> QED BY <2>1, <2>2, <2>3, <3>1 DEF OnceOf, NotRunYet, RunIsKept
    <2>4. CASE slot.cmd = op
      <3>1. slot.req = issued[op] /\ slot.req \in Reqs
        BY <1>0, <2>1, <2>4 DEF KeptSlot, Inv, SlotInv, Reqs
      <3>2. execs[op][slot.req] = 0
        BY <2>1, <2>4, <3>1 DEF OnceOf, NotRunYet
      <3>3. \A n \in Reqs : execs'[op][n] = IF n = slot.req THEN 1 ELSE execs[op][n]
        BY <1>0, <2>1, <2>4, <3>1, <3>2 DEF Once
      <3>4. \A n \in Reqs : execs'[op][n] <= 1 /\ (n > issued'[op] => execs'[op][n] = 0)
        <4>1. issued'[op] = slot.req /\ slot.req \in Nat /\ \A n \in Reqs : n \in Nat
          BY <2>1, <3>1 DEF Reqs
        <4>2. ASSUME NEW n \in Reqs PROVE execs'[op][n] <= 1 /\ (n > issued'[op] => execs'[op][n] = 0)
          <5>1. CASE n = slot.req
            BY <5>1, <3>1, <3>3, <4>1
          <5>2. CASE n # slot.req
            BY <5>2, <3>1, <3>3, <4>1 DEF OnceOf
          <5> QED BY <5>1, <5>2
        <4> QED BY <4>2
      <3> QED BY <2>1, <2>4, <3>4 DEF OnceOf, NotRunYet, RunIsKept
    <2> QED BY <2>3, <2>4
  <1>7. ASSUME NEW ok \in BOOLEAN, DrainPublish(ok) PROVE OnceOf(op)'
    <2>1. /\ slot'.cmd = slot.cmd /\ slot'.st \in {"DONE", "ERR"} /\ drain'.pc = "published"
          /\ UNCHANGED <<latch, asking, issued, execs>>
      BY <1>0, <1>7 DEF DrainPublish, W!PublishJob, SlotType
    <2>2. LatchHit(op)' = LatchHit(op)
      BY <2>1 DEF LatchHit, HdrSeq
    <2> QED BY <2>1, <2>2 DEF OnceOf, NotRunYet, RunIsKept
  <1>8. CASE DrainFinish
    <2>1. /\ drain.pc = "published" /\ drain'.pc = "sleep" /\ UNCHANGED <<latch, asking, issued, execs>>
          /\ slot' = slot \/ (slot' = W!FreeSlot /\ drain.cmd \in Joins)
      BY <1>8 DEF DrainFinish, Asleep
    <2>2. LatchHit(op)' = LatchHit(op) /\ W!FreeSlot.cmd # op
      BY <2>1, <1>0, KeptIs DEF LatchHit, HdrSeq, W!FreeSlot
    <2>3. slot' # slot => ~(slot.cmd = op /\ slot.st \in {"RUNNING", "DONE", "ERR"})
      BY <1>0, <2>1 DEF PublishedByDrain, W!Terminal, RunningIsHeld
    <2> QED BY <2>1, <2>2, <2>3 DEF OnceOf, NotRunYet, RunIsKept
  <1> QED BY <1>1, <1>2, <1>3, <1>4, <1>5, <1>6, <1>7, <1>8 DEF Next, Drain

(* With two header seqs or more and a lockstep host, a numbered opcode     *)
(* whose reply fits the latch runs at most once per request the host does  *)
(* not give up: for any set of opcodes, and whatever the host abandons of  *)
(* the others.                                                             *)
THEOREM LockstepRunsOnce == ASSUME HdrSeqs > 1 PROVE Spec => []LockstepOnce
  <1>1. CASE ~Lockstep
    <2>1. LockstepOnce
      BY <1>1 DEF LockstepOnce
    <2> QED BY <2>1, PTL
  <1>2. CASE Lockstep
    <2>1. Init => KeptInv /\ OnceInv
      <3> SUFFICES ASSUME Init PROVE KeptInv /\ OnceInv
        OBVIOUS
      <3>1. Inv
        BY InitInv
      <3>2. \A op \in Kept : op # NoOp /\ op \in Polled /\ op \in Ops
        BY <3>1, KeptIs
      <3>3. KeptInv
        BY KeptInit
      <3>4. OneAsked /\ PublishedByDrain
        BY DEF Init, OneAsked, PublishedByDrain, Asleep
      <3>5. \A op \in Numbered : NotRunYet(op) /\ RunIsKept(op)
        BY <3>2 DEF Init, Numbered, NotRunYet, RunIsKept, W!FreeSlot
      <3>6. \A op \in Numbered : \A n \in Reqs : execs[op][n] <= 1 /\ (n > issued[op] => execs[op][n] = 0)
        BY <3>2 DEF Init, Numbered
      <3> QED BY <3>3, <3>4, <3>5, <3>6 DEF OnceInv
    <2>2. OnceInv => LockstepOnce
      BY DEF OnceInv, LockstepOnce, Numbered
    <2>3. Inv /\ KeptInv /\ OnceInv /\ [Next]_vars => KeptInv' /\ OnceInv'
      BY <1>2, KeptStep, OnceStep
    <2> QED BY <2>1, <2>2, <2>3, SpecInv, PTL DEF Spec
  <1> QED BY <1>1, <1>2
===============================================================================
