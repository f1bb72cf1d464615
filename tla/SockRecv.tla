------------------------------- MODULE SockRecv -------------------------------
(***************************************************************************)
(* SOCK_RECV, end to end: the bytes of a socket as lwIP holds them, the    *)
(* prefetch ring with its lazy commit (sock_recv_commit.c, rx_ring in      *)
(* cc3501e_hw_ti_sock.c), the worker fallback with its completion cache    *)
(* (g_sock_recv_wk_* in protocol_sockets.c), SOCK_CLOSE and SOCK_CONNECT   *)
(* through the same job slot, and a host whose replies may be lost.        *)
(*                                                                         *)
(* A byte is <<generation, position>>: the n-th byte of the g-th           *)
(* connection that used a handle number, so that a byte served twice, out  *)
(* of place or across a reuse of the handle shows.                         *)
(*                                                                         *)
(* The host makes one socket call at a time and re-sends its frame until   *)
(* it is answered.  Its SOCK_RECV seq advances when a recv is answered OK  *)
(* (protocol_sockets.c:300-313).  It may give up on a call; recovery of a  *)
(* recv it gave up on is promised only if its next recv is the same one    *)
(* (:300-304), so that is what this host does (host.owed).  A handle it    *)
(* asked to close it reads again only after the next connect (host.shut).  *)
(* Another thread may poll another opcode at any time (PollOther).         *)
(***************************************************************************)
EXTENDS Naturals, Sequences, FiniteSets, FiniteSetsExt

CONSTANTS Handles,    \* host-visible handle numbers; 0 is none (handle = lwIP fd + 1)
          Streams,    \* those opened as SOCK_STREAM
          Lens,       \* values of max_len a host may ask for
          MaxBytes,   \* bytes the peers send, over all handles
          Budgets,    \* how many connections of each handle a behaviour may have
          RingBytes,  \* CC3501E_SOCK_RING_BYTES
          MaxPayload, \* ALP_CC3501E_MAX_PAYLOAD: room the pump leaves free
          RecvSeqs    \* usable header seqs, 1..RecvSeqs (five bits in the code)

ASSUME RecvAssumption ==
    /\ 0 \notin Handles /\ Streams \subseteq Handles
    /\ Lens \subseteq Nat
    /\ MaxBytes \in Nat /\ RecvSeqs \in Nat \ {0, 1}
    /\ Budgets \subseteq [Handles -> Nat]
    /\ RingBytes \in Nat /\ MaxPayload \in 0..RingBytes

VARIABLES
    net,      \* lwIP: per handle, the connection and its unread bytes
    ring,     \* rx_ring: owner (fd_plus1), bytes from tail to head, uncommitted
    slot,     \* the worker's job slot
    jobSeq,   \* g_sock_recv_job_seq
    cache,    \* g_sock_recv_wk_*
    last,     \* last_recv_{seq,handle,max_len}
    drain,    \* where worker_run_pending stands, and what its body left
    host,     \* the call outstanding, the recv owed, the next recv seq, handles shut
    got       \* ghost: bytes the host accepted on the current connection

vars == <<net, ring, slot, jobSeq, cache, last, drain, host, got>>

Recv == "SOCK_RECV"
Connect == "SOCK_CONNECT"
Close == "SOCK_CLOSE"
Other == "OTHER"

NoCall == [op |-> "none", h |-> 0, max |-> 0]
W == INSTANCE WorkerSlot WITH NoCmd <- "none", NoReq <- NoCall, NoRes <- <<>>

NoKey == [seq |-> 0, h |-> 0, max |-> 0]
NoCache == [valid |-> FALSE, key |-> NoKey, ok |-> TRUE, buf |-> <<>>]
FreeRing == [owner |-> 0, buf |-> <<>>, unc |-> 0, end |-> "open"]
Asleep == [pc |-> "sleep", ok |-> TRUE, buf |-> <<>>]

MinOf(a, b) == IF a < b THEN a ELSE b
Take(s, n) == SubSeq(s, 1, n)
Drop(s, n) == SubSeq(s, n + 1, Len(s))

Init ==
    /\ net = [h \in Handles |-> [open |-> FALSE, gen |-> 0, sent |-> 0, unread |-> <<>>,
                                 end |-> "open", eof |-> FALSE]]
    /\ ring = FreeRing
    /\ slot = W!FreeSlot
    /\ jobSeq = 0
    /\ cache = NoCache
    /\ last = NoKey
    /\ drain = Asleep
    /\ \E b \in Budgets :
          host = [call |-> NoCall, owed |-> NoCall, rseq |-> 1, shut |-> {}, conns |-> b]
    /\ got = [h \in Handles |-> <<>>]

-------------------------------------------------------------------------------
(* The peer (external): bytes arrive, the connection ends. *)

Arrive(h) ==
    /\ net[h].open /\ net[h].end = "open"
    /\ MapThenSumSet(LAMBDA g : net[g].sent, Handles) < MaxBytes
    /\ net' = [net EXCEPT ![h].sent = @ + 1,
                          ![h].unread = Append(@, <<net[h].gen, net[h].sent + 1>>)]
    /\ UNCHANGED <<ring, slot, jobSeq, cache, last, drain, host, got>>

PeerEnds(h, how) ==
    /\ net[h].open /\ net[h].end = "open"
    /\ net' = [net EXCEPT ![h].end = how]
    /\ UNCHANGED <<ring, slot, jobSeq, cache, last, drain, host, got>>

-------------------------------------------------------------------------------
(* The host (external: the alp-sdk driver, from how the firmware uses it). *)

Call(c) ==
    /\ host.call = NoCall
    /\ CASE c.op = Recv -> host.owed \in {NoCall, c} /\ net[c.h].open /\ c.h \notin host.shut
         [] c.op = Connect -> ~net[c.h].open /\ net[c.h].gen < host.conns[c.h]
         [] OTHER -> net[c.h].open
    /\ host' = [host EXCEPT !.call = c,
                            !.owed = IF c.op # Recv /\ @.h = c.h THEN NoCall ELSE @,
                            !.shut = CASE c.op = Close -> @ \cup {c.h}
                                       [] c.op = Connect -> @ \ {c.h}
                                       [] OTHER -> @]
    /\ UNCHANGED <<net, ring, slot, jobSeq, cache, last, drain, got>>

GiveUp ==
    /\ host.call # NoCall
    /\ host' = [host EXCEPT !.call = NoCall,
                            !.owed = IF host.call.op = Recv THEN host.call ELSE @]
    /\ UNCHANGED <<net, ring, slot, jobSeq, cache, last, drain, got>>

Lost == UNCHANGED <<host, got>>

(* An answer to the outstanding call; a recv answered OK brings bytes and  *)
(* moves the seq on, a failed one does not.                                *)
Answer(ok, bytes) ==
    LET recv == host.call.op = Recv IN
    /\ host' = [host EXCEPT !.call = NoCall,
                            !.owed = IF recv THEN NoCall ELSE @,
                            !.rseq = IF recv /\ ok THEN (@ % RecvSeqs) + 1 ELSE @]
    /\ got' = IF recv /\ ok THEN [got EXCEPT ![host.call.h] = @ \o bytes] ELSE got

-------------------------------------------------------------------------------
(* The dispatch of one frame of the outstanding call: one SPI callback.    *)

Key == [seq |-> host.rseq, h |-> host.call.h, max |-> host.call.max]

(* Every SOCK_RECV first drops a cache entry that is not its own.  The     *)
(* code clears the valid flag only; nothing reads the rest after that.     *)
CacheHit == cache.valid /\ cache.key = Key
CacheAfterCheck == IF cache.valid /\ ~CacheHit THEN NoCache ELSE cache

(* Variant for mutation: retiring on a replay. *)
CommitOnReplay(r, replay, max) ==
    LET b == Drop(r.buf, r.unc) IN [r EXCEPT !.buf = b, !.unc = MinOf(Len(b), max)]

(* sock_recv_commit: a new request retires what the last one served, a     *)
(* replay serves it again; either way at most max bytes become uncommitted.*)
sock_recv_commit(r, replay, max) ==
    LET b == IF replay THEN r.buf ELSE Drop(r.buf, r.unc)
    IN [r EXCEPT !.buf = b, !.unc = MinOf(Len(b), max)]

(* Variant for mutation: the end of the stream is looked at first. *)
RingAnswerEndFirst(r, max) ==
    IF r.end = "fin" THEN Answer(TRUE, <<>>)
    ELSE IF r.unc > 0 THEN Answer(TRUE, Take(r.buf, r.unc)) ELSE Lost

(* The ring's answer: bytes; or, drained, the end of the stream, a         *)
(* connection error, or BUSY (OK and empty to a zero-length probe).        *)
RingAnswer(r, max) ==
    IF r.unc > 0 THEN Answer(TRUE, Take(r.buf, r.unc))
    ELSE IF r.end = "fin" THEN Answer(TRUE, <<>>)
    ELSE IF r.end = "rst" THEN Answer(FALSE, <<>>)
    ELSE IF max = 0 THEN Answer(TRUE, <<>>)
    ELSE Lost

(* A recv on the handle that owns the ring is answered in the callback.    *)
PollRecvRing ==
    /\ host.call.op = Recv
    /\ ring.owner = host.call.h
    /\ cache' = CacheAfterCheck
    /\ ring' = sock_recv_commit(ring, host.rseq # 0 /\ last = Key, host.call.max)
    /\ last' = Key
    /\ RingAnswer(ring', host.call.max) \/ Lost
    /\ UNCHANGED <<net, slot, jobSeq, drain>>

(* Variant for mutation: a cached answer is served once. *)
PollRecvCachedOnce ==
    /\ host.call.op = Recv
    /\ ring.owner # host.call.h
    /\ CacheHit
    /\ cache' = NoCache
    /\ last' = Key
    /\ slot' = W!worker_reclaim_matching_terminal(slot, Recv, host.call.h)
    /\ Answer(cache.ok, cache.buf) \/ Lost
    /\ UNCHANGED <<net, ring, jobSeq, drain>>

(* A retry whose job has completed: the answer comes from the cache.       *)
PollRecvCached ==
    /\ host.call.op = Recv
    /\ ring.owner # host.call.h
    /\ CacheHit
    /\ cache' = IF host.rseq = 0 THEN NoCache ELSE cache
    /\ last' = Key
    /\ slot' = W!worker_reclaim_matching_terminal(slot, Recv, host.call.h)
    /\ Answer(cache.ok, cache.buf) \/ Lost
    /\ UNCHANGED <<net, ring, jobSeq, drain>>

(* handle_worker_routed_payload(_reply) from slot s. *)
Collect(op, s) ==
    /\ W!worker_poll(s, op) \in {"DONE", "ERR"}
    /\ slot' = W!FreeSlot
    /\ Answer(s.st = "DONE", s.res) \/ Lost
    /\ UNCHANGED jobSeq

Submit(op, s) ==
    /\ W!worker_poll(s, op) = "IDLE"
    /\ slot' = W!worker_submit(W!SlotAfterPoll(s, op), op, host.call, host.call.h)
    /\ jobSeq' = IF op = Recv THEN host.rseq ELSE jobSeq
    /\ Lost

StillBusy(op, s) ==
    /\ W!worker_poll(s, op) \in {"QUEUED", "RUNNING"}
    /\ slot' = s
    /\ UNCHANGED jobSeq
    /\ Lost

handle_worker_routed(op, s) == Collect(op, s) \/ Submit(op, s) \/ StillBusy(op, s)

(* A miss evicts whatever finished recv sits in the slot, then goes on. *)
PollRecvWorker ==
    /\ host.call.op = Recv
    /\ ring.owner # host.call.h
    /\ ~CacheHit
    /\ cache' = CacheAfterCheck
    /\ last' = Key
    /\ handle_worker_routed(Recv, W!worker_discard_stale_recv(slot, Recv))
    /\ UNCHANGED <<net, ring, drain>>

(* Variant for mutation: a close leaves the cache alone. *)
PollControlKeepingCache ==
    /\ host.call.op \in {Connect, Close}
    /\ handle_worker_routed(host.call.op, slot)
    /\ UNCHANGED <<net, ring, cache, last, drain>>

(* SOCK_CLOSE drops the cache entry of the handle it closes.  SOCK_CONNECT *)
(* stands for SOCK_OPEN and SOCK_CONNECT.  The retry latch in front of     *)
(* both is Bridge's.                                                       *)
PollControl ==
    /\ host.call.op \in {Connect, Close}
    /\ cache' = IF host.call.op = Close /\ cache.valid /\ cache.key.h = host.call.h
                THEN NoCache ELSE cache
    /\ handle_worker_routed(host.call.op, slot)
    /\ UNCHANGED <<net, ring, last, drain>>

(* Another thread of the host polls another opcode: it may evict a result, *)
(* take the free slot, or collect its own.                                 *)
PollOther ==
    /\ LET s == W!SlotAfterPoll(slot, Other) IN
       slot' = IF s.cmd = Other
               THEN IF W!Terminal(s) THEN W!FreeSlot ELSE s
               ELSE W!worker_submit(s, Other, NoCall, 0)
    /\ UNCHANGED <<net, ring, jobSeq, cache, last, drain, host, got>>

-------------------------------------------------------------------------------
(* The drain task.  Between jobs its tick pumps the ring. *)

(* One pass of cc3501e_hw_sock_pump: it keeps room for a whole payload,    *)
(* takes what lwIP has, and latches the end of the stream once lwIP has    *)
(* nothing left.                                                           *)
Pump ==
    /\ drain.pc = "sleep"
    /\ ring.owner # 0 /\ ring.end = "open"
    /\ Len(ring.buf) <= RingBytes - MaxPayload
    /\ LET c == net[ring.owner]
           n == MinOf(Len(c.unread), RingBytes - Len(ring.buf))
       IN \/ /\ n > 0
             /\ \E k \in 1..n :
                   /\ ring' = [ring EXCEPT !.buf = @ \o Take(c.unread, k)]
                   /\ net' = [net EXCEPT ![ring.owner].unread = Drop(@, k)]
          \/ /\ c.unread = <<>> /\ c.end # "open"
             /\ ring' = [ring EXCEPT !.end = c.end]
             /\ UNCHANGED net
    /\ UNCHANGED <<slot, jobSeq, cache, last, drain, host, got>>

DrainTake ==
    /\ drain.pc = "sleep"
    /\ slot.st = "QUEUED"
    /\ slot' = W!TakeJob(slot)
    /\ drain' = [Asleep EXCEPT !.pc = "taken"]
    /\ UNCHANGED <<net, ring, jobSeq, cache, last, host, got>>

Ran(ok, bytes) == drain' = [pc |-> "ran", ok |-> ok, buf |-> bytes]

(* cc3501e_hw_sock_recv: the end-of-stream latch, a zero-length read, then *)
(* lwip_recvfrom: some bytes; the end, latched for a stream; an error; or  *)
(* nothing yet, reported OK and empty.                                     *)
cc3501e_hw_sock_recv(h, max) ==
    LET c == net[h]
        n == MinOf(Len(c.unread), max)
    IN /\ UNCHANGED <<ring, got>>
       /\ \/ /\ c.eof \/ max = 0
             /\ Ran(TRUE, <<>>) /\ UNCHANGED net
          \/ /\ ~c.eof /\ max > 0 /\ c.open /\ c.unread # <<>>
             /\ \E k \in 1..n : /\ Ran(TRUE, Take(c.unread, k))
                                /\ net' = [net EXCEPT ![h].unread = Drop(@, k)]
          \/ /\ ~c.eof /\ max > 0 /\ c.open /\ c.unread = <<>> /\ c.end # "rst"
             /\ Ran(TRUE, <<>>)
             /\ net' = [net EXCEPT ![h].eof = c.end = "fin" /\ h \in Streams]
          \/ /\ ~c.eof /\ max > 0 /\ (~c.open \/ (c.unread = <<>> /\ c.end = "rst"))
             /\ Ran(FALSE, <<>>) /\ UNCHANGED net

(* cc3501e_hw_sock_connect arms the ring for the first stream only. *)
cc3501e_hw_sock_connect(h) ==
    \/ /\ ~net[h].open /\ net[h].gen < host.conns[h]
       /\ net' = [net EXCEPT ![h].open = TRUE, ![h].gen = @ + 1, ![h].sent = 0,
                             ![h].unread = <<>>, ![h].end = "open"]
       /\ ring' = IF h \in Streams /\ ring.owner = 0
                  THEN [FreeRing EXCEPT !.owner = h] ELSE ring
       /\ got' = [got EXCEPT ![h] = <<>>]
       /\ Ran(TRUE, <<>>)
    \/ Ran(FALSE, <<>>) /\ UNCHANGED <<net, ring, got>>

(* cc3501e_hw_sock_close gives the ring up before it closes the socket.    *)
cc3501e_hw_sock_close(h) ==
    /\ ring' = IF ring.owner = h THEN FreeRing ELSE ring
    /\ net' = [net EXCEPT ![h].open = FALSE, ![h].unread = <<>>, ![h].eof = FALSE]
    /\ Ran(net[h].open, <<>>)
    /\ UNCHANGED got

DrainBody ==
    /\ drain.pc = "taken"
    /\ LET j == slot.req IN
       \/ slot.cmd = Recv /\ cc3501e_hw_sock_recv(j.h, j.max)
       \/ slot.cmd = Connect /\ cc3501e_hw_sock_connect(j.h)
       \/ slot.cmd = Close /\ cc3501e_hw_sock_close(j.h)
       \/ slot.cmd = Other /\ Ran(TRUE, <<>>) /\ UNCHANGED <<net, ring, got>>
    /\ UNCHANGED <<slot, jobSeq, cache, last, host>>

(* A recv leaves through three steps: the cache is invalidated under one   *)
(* critical section, refilled outside any, and published under the last    *)
(* together with the job's terminal state.  Other jobs only publish.       *)
DrainInvalidate ==
    /\ drain.pc = "ran" /\ slot.cmd = Recv
    /\ cache' = NoCache
    /\ drain' = [drain EXCEPT !.pc = "copy"]
    /\ UNCHANGED <<net, ring, slot, jobSeq, last, host, got>>

DrainCopy ==
    /\ drain.pc = "copy"
    /\ cache' = IF drain.ok THEN [cache EXCEPT !.buf = drain.buf] ELSE cache
    /\ drain' = [drain EXCEPT !.pc = "publish"]
    /\ UNCHANGED <<net, ring, slot, jobSeq, last, host, got>>

DrainPublish ==
    /\ drain.pc = IF slot.cmd = Recv THEN "publish" ELSE "ran"
    /\ cache' = IF slot.cmd = Recv
                THEN [valid |-> TRUE, ok |-> drain.ok,
                      key |-> [seq |-> jobSeq, h |-> slot.req.h, max |-> slot.req.max],
                      buf |-> IF drain.ok THEN cache.buf ELSE <<>>]
                ELSE cache
    /\ slot' = W!PublishJob(slot, drain.ok, drain.buf)
    /\ jobSeq' = 0    \* not read again before the next submit sets it
    /\ drain' = Asleep
    /\ UNCHANGED <<net, ring, last, host, got>>

-------------------------------------------------------------------------------
Calls == [op : {Recv}, h : Handles, max : Lens]
         \cup [op : {Connect, Close}, h : Handles, max : {0}]

Poll == PollRecvRing \/ PollRecvCached \/ PollRecvWorker \/ PollControl

Drain == DrainTake \/ DrainBody \/ DrainInvalidate \/ DrainCopy \/ DrainPublish

Next ==
    \/ \E h \in Handles : Arrive(h) \/ \E how \in {"fin", "rst"} : PeerEnds(h, how)
    \/ \E c \in Calls : Call(c)
    \/ GiveUp
    \/ Poll
    \/ PollOther
    \/ Drain
    \/ Pump

Spec == Init /\ [][Next]_vars

-------------------------------------------------------------------------------
(* What follows is about the bytes.  Bytes(h, i, n): n bytes of the        *)
(* connection on h, the first of them its i-th.                            *)

Bytes(h, i, n) == [k \in 1..n |-> <<net[h].gen, i + k - 1>>]

(* What the host has read of a connection is the beginning of what the     *)
(* peer sent on it: no gap, no byte twice, none of an earlier connection   *)
(* that used the handle, whatever replies were lost and calls abandoned    *)
(* (handle_sock_recv, cc3501e_hw_sock_recv_ring, handle_sock_close).       *)
StreamIntact ==
    \A h \in Handles : got[h] = Bytes(h, 1, Len(got[h]))

(* A byte leaves the prefetch ring only when the host has accepted it: the *)
(* ring and lwIP hold the end of the stream, and all that is missing from  *)
(* them, and at most the uncommitted bytes more, the host has              *)
(* (sock_recv_commit).                                                     *)
RingKeepsUnread ==
    \A h \in Handles \ host.shut :
        ring.owner = h =>
            LET held == ring.buf \o net[h].unread
                gone == net[h].sent - Len(held)
            IN /\ held = Bytes(h, gone + 1, Len(held))
               /\ Len(got[h]) \in gone..(gone + ring.unc)

(* A byte the worker fallback took from lwIP is with the host, still with  *)
(* the drain, or in the completion cache under the key of the recv the     *)
(* host is going to repeat (protocol_sock_recv_worker_publish).            *)
FallbackKeepsUnread ==
    \A h \in Handles \ host.shut :
        (net[h].open /\ ring.owner # h) =>
            LET here == Len(got[h]) + Len(net[h].unread)
                mine(c) == c.op = Recv /\ c.h = h
            IN \/ here = net[h].sent
               \/ /\ slot.cmd = Recv /\ slot.req.h = h /\ jobSeq = host.rseq
                  /\ drain.pc \in {"ran", "copy", "publish"}
                  /\ here + Len(drain.buf) = net[h].sent
               \/ /\ cache.valid /\ cache.ok
                  /\ \E c \in {host.call, host.owed} :
                        mine(c) /\ cache.key = [seq |-> host.rseq, h |-> h, max |-> c.max]
                  /\ here + Len(cache.buf) = net[h].sent

(* On the ring path an empty OK answer to a recv that asked for bytes is   *)
(* the end of the stream: the peer closed in order and the host has every  *)
(* byte (sock_recv_ring_drained_status).                                   *)
EndIsEnd ==
    [][ (/\ host.call.op = Recv /\ host.call.max > 0 /\ ring.owner = host.call.h
         /\ host'.rseq # host.rseq /\ got' = got)
        => /\ net[host.call.h].end = "fin"
           /\ Len(got[host.call.h]) = net[host.call.h].sent ]_vars
===============================================================================
