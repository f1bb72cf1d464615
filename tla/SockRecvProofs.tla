------------------------------ MODULE SockRecvProofs ---------------------------
(***************************************************************************)
(* Proofs about SockRecv, for any sockets, ring size, chunk sizes and      *)
(* number of bytes.                                                        *)
(*                                                                         *)
(* None of the four properties is inductive.  The invariant IInv accounts  *)
(* for every byte a connection was sent.  Per handle, what the host has,   *)
(* what is on its way, and what lwIP still has are consecutive pieces of   *)
(* the connection, and together they are all of it:                        *)
(*   - on the ring path (RingSynced) what is on its way is the ring, and   *)
(*     the bytes served last are counted twice while the host has accepted *)
(*     them and the ring has not: then the next recv is a new one, which   *)
(*     commits them, or else it is the replay, which serves them again;    *)
(*   - on the fallback path (FallbackSynced) what is on its way is in the  *)
(*     drain's buffer from the body to the publish, and in the cache until *)
(*     the host has it (Limbo).                                            *)
(*                                                                         *)
(* ControlInv is what keeps the two apart: a recv in flight or cached is   *)
(* of a socket the ring does not own, and is one the host will ask for     *)
(* again (HostInv, JobInv, CloseInv, RecvInv, CacheInv).  It needs two     *)
(* values of the recv's sequence number: with one, an answered recv would  *)
(* be answered again from the cache.                                       *)
(***************************************************************************)
EXTENDS SockRecv, TLAPS

Byte == Nat \X Nat
Ends == {"open", "fin", "rst"}
AnyCall == Calls \cup {NoCall}
Keys == [seq : Nat, h : {0} \cup Handles, max : Nat]

Conns == [open : BOOLEAN, gen : Nat, sent : Nat, unread : Seq(Byte), end : Ends, eof : BOOLEAN]
Rings == [owner : {0} \cup Handles, buf : Seq(Byte), unc : Nat, end : Ends]
Slots == [st : W!SlotStates, cmd : {"none", Recv, Connect, Close, Other}, req : AnyCall,
          seq : {0} \cup Handles, res : Seq(Byte)]
Caches == [valid : BOOLEAN, key : Keys, ok : BOOLEAN, buf : Seq(Byte)]
Drains == [pc : {"sleep", "taken", "ran", "copy", "publish"}, ok : BOOLEAN, buf : Seq(Byte)]
Hosts == [call : AnyCall, owed : AnyCall, rseq : 1 .. RecvSeqs, shut : SUBSET Handles,
          conns : [Handles -> Nat]]

TypeInv ==
    /\ net \in [Handles -> Conns] /\ ring \in Rings /\ slot \in Slots /\ jobSeq \in Nat
    /\ cache \in Caches /\ last \in Keys /\ drain \in Drains /\ host \in Hosts
    /\ got \in [Handles -> Seq(Byte)]

(* The host is going to repeat the recv of max bytes on h. *)
Pending(h, max) == [op |-> Recv, h |-> h, max |-> max] \in {host.call, host.owed}

BeforeBody == slot.st = "QUEUED" \/ drain.pc = "taken"
AfterBody == drain.pc \in {"ran", "copy", "publish"}

(* The host's own discipline, and its effect: what it is reading is open   *)
(* and not asked to be closed.                                             *)
HostInv ==
    /\ host.call.op = Recv => /\ host.owed \in {NoCall, host.call}
                              /\ net[host.call.h].open /\ host.call.h \notin host.shut
    /\ host.call.op = Close => host.call.h \in host.shut
    /\ host.owed # NoCall => host.owed.op = Recv

(* A running job is the drain's; a job is for the call it was submitted on.*)
JobInv ==
    /\ slot.st = "RUNNING" <=> drain.pc # "sleep"
    /\ drain.pc \in {"copy", "publish"} => slot.cmd = Recv
    /\ W!InFlight(slot) /\ slot.cmd # Other => slot.req \in Calls /\ slot.req.op = slot.cmd

(* A queued close is for a handle the host no longer reads, and the cache  *)
(* has nothing of that handle.                                             *)
CloseInv ==
    BeforeBody /\ slot.cmd = Close =>
        /\ slot.req.h \in host.shut \/ ~net[slot.req.h].open
        /\ ~(cache.valid /\ cache.key.h = slot.req.h)

(* A recv job in flight: its socket is open and not the ring's, the cache  *)
(* is empty, and unless the host gave the handle up it will ask again.     *)
RecvInv ==
    W!InFlight(slot) /\ slot.cmd = Recv =>
        /\ net[slot.req.h].open /\ ring.owner # slot.req.h /\ ~cache.valid
        /\ slot.req.h \notin host.shut =>
              jobSeq = host.rseq /\ Pending(slot.req.h, slot.req.max)
        /\ AfterBody /\ ~drain.ok => drain.buf = << >>
        /\ drain.pc = "publish" /\ drain.ok => cache.buf = drain.buf

(* A cached answer: its socket is open and not the ring's, and the recv it *)
(* answers is the host's next, or has been answered, or failed.            *)
CacheInv ==
    cache.valid =>
        /\ cache.key.h \in Handles /\ net[cache.key.h].open /\ ring.owner # cache.key.h
        /\ cache.ok /\ cache.key.seq = host.rseq /\ cache.key.h \notin host.shut =>
              Pending(cache.key.h, cache.key.max)

ControlInv == HostInv /\ JobInv /\ CloseInv /\ RecvInv /\ CacheInv

(* q is a piece of connection g: the bytes after position at. *)
After(g, at, q) == \A k \in 1 .. Len(q) : q[k] = <<g, at + k>>

(* What the host has of a connection, and what lwIP has, are its beginning *)
(* and its end.                                                            *)
Streamed(c, g) ==
    /\ After(c.gen, 0, g)
    /\ Len(c.unread) <= c.sent /\ After(c.gen, c.sent - Len(c.unread), c.unread)

(* What the ring holds comes right before what lwIP has.  It latches the   *)
(* end of the stream when nothing is left to read.                         *)
RingPiece(c, r) ==
    /\ r.unc <= Len(r.buf)
    /\ Len(r.buf) + Len(c.unread) <= c.sent
    /\ After(c.gen, c.sent - Len(c.unread) - Len(r.buf), r.buf)
    /\ r.end # "open" => c.end = r.end /\ c.unread = << >>

(* The host has accepted what the ring served last, and its next recv is a *)
(* new one; or it has not, and its next recv is a replay.                  *)
RingSynced(h) ==
    LET have == Len(got[h]) + Len(ring.buf) + Len(net[h].unread) IN
    \/ /\ have = net[h].sent + ring.unc
       /\ ring.unc = 0 \/ last.seq # host.rseq \/ last.h # h
    \/ /\ have = net[h].sent /\ ring.unc > 0
       /\ last.seq = host.rseq /\ last.h = h /\ Pending(h, last.max)

(* The bytes of h that have left lwIP and not reached the host. *)
Limbo(h) ==
    IF slot.cmd = Recv /\ slot.req.h = h /\ AfterBody THEN drain.buf
    ELSE IF cache.valid /\ cache.ok /\ cache.key.h = h /\ cache.key.seq = host.rseq THEN cache.buf
    ELSE << >>

FallbackSynced(h) ==
    /\ After(net[h].gen, Len(got[h]), Limbo(h))
    /\ Len(got[h]) + Len(Limbo(h)) + Len(net[h].unread) = net[h].sent

StreamInv(h) ==
    /\ Streamed(net[h], got[h])
    /\ ring.owner = h => net[h].open /\ RingPiece(net[h], ring)
    /\ ring.owner = h /\ h \notin host.shut => RingSynced(h)
    /\ ring.owner # h /\ net[h].open /\ h \notin host.shut => FallbackSynced(h)

IInv == TypeInv /\ ControlInv /\ \A h \in Handles : StreamInv(h)

-------------------------------------------------------------------------------
(* Pieces of a stream. *)

(* The first n entries of a sequence, and the rest. *)
LEMMA TakeDrop ==
    ASSUME NEW S, NEW s \in Seq(S), NEW n \in 0 .. Len(s)
    PROVE  /\ Take(s, n) \in Seq(S) /\ Len(Take(s, n)) = n
           /\ \A k \in 1 .. n : Take(s, n)[k] = s[k]
           /\ Drop(s, n) \in Seq(S) /\ Len(Drop(s, n)) = Len(s) - n
           /\ \A k \in 1 .. Len(s) - n : Drop(s, n)[k] = s[n + k]
  BY DEF Take, Drop

(* Two sequences put together. *)
LEMMA Joined ==
    ASSUME NEW S, NEW s \in Seq(S), NEW t \in Seq(S)
    PROVE  /\ s \o t \in Seq(S)
           /\ Len(s \o t) = Len(s) + Len(t)
           /\ \A k \in 1 .. Len(s) : (s \o t)[k] = s[k]
           /\ \A k \in 1 .. Len(t) : (s \o t)[Len(s) + k] = t[k]
  OBVIOUS

(* The empty piece is a piece of anything. *)
LEMMA AfterEmpty == ASSUME NEW g, NEW at \in Nat PROVE After(g, at, << >>)
  BY DEF After

(* A piece cut in two. *)
LEMMA AfterCut ==
    ASSUME NEW g, NEW at \in Nat, NEW q \in Seq(Byte), After(g, at, q), NEW n \in 0 .. Len(q)
    PROVE  /\ Take(q, n) \in Seq(Byte) /\ Len(Take(q, n)) = n /\ After(g, at, Take(q, n))
           /\ Drop(q, n) \in Seq(Byte) /\ Len(Drop(q, n)) = Len(q) - n
           /\ After(g, at + n, Drop(q, n))
  <1>1. PICK l \in Nat : l = Len(q)
    OBVIOUS
  <1>2. n \in 0 .. l
    BY <1>1
  <1>3. /\ Take(q, n) \in Seq(Byte) /\ Len(Take(q, n)) = n
        /\ \A k \in 1 .. n : Take(q, n)[k] = q[k]
        /\ Drop(q, n) \in Seq(Byte) /\ Len(Drop(q, n)) = l - n
        /\ \A k \in 1 .. l - n : Drop(q, n)[k] = q[n + k]
    BY <1>1, TakeDrop
  <1>4. \A k \in 1 .. l : q[k] = <<g, at + k>>
    BY <1>1 DEF After
  <1>5. After(g, at, Take(q, n))
    <2>1. \A k \in 1 .. n : k \in 1 .. l
      BY <1>2
    <2>2. \A k \in 1 .. n : Take(q, n)[k] = <<g, at + k>>
      BY <1>3, <1>4, <2>1, Zenon
    <2> QED
      BY <1>3, <2>2 DEF After
  <1>6. ASSUME NEW k \in 1 .. l - n PROVE Drop(q, n)[k] = <<g, at + n + k>>
    <2>1. n + k \in 1 .. l /\ at + (n + k) = at + n + k
      BY <1>2
    <2>2. q[n + k] = <<g, at + (n + k)>>
      BY <1>4, <2>1
    <2> QED
      BY <1>3, <2>1, <2>2
  <1>7. After(g, at + n, Drop(q, n))
    BY <1>3, <1>6 DEF After
  <1> QED
    BY <1>1, <1>3, <1>5, <1>7

(* A piece and the one that follows it. *)
LEMMA AfterJoin ==
    ASSUME NEW g, NEW at \in Nat, NEW p \in Seq(Byte), NEW q \in Seq(Byte),
           After(g, at, p), After(g, at + Len(p), q)
    PROVE  p \o q \in Seq(Byte) /\ Len(p \o q) = Len(p) + Len(q) /\ After(g, at, p \o q)
  <1>1. PICK l \in Nat, m \in Nat : l = Len(p) /\ m = Len(q)
    OBVIOUS
  <1>2. /\ p \o q \in Seq(Byte) /\ Len(p \o q) = l + m
        /\ \A k \in 1 .. l : (p \o q)[k] = p[k]
        /\ \A k \in 1 .. m : (p \o q)[l + k] = q[k]
    BY <1>1, Joined
  <1>3. (\A k \in 1 .. l : p[k] = <<g, at + k>>) /\ (\A k \in 1 .. m : q[k] = <<g, at + l + k>>)
    BY <1>1 DEF After
  <1>4. ASSUME NEW k \in 1 .. l + m PROVE (p \o q)[k] = <<g, at + k>>
    <2>0. k <= l \/ k > l
      OBVIOUS
    <2>1. CASE k <= l
      <3>1. k \in 1 .. l
        BY <2>1
      <3> QED
        BY <1>2, <1>3, <3>1, Zenon
    <2>2. CASE k > l
      <3>1. k - l \in 1 .. m /\ k = l + (k - l) /\ at + l + (k - l) = at + k
        BY <2>2
      <3>2. (p \o q)[l + (k - l)] = q[k - l] /\ q[k - l] = <<g, at + l + (k - l)>>
        BY <1>2, <1>3, <3>1
      <3> QED
        BY <3>1, <3>2, Zenon
    <2> QED
      BY <2>0, <2>1, <2>2, Zenon
  <1> QED
    BY <1>1, <1>2, <1>4, Zenon DEF After

(* A piece has a length. *)
LEMMA LenNat == ASSUME NEW q \in Seq(Byte) PROVE Len(q) \in Nat
  OBVIOUS

(* A piece of length zero is empty. *)
LEMMA LenZero == ASSUME NEW q \in Seq(Byte) PROVE Len(q) = 0 <=> q = << >>
  OBVIOUS

(* One more byte. *)
LEMMA AfterAppend ==
    ASSUME NEW g \in Nat, NEW at \in Nat, NEW q \in Seq(Byte), After(g, at, q),
           NEW i \in Nat, i = at + Len(q) + 1
    PROVE  /\ Append(q, <<g, i>>) \in Seq(Byte) /\ Len(Append(q, <<g, i>>)) = Len(q) + 1
           /\ After(g, at, Append(q, <<g, i>>))
  <1>1. PICK l \in Nat : l = Len(q)
    OBVIOUS
  <1>2. <<g, i>> \in Byte
    BY DEF Byte
  <1>3. /\ Append(q, <<g, i>>) \in Seq(Byte) /\ Len(Append(q, <<g, i>>)) = l + 1
        /\ \A k \in 1 .. l : Append(q, <<g, i>>)[k] = q[k]
        /\ Append(q, <<g, i>>)[l + 1] = <<g, i>>
    BY <1>1, <1>2
  <1>4. \A k \in 1 .. l : q[k] = <<g, at + k>>
    BY <1>1 DEF After
  <1>5. ASSUME NEW k \in 1 .. l + 1 PROVE Append(q, <<g, i>>)[k] = <<g, at + k>>
    <2>0. k \in 1 .. l \/ k = l + 1
      OBVIOUS
    <2>1. CASE k \in 1 .. l
      BY <1>3, <1>4, <2>1
    <2>2. CASE k = l + 1
      <3>1. at + k = i
        BY <1>1, <2>2
      <3> QED
        BY <1>3, <2>2, <3>1
    <2> QED
      BY <2>0, <2>1, <2>2, Zenon
  <1> QED
    BY <1>1, <1>3, <1>5, Zenon DEF After

(* The next recv seq is another one. *)
LEMMA NextSeq ==
    ASSUME NEW n \in 1 .. RecvSeqs
    PROVE  (n % RecvSeqs) + 1 \in 1 .. RecvSeqs /\ (n % RecvSeqs) + 1 # n
  <1>1. RecvSeqs \in Nat /\ RecvSeqs > 1
    BY RecvAssumption
  <1>2. CASE n = RecvSeqs
    BY <1>1, <1>2
  <1>3. CASE n < RecvSeqs
    <2>1. n % RecvSeqs = n
      BY <1>1, <1>3
    <2> QED
      BY <1>1, <1>3, <2>1
  <1> QED
    BY <1>1, <1>2, <1>3

-------------------------------------------------------------------------------
(* The peer and the pump. *)

(* A step that moves or adds bytes keeps the control part. *)
LEMMA ControlFrame ==
    ASSUME TypeInv, ControlInv, net' \in [Handles -> Conns],
           \A h \in Handles : net'[h].open = net[h].open,
           ring'.owner = ring.owner, UNCHANGED <<slot, jobSeq, cache, drain, host>>
    PROVE  ControlInv'
  <1> USE DEF Pending, BeforeBody, AfterBody, W!InFlight
  <1>1. host.call.op = Recv \/ host.call.op = Close => host.call.h \in Handles
    BY DEF TypeInv, Hosts, AnyCall, NoCall, Calls, Recv, Close
  <1>2. HostInv'
    BY <1>1 DEF ControlInv, HostInv
  <1>3. JobInv'
    BY DEF ControlInv, JobInv
  <1>4. W!InFlight(slot) /\ slot.cmd # Other => slot.req.h \in Handles
    BY DEF ControlInv, JobInv, Calls
  <1>5. CloseInv'
    BY <1>4 DEF ControlInv, CloseInv, JobInv, Close, Other
  <1>6. RecvInv'
    BY <1>4 DEF ControlInv, RecvInv, Recv, Other
  <1>7. CacheInv'
    BY DEF ControlInv, CacheInv
  <1> QED
    BY <1>2, <1>3, <1>5, <1>6, <1>7 DEF ControlInv

(* What belongs to no changed part of the state stays. *)
LEMMA StreamFrame ==
    ASSUME NEW h \in Handles, StreamInv(h),
           net'[h] = net[h], got'[h] = got[h], ring' = ring,
           net[h].open /\ h \notin host'.shut => h \notin host.shut,
           ring.owner = h /\ h \notin host'.shut /\ RingSynced(h) => RingSynced(h)',
           net[h].open /\ ring.owner # h /\ h \notin host'.shut => Limbo(h)' = Limbo(h)
    PROVE  StreamInv(h)'
  <1>1. Streamed(net'[h], got'[h])
    BY DEF StreamInv
  <1>2. ring'.owner = h => net'[h].open /\ RingPiece(net'[h], ring')
    BY DEF StreamInv
  <1>3. ring'.owner = h /\ h \notin host'.shut => RingSynced(h)'
    BY DEF StreamInv
  <1>4. ring'.owner # h /\ net'[h].open /\ h \notin host'.shut => FallbackSynced(h)'
    BY Zenon DEF StreamInv, FallbackSynced
  <1> QED
    BY <1>1, <1>2, <1>3, <1>4 DEF StreamInv

(* The synchronisation of ring and host depends on three sums. *)
LEMMA RingSyncedFrame ==
    ASSUME NEW h \in Handles, RingSynced(h), got' = got, last' = last, host' = host,
           ring'.unc = ring.unc,
           Len(ring'.buf) + Len(net'[h].unread) - net'[h].sent
               = Len(ring.buf) + Len(net[h].unread) - net[h].sent,
           TypeInv, TypeInv'
    PROVE  RingSynced(h)'
  <1>1. PICK g \in Nat, b \in Nat, u \in Nat, s \in Nat, n \in Nat :
            /\ g = Len(got[h]) /\ b = Len(ring.buf) /\ u = Len(net[h].unread)
            /\ s = net[h].sent /\ n = ring.unc
    <2>1. got[h] \in Seq(Byte) /\ ring.buf \in Seq(Byte) /\ ring.unc \in Nat
      BY DEF TypeInv, Rings
    <2>2. net[h] \in Conns
      BY DEF TypeInv
    <2>3. net[h].unread \in Seq(Byte) /\ net[h].sent \in Nat
      BY <2>2 DEF Conns
    <2> QED
      BY <2>1, <2>3, LenNat, Zenon
  <1>2. PICK b1 \in Nat, u1 \in Nat, s1 \in Nat :
            b1 = Len(ring'.buf) /\ u1 = Len(net'[h].unread) /\ s1 = net'[h].sent
    BY DEF TypeInv, Conns, Rings
  <1>3. b1 + u1 - s1 = b + u - s
    BY <1>1, <1>2
  <1>4. (g + b + u = s + n => g + b1 + u1 = s1 + n) /\ (g + b + u = s => g + b1 + u1 = s1)
    BY <1>3
  <1> QED
    BY <1>1, <1>2, <1>4, Zenon DEF RingSynced, Pending

(* A byte arrives at the end of what lwIP holds. *)
LEMMA ArriveInv ==
    ASSUME IInv, NEW a \in Handles, Arrive(a)
    PROVE  IInv'
  <1>0. TypeInv /\ ControlInv /\ \A h \in Handles : StreamInv(h)
    BY DEF IInv
  <1>1. /\ net' = [net EXCEPT ![a].sent = @ + 1,
                              ![a].unread = Append(@, <<net[a].gen, net[a].sent + 1>>)]
        /\ net[a].open /\ net[a].end = "open"
        /\ UNCHANGED <<ring, slot, jobSeq, cache, last, drain, host, got>>
    BY DEF Arrive
  <1> DEFINE c == net[a]
             q == Append(c.unread, <<c.gen, c.sent + 1>>)
  <1>2. c \in Conns /\ c.gen \in Nat /\ c.sent \in Nat /\ c.unread \in Seq(Byte)
    BY <1>0 DEF TypeInv, Conns
  <1>3. Len(c.unread) <= c.sent /\ After(c.gen, c.sent - Len(c.unread), c.unread)
    BY <1>0 DEF StreamInv, Streamed
  <1>4. q \in Seq(Byte) /\ Len(q) = Len(c.unread) + 1 /\ After(c.gen, c.sent - Len(c.unread), q)
    <2>1. PICK u \in Nat, s \in Nat : u = Len(c.unread) /\ s = c.sent /\ u <= s
      BY <1>2, <1>3
    <2>2. s - u \in Nat /\ s + 1 \in Nat /\ s + 1 = (s - u) + u + 1
      BY <2>1
    <2> HIDE DEF c
    <2> QED
      BY <1>2, <1>3, <2>1, <2>2, AfterAppend
  <1> HIDE DEF q
  <1>5. /\ net' \in [Handles -> Conns]
        /\ \A h \in Handles : h # a => net'[h] = net[h]
        /\ net'[a].sent = c.sent + 1 /\ net'[a].unread = q /\ net'[a].gen = c.gen
        /\ net'[a].open = c.open /\ net'[a].end = c.end
    <2> DEFINE d == [c EXCEPT !.sent = @ + 1, !.unread = q]
    <2>1. /\ d \in Conns /\ d.sent = c.sent + 1 /\ d.unread = q /\ d.gen = c.gen
          /\ d.open = c.open /\ d.end = c.end
      <3> HIDE DEF c
      <3>1. c.sent + 1 \in Nat
        BY <1>2
      <3> QED
        BY <1>2, <1>4, <3>1, Zenon DEF Conns
    <2>2. net' = [net EXCEPT ![a] = d]
      BY <1>1, Zenon DEF q
    <2> HIDE DEF d, c
    <2> QED
      BY <1>0, <2>1, <2>2 DEF TypeInv
  <1>6. TypeInv'
    BY <1>0, <1>1, <1>5 DEF TypeInv
  <1>7. ControlInv'
    BY <1>0, <1>1, <1>5, ControlFrame
  <1>8. \A h \in Handles : h # a => StreamInv(h)'
    BY <1>0, <1>1, <1>5, StreamFrame, Zenon DEF RingSynced, Limbo, Pending, AfterBody
  <1>9. StreamInv(a)'
    <2>1. PICK u \in Nat, s \in Nat, b \in Nat, g \in Nat, m \in Nat :
              /\ u = Len(c.unread) /\ s = c.sent /\ b = Len(ring.buf)
              /\ g = Len(got[a]) /\ u <= s /\ m = Len(Limbo(a))
      <3>1. Limbo(a) \in Seq(Byte)
        BY <1>0 DEF TypeInv, Limbo, Drains, Caches
      <3>2. ring.buf \in Seq(Byte) /\ got[a] \in Seq(Byte)
        BY <1>0 DEF TypeInv, Rings
      <3>3. c.unread \in Seq(Byte) /\ c.sent \in Nat /\ Len(c.unread) <= c.sent
        BY <1>2, <1>3
      <3> QED
        BY <3>1, <3>2, <3>3, LenNat, Zenon
    <2>2. /\ net'[a].sent = s + 1 /\ Len(net'[a].unread) = u + 1
      BY <1>4, <1>5, <2>1
    <2>3. /\ u + 1 <= s + 1 /\ (s + 1) - (u + 1) = s - u
          /\ (b + u <= s => b + (u + 1) <= s + 1)
          /\ (g + m + u = s => g + m + (u + 1) = s + 1)
          /\ b + (u + 1) - (s + 1) = b + u - s
      <3>1. u + 1 <= s + 1 /\ (s + 1) - (u + 1) = s - u
        <4>1. u <= s
          BY <2>1, Zenon
        <4> QED
          BY <4>1
      <3>2. (b + u <= s => b + (u + 1) <= s + 1)
        OBVIOUS
      <3>3. (g + m + u = s => g + m + (u + 1) = s + 1)
        OBVIOUS
      <3>4. b + (u + 1) - (s + 1) = b + u - s
        OBVIOUS
      <3> QED
        BY <3>1, <3>2, <3>3, <3>4
    <2>4. Streamed(net'[a], got'[a])
      <3>1. After(c.gen, 0, got[a])
        BY <1>0 DEF StreamInv, Streamed
      <3> QED
        BY <1>1, <1>4, <1>5, <2>1, <2>2, <2>3, <3>1, Zenon DEF Streamed
    <2>5. ring.owner = a => net'[a].open /\ RingPiece(net'[a], ring')
      <3> SUFFICES ASSUME ring.owner = a PROVE net'[a].open /\ RingPiece(net'[a], ring)
        BY <1>1
      <3>1. RingPiece(c, ring)
        BY <1>0 DEF StreamInv
      <3> QED
        BY <1>1, <1>5, <2>1, <2>2, <2>3, <3>1, Zenon DEF RingPiece
    <2>6. ring.owner = a /\ a \notin host.shut => RingSynced(a)'
      BY <1>0, <1>1, <1>6, <2>1, <2>2, <2>3, RingSyncedFrame, Zenon DEF StreamInv
    <2>7. ring.owner # a /\ a \notin host.shut => FallbackSynced(a)'
      <3> SUFFICES ASSUME ring.owner # a, a \notin host.shut PROVE FallbackSynced(a)'
        OBVIOUS
      <3>1. FallbackSynced(a)
        BY <1>0, <1>1 DEF StreamInv
      <3>2. Limbo(a)' = Limbo(a)
        BY <1>1 DEF Limbo, AfterBody
      <3> QED
        BY <1>1, <1>5, <2>1, <2>2, <2>3, <3>1, <3>2, Zenon DEF FallbackSynced
    <2> QED
      BY <1>1, <2>4, <2>5, <2>6, <2>7 DEF StreamInv
  <1> QED
    BY <1>6, <1>7, <1>8, <1>9 DEF IInv

(* The peer's end of the connection moves no byte. *)
LEMMA PeerEndsInv ==
    ASSUME IInv, NEW a \in Handles, NEW how \in {"fin", "rst"}, PeerEnds(a, how)
    PROVE  IInv'
  <1>0. TypeInv /\ ControlInv /\ \A h \in Handles : StreamInv(h)
    BY DEF IInv
  <1>1. /\ net' = [net EXCEPT ![a].end = how] /\ net[a].end = "open"
        /\ UNCHANGED <<ring, slot, jobSeq, cache, last, drain, host, got>>
    BY DEF PeerEnds
  <1>2. /\ net' \in [Handles -> Conns]
        /\ \A h \in Handles :
              /\ h # a => net'[h] = net[h]
              /\ net'[h].open = net[h].open /\ net'[h].gen = net[h].gen
              /\ net'[h].sent = net[h].sent /\ net'[h].unread = net[h].unread
    BY <1>0, <1>1, Zenon DEF TypeInv, Conns, Ends
  <1>3. TypeInv'
    BY <1>0, <1>1, <1>2 DEF TypeInv
  <1>4. ControlInv'
    BY <1>0, <1>1, <1>2, ControlFrame
  <1>5. ASSUME NEW h \in Handles PROVE StreamInv(h)'
    <2>1. StreamInv(h)
      BY <1>0
    <2>2. RingSynced(h) => RingSynced(h)'
      BY <1>1, <1>2, Zenon DEF RingSynced, Pending
    <2>3. FallbackSynced(h) => FallbackSynced(h)'
      BY <1>1, <1>2, Zenon DEF FallbackSynced, Limbo, AfterBody
    <2>4. Streamed(net[h], got[h]) => Streamed(net'[h], got'[h])
      BY <1>1, <1>2 DEF Streamed
    <2>5. RingPiece(net[h], ring) => RingPiece(net'[h], ring')
      BY <1>1, <1>2, Zenon DEF RingPiece
    <2> QED
      BY <1>1, <1>2, <2>1, <2>2, <2>3, <2>4, <2>5 DEF StreamInv
  <1> QED
    BY <1>3, <1>4, <1>5 DEF IInv

(* lwIP after a read of k bytes, and the ring that takes them. *)
ReadOff(c, k) == [c EXCEPT !.unread = Drop(@, k)]
Fed(r, c, k) == [r EXCEPT !.buf = @ \o Take(c.unread, k)]

(* A read of lwIP: the bytes taken follow what the host and the ring have. *)
LEMMA UnreadCut ==
    ASSUME NEW c \in Conns, NEW g \in Seq(Byte), Streamed(c, g), NEW k \in 0 .. Len(c.unread)
    PROVE  /\ ReadOff(c, k) \in Conns /\ ReadOff(c, k).open = c.open /\ ReadOff(c, k).gen = c.gen
           /\ ReadOff(c, k).sent = c.sent /\ ReadOff(c, k).end = c.end
           /\ Len(ReadOff(c, k).unread) = Len(c.unread) - k
           /\ Streamed(ReadOff(c, k), g)
           /\ Take(c.unread, k) \in Seq(Byte) /\ Len(Take(c.unread, k)) = k
           /\ After(c.gen, c.sent - Len(c.unread), Take(c.unread, k))
  <1> DEFINE d == ReadOff(c, k)
  <1>1. c.unread \in Seq(Byte) /\ c.gen \in Nat /\ c.sent \in Nat
    BY DEF Conns
  <1>2. PICK u \in Nat, s \in Nat : u = Len(c.unread) /\ s = c.sent /\ u <= s
    BY <1>1 DEF Streamed
  <1>3. s - u \in Nat /\ k \in 0 .. u /\ u - k <= s /\ s - (u - k) = (s - u) + k
    <2>1. k \in 0 .. u /\ u <= s
      BY <1>2
    <2> QED
      BY <2>1
  <1>4. After(c.gen, s - u, c.unread)
    BY <1>2 DEF Streamed
  <1>5. /\ Take(c.unread, k) \in Seq(Byte) /\ Len(Take(c.unread, k)) = k
        /\ After(c.gen, s - u, Take(c.unread, k))
        /\ Drop(c.unread, k) \in Seq(Byte) /\ Len(Drop(c.unread, k)) = u - k
        /\ After(c.gen, (s - u) + k, Drop(c.unread, k))
    <2>1. PICK at \in Nat : at = s - u
      BY <1>3
    <2>2. After(c.gen, at, c.unread)
      BY <1>4, <2>1
    <2>3. /\ Take(c.unread, k) \in Seq(Byte) /\ Len(Take(c.unread, k)) = k
          /\ After(c.gen, at, Take(c.unread, k))
          /\ Drop(c.unread, k) \in Seq(Byte) /\ Len(Drop(c.unread, k)) = Len(c.unread) - k
          /\ After(c.gen, at + k, Drop(c.unread, k))
      BY <1>1, <2>2, AfterCut
    <2> QED
      BY <1>2, <2>1, <2>3
  <1>6. /\ d \in Conns /\ d.open = c.open /\ d.gen = c.gen /\ d.sent = c.sent
        /\ d.end = c.end /\ d.unread = Drop(c.unread, k)
    BY <1>5, Zenon DEF Conns, ReadOff
  <1> HIDE DEF d
  <1>7. Streamed(d, g)
    <2>1. After(c.gen, 0, g)
      BY DEF Streamed
    <2> QED
      BY <1>2, <1>3, <1>5, <1>6, <2>1 DEF Streamed
  <1> QED
    BY <1>2, <1>5, <1>6, <1>7 DEF d

(* What the pump reads goes behind what the ring holds. *)
LEMMA RingFed ==
    ASSUME NEW c \in Conns, NEW g \in Seq(Byte), Streamed(c, g), NEW k \in 0 .. Len(c.unread),
           NEW r \in Rings, RingPiece(c, r), r.end = "open"
    PROVE  /\ Fed(r, c, k) \in Rings /\ Fed(r, c, k).owner = r.owner /\ Fed(r, c, k).unc = r.unc
           /\ Fed(r, c, k).end = r.end
           /\ Len(Fed(r, c, k).buf) = Len(r.buf) + k
           /\ RingPiece(ReadOff(c, k), Fed(r, c, k))
  <1> DEFINE d == ReadOff(c, k)
             t == Fed(r, c, k)
  <1>1. /\ d.gen = c.gen /\ d.sent = c.sent /\ Len(d.unread) = Len(c.unread) - k
        /\ Take(c.unread, k) \in Seq(Byte) /\ Len(Take(c.unread, k)) = k
        /\ After(c.gen, c.sent - Len(c.unread), Take(c.unread, k))
    BY UnreadCut
  <1>2. PICK u \in Nat, s \in Nat, b \in Nat, n \in Nat :
            /\ u = Len(c.unread) /\ s = c.sent /\ b = Len(r.buf) /\ n = r.unc
            /\ b + u <= s /\ n <= b
    <2>1. c.unread \in Seq(Byte) /\ c.sent \in Nat /\ r.buf \in Seq(Byte) /\ r.unc \in Nat
      BY DEF Conns, Rings
    <2>2. Len(c.unread) \in Nat /\ Len(r.buf) \in Nat
      BY <2>1
    <2> QED
      BY <2>1, <2>2, Zenon DEF RingPiece
  <1>3. /\ (s - u) - b \in Nat /\ k \in Nat /\ ((s - u) - b) + b = s - u
        /\ (b + k) + (u - k) <= s /\ (s - (u - k)) - (b + k) = (s - u) - b /\ n <= b + k
    <2>1. k \in 0 .. u /\ b + u <= s /\ n <= b
      BY <1>2, Zenon
    <2>2. (s - u) - b \in Nat /\ k \in Nat /\ ((s - u) - b) + b = s - u
      BY <2>1
    <2>3. (b + k) + (u - k) <= s
      BY <2>1
    <2>4. (s - (u - k)) - (b + k) = (s - u) - b
      BY <2>1
    <2>5. n <= b + k
      BY <2>1
    <2> QED
      BY <2>2, <2>3, <2>4, <2>5
  <1>4. After(c.gen, (s - u) - b, r.buf) /\ After(c.gen, s - u, Take(c.unread, k))
    BY <1>1, <1>2 DEF RingPiece
  <1>5. r.buf \in Seq(Byte)
    BY DEF Rings
  <1>6. /\ r.buf \o Take(c.unread, k) \in Seq(Byte)
        /\ Len(r.buf \o Take(c.unread, k)) = b + k
        /\ After(c.gen, (s - u) - b, r.buf \o Take(c.unread, k))
    <2>1. /\ (s - u) - b \in Nat /\ Take(c.unread, k) \in Seq(Byte)
          /\ After(c.gen, ((s - u) - b) + Len(r.buf), Take(c.unread, k))
      BY <1>1, <1>2, <1>3, <1>4
    <2>2. /\ r.buf \o Take(c.unread, k) \in Seq(Byte)
          /\ Len(r.buf \o Take(c.unread, k)) = Len(r.buf) + Len(Take(c.unread, k))
          /\ After(c.gen, (s - u) - b, r.buf \o Take(c.unread, k))
      BY <1>4, <1>5, <2>1, AfterJoin
    <2> QED
      BY <1>1, <1>2, <2>2
  <1>7. /\ t \in Rings /\ t.owner = r.owner /\ t.unc = r.unc /\ t.end = r.end
        /\ t.buf = r.buf \o Take(c.unread, k)
    BY <1>6, Zenon DEF Rings, Fed
  <1> HIDE DEF d, t
  <1>8. RingPiece(d, t)
    BY <1>1, <1>2, <1>3, <1>6, <1>7, Zenon DEF RingPiece
  <1> QED
    BY <1>2, <1>6, <1>7, <1>8, Zenon DEF d, t

(* cc3501e_hw_sock_pump moves bytes from lwIP to the ring, or latches the  *)
(* end of the stream.                                                      *)
LEMMA PumpInv == IInv /\ Pump => IInv'
  <1> SUFFICES ASSUME IInv, Pump PROVE IInv'
    OBVIOUS
  <1>0. TypeInv /\ ControlInv /\ \A h \in Handles : StreamInv(h)
    BY DEF IInv
  <1>1. PICK a \in Handles : ring.owner = a
    BY <1>0 DEF Pump, TypeInv, Rings
  <1>2. UNCHANGED <<slot, jobSeq, cache, last, drain, host, got>> /\ ring.end = "open"
    BY DEF Pump
  <1>3. net[a] \in Conns /\ ring \in Rings /\ got[a] \in Seq(Byte) /\ StreamInv(a)
    BY <1>0 DEF TypeInv
  <1>4. net[a].open /\ Streamed(net[a], got[a]) /\ RingPiece(net[a], ring)
    BY <1>1, <1>3 DEF StreamInv
  <1>5. \A h \in Handles : Limbo(h)' = Limbo(h)
    BY <1>2 DEF Limbo, AfterBody
  <1>6. CASE ring' = [ring EXCEPT !.end = net[a].end] /\ net' = net
             /\ net[a].unread = << >> /\ net[a].end # "open"
    <2>1. /\ ring' \in Rings /\ ring'.owner = a /\ ring'.buf = ring.buf /\ ring'.unc = ring.unc
          /\ ring'.end = net[a].end
      BY <1>1, <1>3, <1>6 DEF Rings, Conns
    <2>2. TypeInv'
      BY <1>0, <1>2, <1>6, <2>1 DEF TypeInv
    <2>3. ControlInv'
      BY <1>0, <1>1, <1>2, <1>6, <2>1, ControlFrame DEF TypeInv
    <2>4. \A h \in Handles : h # a => StreamInv(h)'
      BY <1>0, <1>1, <1>2, <1>5, <1>6, <2>1, Zenon DEF StreamInv, FallbackSynced
    <2>5. RingPiece(net[a], ring')
      BY <1>4, <1>6, <2>1 DEF RingPiece
    <2>6. RingSynced(a) => RingSynced(a)'
      BY <1>2, <1>6, <2>1, Zenon DEF RingSynced, Pending
    <2>7. StreamInv(a)'
      BY <1>1, <1>2, <1>3, <1>4, <1>6, <2>1, <2>5, <2>6 DEF StreamInv
    <2> QED
      BY <2>2, <2>3, <2>4, <2>7 DEF IInv
  <1>7. ASSUME NEW k \in 0 .. Len(net[a].unread),
               ring' = [ring EXCEPT !.buf = @ \o Take(net[a].unread, k)],
               net' = [net EXCEPT ![a].unread = Drop(@, k)]
        PROVE  IInv'
    <2> DEFINE d == ReadOff(net[a], k)
    <2>1. net' = [net EXCEPT ![a] = d] /\ ring' = Fed(ring, net[a], k)
      BY <1>7 DEF ReadOff, Fed
    <2>2. /\ d \in Conns /\ d.open = net[a].open /\ d.gen = net[a].gen /\ d.sent = net[a].sent
          /\ d.end = net[a].end /\ Len(d.unread) = Len(net[a].unread) - k
          /\ Streamed(d, got[a])
      BY <1>3, <1>4, UnreadCut, ZenonT(30)
    <2>3. /\ ring' \in Rings /\ ring'.owner = ring.owner /\ ring'.unc = ring.unc
          /\ ring'.end = ring.end /\ Len(ring'.buf) = Len(ring.buf) + k
          /\ RingPiece(d, ring')
      BY <1>2, <1>3, <1>4, <2>1, RingFed
    <2> HIDE DEF d
    <2>4. net' \in [Handles -> Conns] /\ net'[a] = d /\ \A h \in Handles : h # a => net'[h] = net[h]
      BY <1>0, <2>1, <2>2 DEF TypeInv
    <2>5. TypeInv'
      BY <1>0, <1>2, <2>3, <2>4 DEF TypeInv
    <2>6. ControlInv'
      <3>1. \A h \in Handles : net'[h].open = net[h].open
        BY <2>2, <2>4
      <3> QED
        BY <1>0, <1>2, <2>3, <2>4, <3>1, ControlFrame
    <2>7. \A h \in Handles : h # a => StreamInv(h)'
      BY <1>0, <1>1, <1>2, <1>5, <2>3, <2>4, Zenon DEF StreamInv, FallbackSynced
    <2>8. RingSynced(a) => RingSynced(a)'
      <3>1. PICK u \in Nat, b \in Nat, s \in Nat :
                u = Len(net[a].unread) /\ b = Len(ring.buf) /\ s = net[a].sent
        <4>1. net[a].unread \in Seq(Byte) /\ net[a].sent \in Nat
          BY <1>3 DEF Conns
        <4>2. ring.buf \in Seq(Byte)
          BY <1>3 DEF Rings
        <4> QED
          BY <4>1, <4>2, LenNat, Zenon
      <3>2. k \in 0 .. u
        BY <3>1
      <3>3. (b + k) + (u - k) - s = b + u - s
        BY <3>2
      <3>4. Len(ring'.buf) + Len(net'[a].unread) - net'[a].sent
                = Len(ring.buf) + Len(net[a].unread) - net[a].sent
        BY <2>2, <2>3, <2>4, <3>1, <3>3, Zenon
      <3> QED
        BY <1>0, <1>2, <2>3, <2>5, <3>4, RingSyncedFrame
    <2>9. StreamInv(a)'
      BY <1>1, <1>2, <1>3, <1>4, <2>2, <2>3, <2>4, <2>8, Zenon DEF StreamInv
    <2> QED
      BY <2>5, <2>6, <2>7, <2>9 DEF IInv
  <1>8. \/ /\ ring' = [ring EXCEPT !.end = net[a].end] /\ net' = net
           /\ net[a].unread = << >> /\ net[a].end # "open"
        \/ \E k \in 0 .. Len(net[a].unread) :
              /\ ring' = [ring EXCEPT !.buf = @ \o Take(net[a].unread, k)]
              /\ net' = [net EXCEPT ![a].unread = Drop(@, k)]
    <2>1. Len(net[a].unread) \in Nat /\ Len(ring.buf) \in Nat
      BY <1>3 DEF Conns, Rings
    <2>2. ASSUME NEW n, n = MinOf(Len(net[a].unread), RingBytes - Len(ring.buf)), n > 0,
                 NEW k \in 1 .. n
          PROVE  k \in 0 .. Len(net[a].unread)
      BY <2>1, <2>2, RecvAssumption DEF MinOf
    <2> QED
      BY <1>1, <2>2, Zenon DEF Pump
  <1> QED
    BY <1>6, <1>7, <1>8, Zenon

-------------------------------------------------------------------------------
(* The host. *)

(* What a call is made of. *)
LEMMA CallFields ==
    ASSUME NEW c \in AnyCall
    PROVE  /\ c.op \in {"none", Recv, Connect, Close} /\ c.h \in {0} \cup Handles /\ c.max \in Nat
           /\ c.op # "none" => c \in Calls /\ c.h \in Handles
           /\ c.op = Recv => c = [op |-> Recv, h |-> c.h, max |-> c.max]
           /\ c.op = "none" <=> c = NoCall
  <1>1. CASE c = NoCall
    BY <1>1 DEF NoCall, Recv
  <1>2. CASE c \in Calls
    <2>1. /\ c.op \in {Recv, Connect, Close} /\ c.h \in Handles /\ c.max \in Lens \cup {0}
          /\ c.op = Recv => c = [op |-> Recv, h |-> c.h, max |-> c.max]
      BY <1>2 DEF Calls, Recv, Connect, Close
    <2>2. c.op # "none"
      BY <2>1 DEF Recv, Connect, Close
    <2>3. c.max \in Nat
      BY <2>1, RecvAssumption
    <2> QED
      BY <1>2, <2>1, <2>2, <2>3 DEF NoCall
  <1> QED
    BY <1>1, <1>2 DEF AnyCall

(* The parts of the host's state. *)
LEMMA HostFields ==
    ASSUME TypeInv
    PROVE  /\ host.call \in AnyCall /\ host.owed \in AnyCall /\ host.rseq \in 1 .. RecvSeqs
           /\ host.rseq \in Nat /\ host.rseq # 0 /\ host.shut \subseteq Handles
  <1>1. /\ host.call \in AnyCall /\ host.owed \in AnyCall /\ host.rseq \in 1 .. RecvSeqs
        /\ host.shut \in SUBSET Handles
    BY DEF TypeInv, Hosts
  <1>2. RecvSeqs \in Nat
    BY RecvAssumption
  <1> QED
    BY <1>1, <1>2

(* The host's own steps: they keep its discipline, and what it is going to *)
(* repeat on a handle it still reads.                                      *)
LEMMA HostMove ==
    ASSUME IInv, UNCHANGED <<net, ring, slot, jobSeq, cache, last, drain, got>>,
           host' \in Hosts, host'.rseq = host.rseq, HostInv',
           \A h \in Handles : net[h].open /\ h \notin host'.shut =>
               /\ h \notin host.shut
               /\ \A m \in Nat : Pending(h, m) => Pending(h, m)'
    PROVE  IInv'
  <1>0. TypeInv /\ ControlInv /\ \A h \in Handles : StreamInv(h)
    BY DEF IInv
  <1>1. TypeInv'
    BY <1>0 DEF TypeInv
  <1>2. W!InFlight(slot) /\ slot.cmd # Other => slot.req \in AnyCall /\ slot.req.h \in Handles
    BY <1>0 DEF ControlInv, JobInv, AnyCall, Calls
  <1>3. W!InFlight(slot) /\ slot.cmd # Other => slot.req.max \in Nat
    BY <1>2, CallFields
  <1>4. JobInv'
    BY <1>0 DEF ControlInv, JobInv, W!InFlight
  <1>5. BeforeBody /\ slot.cmd = Close => slot.req.h \in Handles
    BY <1>0, <1>2 DEF ControlInv, JobInv, BeforeBody, W!InFlight, Close, Other
  <1>6. CloseInv'
    BY <1>0, <1>5 DEF ControlInv, CloseInv, BeforeBody
  <1>7. RecvInv'
    BY <1>0, <1>2, <1>3 DEF ControlInv, RecvInv, AfterBody, W!InFlight, Recv, Other
  <1>8. CacheInv'
    <2>1. cache.key.max \in Nat
      BY <1>0 DEF TypeInv, Caches, Keys
    <2> QED
      BY <1>0, <2>1 DEF ControlInv, CacheInv
  <1>9. ControlInv'
    BY <1>4, <1>6, <1>7, <1>8 DEF ControlInv
  <1>10. ASSUME NEW h \in Handles PROVE StreamInv(h)'
    <2>1. StreamInv(h) /\ last.max \in Nat
      BY <1>0 DEF TypeInv, Keys
    <2>2. ring.owner = h => net[h].open
      BY <2>1 DEF StreamInv
    <2>3. ring.owner = h /\ h \notin host'.shut /\ RingSynced(h) => RingSynced(h)'
      BY <2>1, <2>2, Zenon DEF RingSynced
    <2>4. Limbo(h)' = Limbo(h)
      BY DEF Limbo, AfterBody
    <2> QED
      BY <2>1, <2>3, <2>4, StreamFrame
  <1> QED
    BY <1>1, <1>9, <1>10 DEF IInv

(* A call begins. *)
LEMMA CallInv ==
    ASSUME IInv, NEW c \in Calls, Call(c)
    PROVE  IInv'
  <1>0. TypeInv /\ ControlInv
    BY DEF IInv
  <1>1. c \in AnyCall
    BY DEF AnyCall
  <1>2. c.op \in {Recv, Connect, Close} /\ c.h \in Handles /\ c # NoCall
    BY DEF Calls, NoCall, Recv, Connect, Close
  <1>3. host.call = NoCall /\ UNCHANGED <<net, ring, slot, jobSeq, cache, last, drain, got>>
    BY DEF Call
  <1>4. /\ c.op = Recv => host.owed \in {NoCall, c} /\ net[c.h].open /\ c.h \notin host.shut
        /\ c.op = Connect => ~net[c.h].open
    BY <1>2 DEF Call, Recv, Connect, Close
  <1> DEFINE owed == IF c.op # Recv /\ host.owed.h = c.h THEN NoCall ELSE host.owed
             shut == CASE c.op = Close -> host.shut \cup {c.h}
                       [] c.op = Connect -> host.shut \ {c.h}
                       [] OTHER -> host.shut
  <1>5. host' = [host EXCEPT !.call = c, !.owed = owed, !.shut = shut]
    BY DEF Call
  <1>6. owed \in AnyCall /\ shut \in SUBSET Handles
    <2>1. owed \in AnyCall
      BY <1>0, HostFields DEF AnyCall
    <2>2. shut \in SUBSET Handles
      BY <1>0, <1>2, HostFields DEF Recv, Connect, Close
    <2> QED
      BY <2>1, <2>2
  <1>7. /\ c.op = Recv => owed = host.owed /\ shut = host.shut
        /\ c.op = Close => c.h \in shut
        /\ owed \in {NoCall, host.owed} /\ (owed # host.owed => host.owed.h = c.h /\ c.op # Recv)
        /\ \A h \in Handles : h \notin shut => (h \notin host.shut \/ (c.op = Connect /\ h = c.h))
                                               /\ ~(c.op = Close /\ h = c.h)
    BY <1>2 DEF Recv, Connect, Close
  <1> HIDE DEF owed, shut
  <1>8. /\ host' \in Hosts /\ host'.rseq = host.rseq /\ host'.call = c /\ host'.owed = owed
        /\ host'.shut = shut
    BY <1>0, <1>1, <1>5, <1>6, Zenon DEF TypeInv, Hosts
  <1>9. HostInv'
    BY <1>0, <1>3, <1>4, <1>7, <1>8 DEF ControlInv, HostInv, Recv, Close
  <1>10. ASSUME NEW h \in Handles, net[h].open, h \notin host'.shut
         PROVE  h \notin host.shut /\ \A m \in Nat : Pending(h, m) => Pending(h, m)'
    <2>1. ~(c.op = Connect /\ h = c.h)
      BY <1>4, <1>10
    <2>2. h \notin host.shut /\ ~(c.op = Close /\ h = c.h)
      BY <1>7, <1>8, <1>10, <2>1
    <2>3. c.op # Recv => h # c.h
      BY <1>2, <2>1, <2>2
    <2>4. ASSUME NEW m \in Nat, Pending(h, m) PROVE Pending(h, m)'
      <3>1. host.owed = [op |-> Recv, h |-> h, max |-> m]
        BY <1>3, <2>4 DEF Pending, NoCall, Recv
      <3>2. host.owed.h = h
        BY <3>1
      <3>3. owed = host.owed
        BY <1>7, <2>3, <3>2
      <3> QED
        BY <1>8, <3>1, <3>3 DEF Pending
    <2> QED
      BY <2>2, <2>4
  <1> QED
    BY <1>3, <1>8, <1>9, <1>10, HostMove

(* The host gives up: it owes the recv it gave up on. *)
LEMMA GiveUpInv == IInv /\ GiveUp => IInv'
  <1> SUFFICES ASSUME IInv, GiveUp PROVE IInv'
    OBVIOUS
  <1>0. TypeInv /\ ControlInv
    BY DEF IInv
  <1> DEFINE owed == IF host.call.op = Recv THEN host.call ELSE host.owed
  <1>1. /\ UNCHANGED <<net, ring, slot, jobSeq, cache, last, drain, got>>
        /\ host' = [host EXCEPT !.call = NoCall, !.owed = owed]
    BY DEF GiveUp
  <1>2. owed \in AnyCall /\ NoCall \in AnyCall
    BY <1>0, HostFields DEF AnyCall
  <1>3. owed # NoCall => owed.op = Recv
    BY <1>0 DEF ControlInv, HostInv
  <1>4. \A h \in Handles, m \in Nat : Pending(h, m) => owed = [op |-> Recv, h |-> h, max |-> m]
    BY <1>0 DEF ControlInv, HostInv, Pending, NoCall, Recv
  <1> HIDE DEF owed
  <1>5. /\ host' \in Hosts /\ host'.rseq = host.rseq /\ host'.call = NoCall /\ host'.owed = owed
        /\ host'.shut = host.shut
    BY <1>0, <1>1, <1>2, Zenon DEF TypeInv, Hosts
  <1>6. HostInv'
    BY <1>3, <1>5 DEF HostInv, NoCall, Recv, Close
  <1>7. \A h \in Handles, m \in Nat : Pending(h, m) => Pending(h, m)'
    BY <1>4, <1>5 DEF Pending
  <1> QED
    BY <1>1, <1>5, <1>6, <1>7, HostMove

-------------------------------------------------------------------------------
(* What every dispatch does to the slot, and what an answer does. *)

(* The slot stays; or it holds no job in flight and is freed, or given the *)
(* call c.                                                                 *)
SlotMoves(op, c, h) ==
    \/ slot' = slot
    \/ /\ ~W!InFlight(slot)
       /\ slot' \in {W!FreeSlot, [st |-> "QUEUED", cmd |-> op, req |-> c, seq |-> h, res |-> << >>]}

(* A job in flight stays, and the drain's own state with it. *)
LEMMA JobMoves ==
    ASSUME TypeInv, JobInv, drain' = drain, NEW op \in {Recv, Connect, Close, Other},
           NEW c \in AnyCall, op = Other \/ (c \in Calls /\ c.op = op),
           NEW h \in {0} \cup Handles, SlotMoves(op, c, h)
    PROVE  /\ slot' \in Slots /\ JobInv'
           /\ W!InFlight(slot) => slot' = slot
           /\ AfterBody' = AfterBody
           /\ AfterBody => slot' = slot
           /\ (W!InFlight(slot) \/ BeforeBody \/ AfterBody) <=> W!InFlight(slot)
           /\ W!InFlight(slot)' /\ slot' # slot =>
                 ~AfterBody /\ slot'.cmd = op /\ slot'.req = c
           /\ BeforeBody' => W!InFlight(slot)'
  <1> USE DEF W!InFlight, AfterBody, BeforeBody
  <1>1. slot \in Slots /\ drain \in Drains
    BY DEF TypeInv
  <1>2. drain.pc \in {"sleep", "taken", "ran", "copy", "publish"}
    BY <1>1 DEF Drains
  <1>3. ~W!InFlight(slot) => drain.pc = "sleep"
    BY DEF JobInv
  <1>4. W!FreeSlot \in Slots /\ W!FreeSlot.st = "IDLE"
    BY DEF Slots, W!FreeSlot, W!SlotStates, AnyCall
  <1> DEFINE j == [st |-> "QUEUED", cmd |-> op, req |-> c, seq |-> h, res |-> << >>]
  <1>5. j \in Slots /\ j.st = "QUEUED" /\ j.cmd = op /\ j.req = c
    BY DEF Slots, W!SlotStates
  <1> HIDE DEF j
  <1>6. slot' = slot \/ (~W!InFlight(slot) /\ (slot' = W!FreeSlot \/ slot' = j))
    BY DEF SlotMoves, j
  <1>7. CASE slot' = slot
    BY <1>1, <1>2, <1>7 DEF JobInv
  <1>8. CASE ~W!InFlight(slot) /\ slot' = W!FreeSlot
    BY <1>2, <1>3, <1>4, <1>8 DEF JobInv
  <1>9. CASE ~W!InFlight(slot) /\ slot' = j
    BY <1>2, <1>3, <1>5, <1>9 DEF JobInv
  <1> QED
    BY <1>6, <1>7, <1>8, <1>9

(* An answer ends the call; that of a recv settles what is owed, and if it *)
(* is OK moves the seq on and brings bytes.                                *)
LEMMA Answered ==
    ASSUME TypeInv, NEW ok \in BOOLEAN, NEW q \in Seq(Byte), Answer(ok, q)
    PROVE  /\ host' \in Hosts /\ host'.call = NoCall /\ host'.shut = host.shut
           /\ got' \in [Handles -> Seq(Byte)]
           /\ host.call.op # Recv =>
                 host'.owed = host.owed /\ host'.rseq = host.rseq /\ got' = got
           /\ host.call.op = Recv =>
                 /\ host'.owed = NoCall
                 /\ ~ok => host'.rseq = host.rseq /\ got' = got
                 /\ ok => /\ host'.rseq # host.rseq
                          /\ got' = [got EXCEPT ![host.call.h] = @ \o q]
  <1>1. host \in Hosts /\ host.call \in AnyCall /\ host.owed \in AnyCall /\ NoCall \in AnyCall
        /\ host.rseq \in 1 .. RecvSeqs
    BY HostFields DEF TypeInv, AnyCall
  <1> DEFINE owed == IF host.call.op = Recv THEN NoCall ELSE host.owed
             rseq == IF host.call.op = Recv /\ ok THEN (host.rseq % RecvSeqs) + 1 ELSE host.rseq
  <1>2. host' = [host EXCEPT !.call = NoCall, !.owed = owed, !.rseq = rseq]
    BY DEF Answer
  <1>3. /\ rseq \in 1 .. RecvSeqs
        /\ host.call.op = Recv /\ ok => rseq # host.rseq
        /\ ~(host.call.op = Recv /\ ok) => rseq = host.rseq
    BY <1>1, NextSeq
  <1>4. owed \in AnyCall
    BY <1>1
  <1> HIDE DEF rseq
  <1>5. /\ host' \in Hosts /\ host'.call = NoCall /\ host'.shut = host.shut
        /\ host'.owed = owed /\ host'.rseq = rseq
    BY <1>1, <1>2, <1>3, <1>4, Zenon DEF Hosts
  <1>6. host.call.op = Recv => host.call.h \in Handles
    BY <1>1, CallFields DEF Recv
  <1>7. /\ got' \in [Handles -> Seq(Byte)]
        /\ ~(host.call.op = Recv /\ ok) => got' = got
        /\ host.call.op = Recv /\ ok => got' = [got EXCEPT ![host.call.h] = @ \o q]
    <2>1. got \in [Handles -> Seq(Byte)]
      BY DEF TypeInv
    <2>2. CASE host.call.op = Recv /\ ok
      <3>1. got' = [got EXCEPT ![host.call.h] = @ \o q]
        BY <2>2 DEF Answer
      <3>2. got[host.call.h] \o q \in Seq(Byte)
        BY <1>6, <2>1, <2>2, Joined
      <3> QED
        BY <1>6, <2>1, <2>2, <3>1, <3>2
    <2>3. CASE ~(host.call.op = Recv /\ ok)
      BY <2>1, <2>3 DEF Answer
    <2> QED
      BY <2>2, <2>3
  <1> QED
    BY <1>3, <1>5, <1>7

(* While the host reads one handle, nothing is on its way to it from       *)
(* another.                                                                *)
LEMMA OthersIdle ==
    ASSUME TypeInv, ControlInv, host.call.op = Recv
    PROVE  /\ \A h \in Handles, m \in Nat : Pending(h, m) => h = host.call.h /\ m = host.call.max
           /\ \A h \in Handles \ host.shut : W!InFlight(slot) /\ slot.cmd = Recv /\ slot.req.h = h =>
                 h = host.call.h
           /\ \A h \in Handles \ host.shut :
                 cache.valid /\ cache.ok /\ cache.key.h = h /\ cache.key.seq = host.rseq =>
                     cache.key = Key /\ h = host.call.h
  <1>1. host.owed \in {NoCall, host.call}
    BY DEF ControlInv, HostInv
  <1>2. ASSUME NEW h \in Handles, NEW m \in Nat, Pending(h, m)
        PROVE  h = host.call.h /\ m = host.call.max
    <2>1. NoCall.op # Recv
      BY DEF NoCall, Recv
    <2>2. host.call = [op |-> Recv, h |-> h, max |-> m]
      BY <1>1, <1>2, <2>1 DEF Pending
    <2> QED
      BY <2>2
  <1>3. ASSUME NEW h \in Handles \ host.shut, W!InFlight(slot), slot.cmd = Recv, slot.req.h = h
        PROVE  h = host.call.h
    <2>1. slot.req \in AnyCall
      BY DEF TypeInv, Slots
    <2>2. slot.req.max \in Nat
      BY <2>1, CallFields
    <2>3. Pending(h, slot.req.max)
      BY <1>3 DEF ControlInv, RecvInv
    <2> QED
      BY <1>2, <2>2, <2>3
  <1>4. ASSUME NEW h \in Handles \ host.shut, cache.valid, cache.ok, cache.key.h = h,
               cache.key.seq = host.rseq
        PROVE  cache.key = Key /\ h = host.call.h
    <2>1. cache.key \in Keys
      BY DEF TypeInv, Caches
    <2>2. cache.key.max \in Nat /\ cache.key = [seq |-> cache.key.seq, h |-> cache.key.h,
                                                 max |-> cache.key.max]
      BY <2>1 DEF Keys
    <2>3. Pending(h, cache.key.max)
      BY <1>4 DEF ControlInv, CacheInv
    <2>4. h = host.call.h /\ cache.key.max = host.call.max
      BY <1>2, <2>2, <2>3
    <2> QED
      BY <1>4, <2>2, <2>4 DEF Key
  <1> QED
    BY <1>2, <1>3, <1>4

(* The empty cache. *)
LEMMA EmptyCache == NoCache \in Caches /\ ~NoCache.valid
  <1>1. NoKey \in Keys
    BY DEF NoKey, Keys
  <1>2. << >> \in Seq(Byte)
    OBVIOUS
  <1> QED
    BY <1>1, <1>2 DEF NoCache, Caches

(* The check in front of every recv leaves no entry but its own. *)
LEMMA CacheChecked ==
    ASSUME TypeInv, ~CacheHit, cache' = CacheAfterCheck
    PROVE  cache' \in Caches /\ ~cache'.valid /\ (~cache.valid => cache' = cache)
  <1>1. cache \in Caches /\ NoCache \in Caches /\ ~NoCache.valid
    BY EmptyCache DEF TypeInv
  <1>2. cache.valid \in BOOLEAN
    BY <1>1 DEF Caches
  <1> QED
    BY <1>1, <1>2 DEF CacheAfterCheck

(* A recv on one handle finds the ring of another as the host left it. *)
LEMMA RingOther ==
    ASSUME TypeInv, ControlInv, host.call.op = Recv, NEW h \in Handles, h # host.call.h,
           RingSynced(h), last' = Key, UNCHANGED <<net, ring>>, got'[h] = got[h]
    PROVE  RingSynced(h)'
  <1>1. last.max \in Nat
    BY DEF TypeInv, Keys
  <1>2. ~Pending(h, last.max)
    BY <1>1, OthersIdle
  <1>3. last'.h # h
    BY DEF Key
  <1> QED
    BY <1>2, <1>3, Zenon DEF RingSynced

-------------------------------------------------------------------------------
(* SOCK_RECV on the ring. *)

(* A commit drops nothing, or the uncommitted bytes; what is left is still *)
(* the piece before what lwIP has.                                         *)
LEMMA Committed ==
    ASSUME NEW c \in Conns, NEW r \in Rings, RingPiece(c, r), NEW replay \in BOOLEAN, NEW m \in Nat
    PROVE  /\ sock_recv_commit(r, replay, m) \in Rings
           /\ sock_recv_commit(r, replay, m).owner = r.owner
           /\ sock_recv_commit(r, replay, m).end = r.end
           /\ Len(sock_recv_commit(r, replay, m).buf) = IF replay THEN Len(r.buf)
                                                        ELSE Len(r.buf) - r.unc
           /\ RingPiece(c, sock_recv_commit(r, replay, m))
           /\ m > 0 /\ sock_recv_commit(r, replay, m).unc = 0 =>
                 Len(sock_recv_commit(r, replay, m).buf) = 0
  <1> DEFINE b == IF replay THEN r.buf ELSE Drop(r.buf, r.unc)
             n == MinOf(Len(b), m)
             t == sock_recv_commit(r, replay, m)
  <1>1. PICK l \in Nat, k \in Nat, u \in Nat, s \in Nat :
            /\ l = Len(r.buf) /\ k = r.unc /\ u = Len(c.unread) /\ s = c.sent
            /\ k <= l /\ l + u <= s
    <2>1. r.buf \in Seq(Byte) /\ r.unc \in Nat /\ c.unread \in Seq(Byte) /\ c.sent \in Nat
      BY DEF Rings, Conns
    <2>2. Len(r.buf) \in Nat /\ Len(c.unread) \in Nat
      BY <2>1
    <2> QED
      BY <2>1, <2>2, Zenon DEF RingPiece
  <1>2. PICK at \in Nat : at = (s - u) - l
    <2>1. (s - u) - l \in Nat
      <3>1. l + u <= s
        BY <1>1, Zenon
      <3> QED
        BY <3>1
    <2> QED
      BY <2>1
  <1>3. r.buf \in Seq(Byte) /\ After(c.gen, at, r.buf)
    BY <1>1, <1>2 DEF Rings, RingPiece
  <1>4. PICK d \in 0 .. l : d = IF replay THEN 0 ELSE k
    <2>1. k <= l
      BY <1>1
    <2> QED
      BY <2>1
  <1>5. b \in Seq(Byte) /\ Len(b) = l - d /\ After(c.gen, at + d, b)
    <2>1. CASE replay
      BY <1>1, <1>3, <1>4, <2>1
    <2>2. CASE ~replay
      <3>1. k \in 0 .. Len(r.buf)
        BY <1>1
      <3>2. /\ Drop(r.buf, k) \in Seq(Byte) /\ Len(Drop(r.buf, k)) = Len(r.buf) - k
            /\ After(c.gen, at + k, Drop(r.buf, k))
        BY <1>3, <3>1, AfterCut
      <3>3. b = Drop(r.buf, k) /\ d = k
        BY <1>1, <1>4, <2>2
      <3> QED
        BY <1>1, <3>2, <3>3
    <2> QED
      BY <2>1, <2>2
  <1> HIDE DEF b
  <1>6. n \in Nat /\ n <= Len(b) /\ (m > 0 /\ n = 0 => Len(b) = 0)
    <2>1. PICK z \in Nat : z = Len(b)
      BY <1>5
    <2> QED
      BY <2>1 DEF MinOf
  <1> HIDE DEF n
  <1>7. t \in Rings /\ t.owner = r.owner /\ t.end = r.end /\ t.buf = b /\ t.unc = n
    <2>1. t = [r EXCEPT !.buf = b, !.unc = n]
      BY DEF sock_recv_commit, b, n
    <2> QED
      BY <1>5, <1>6, <2>1, Zenon DEF Rings
  <1>8. (l - d) + u <= s /\ (s - u) - (l - d) = at + d
    <2>1. l + u <= s /\ at = (s - u) - l
      BY <1>1, <1>2, Zenon
    <2>2. (l - d) + u <= s
      BY <2>1
    <2>3. (s - u) - (l - d) = at + d
      BY <2>1
    <2> QED
      BY <2>2, <2>3
  <1> HIDE DEF t
  <1>9. RingPiece(c, t)
    <2>1. t.unc <= Len(t.buf)
      BY <1>6, <1>7
    <2>2. Len(t.buf) + Len(c.unread) <= c.sent
      BY <1>1, <1>5, <1>7, <1>8, Zenon
    <2>3. After(c.gen, c.sent - Len(c.unread) - Len(t.buf), t.buf)
      BY <1>1, <1>5, <1>7, <1>8, Zenon
    <2>4. t.end # "open" => c.end = t.end /\ c.unread = << >>
      BY <1>7 DEF RingPiece
    <2> QED
      BY <2>1, <2>2, <2>3, <2>4, Zenon DEF RingPiece
  <1>10. Len(t.buf) = IF replay THEN Len(r.buf) ELSE Len(r.buf) - r.unc
    BY <1>1, <1>4, <1>5, <1>7
  <1> QED
    BY <1>6, <1>7, <1>9, <1>10 DEF t

(* A recv on the ring's handle: the host's stream, the ring's bytes as the *)
(* commit leaves them and lwIP's add up to what the peer sent, whether the *)
(* recv is a replay or not.                                                *)
LEMMA RingServes ==
    ASSUME IInv, host.call.op = Recv, ring.owner = host.call.h,
           ring' = sock_recv_commit(ring, host.rseq # 0 /\ last = Key, host.call.max)
    PROVE  /\ ring' \in Rings /\ ring'.owner = ring.owner /\ ring'.end = ring.end
           /\ net[host.call.h] \in Conns /\ got[host.call.h] \in Seq(Byte)
           /\ RingPiece(net[host.call.h], ring')
           /\ Len(got[host.call.h]) + Len(ring'.buf) + Len(net[host.call.h].unread)
                = net[host.call.h].sent
           /\ host.call.max > 0 /\ ring'.unc = 0 => Len(ring'.buf) = 0
           /\ host.call.h \in Handles /\ host.call.max \in Nat
  <1> DEFINE a == host.call.h
             replay == host.rseq # 0 /\ last = Key
  <1>0. TypeInv /\ ControlInv /\ \A h \in Handles : StreamInv(h)
    BY DEF IInv
  <1>1. a \in Handles /\ a \notin host.shut /\ host.call.max \in Nat /\ host.rseq # 0
    BY <1>0, HostFields, CallFields DEF ControlInv, HostInv, Recv
  <1>2. net[a] \in Conns /\ ring \in Rings /\ got[a] \in Seq(Byte)
    BY <1>0, <1>1 DEF TypeInv
  <1>3. RingPiece(net[a], ring) /\ RingSynced(a)
    BY <1>0, <1>1 DEF StreamInv
  <1>4. /\ ring' \in Rings /\ ring'.owner = ring.owner /\ ring'.end = ring.end
        /\ Len(ring'.buf) = IF replay THEN Len(ring.buf) ELSE Len(ring.buf) - ring.unc
        /\ RingPiece(net[a], ring')
        /\ host.call.max > 0 /\ ring'.unc = 0 => Len(ring'.buf) = 0
    <2>1. replay \in BOOLEAN
      OBVIOUS
    <2>2. ring' = sock_recv_commit(ring, replay, host.call.max)
      OBVIOUS
    <2> HIDE DEF a, replay
    <2> QED
      BY <1>1, <1>2, <1>3, <2>1, <2>2, Committed
  <1>5. PICK g \in Nat, l \in Nat, u \in Nat, s \in Nat, k \in Nat :
            /\ g = Len(got[a]) /\ l = Len(ring.buf) /\ u = Len(net[a].unread)
            /\ s = net[a].sent /\ k = ring.unc /\ k <= l
    <2>1. /\ net[a].unread \in Seq(Byte) /\ net[a].sent \in Nat /\ ring.buf \in Seq(Byte)
          /\ ring.unc \in Nat
      BY <1>2 DEF Conns, Rings
    <2>2. Len(got[a]) \in Nat /\ Len(ring.buf) \in Nat /\ Len(net[a].unread) \in Nat
      BY <1>2, <2>1, LenNat, Zenon
    <2> QED
      BY <1>3, <2>1, <2>2, Zenon DEF RingPiece
  <1>6. g + l + u = s \/ (g + l + u = s + k /\ ~replay)
    <2>1. last \in Keys
      BY <1>0 DEF TypeInv
    <2>2. CASE g + l + u = s + k /\ (k = 0 \/ last.seq # host.rseq \/ last.h # a)
      <3>1. replay => last.seq = host.rseq /\ last.h = a
        BY DEF Key
      <3>2. k = 0 => g + l + u = s
        BY <2>2
      <3> QED
        BY <2>2, <3>1, <3>2
    <2>3. CASE g + l + u = s
      BY <2>3
    <2> QED
      BY <1>3, <1>5, <2>2, <2>3, Zenon DEF RingSynced
  <1>7. ~replay => g + l + u = s + k
    <2> SUFFICES ASSUME g + l + u # s + k PROVE replay
      OBVIOUS
    <2>1. last.seq = host.rseq /\ last.h = a /\ Pending(a, last.max)
      BY <1>3, <1>5, Zenon DEF RingSynced
    <2>2. last \in Keys
      BY <1>0 DEF TypeInv
    <2>3. last.max \in Nat /\ last = [seq |-> last.seq, h |-> last.h, max |-> last.max]
      BY <2>2 DEF Keys
    <2>4. last.max = host.call.max
      BY <1>0, <1>1, <2>1, <2>3, OthersIdle
    <2> QED
      BY <1>1, <2>1, <2>3, <2>4 DEF Key
  <1> HIDE DEF a, replay
  <1>8. CASE replay
    <2>1. g + l + u = s
      BY <1>6, <1>8
    <2> QED
      BY <1>1, <1>2, <1>4, <1>5, <1>8, <2>1, Zenon DEF a
  <1>9. CASE ~replay
    <2>1. g + l + u = s + k
      BY <1>7, <1>9
    <2>2. k <= l
      BY <1>5
    <2>3. g + (l - k) + u = s
      BY <2>1, <2>2
    <2> QED
      BY <1>1, <1>2, <1>4, <1>5, <1>9, <2>3, Zenon DEF a
  <1> QED
    BY <1>8, <1>9, Zenon

(* The ring's answer: lost; or empty and not OK; or OK with exactly the    *)
(* bytes that follow what the host has and are now uncommitted.            *)
LEMMA RingAnswers ==
    ASSUME IInv, PollRecvRing
    PROVE  \/ UNCHANGED <<host, got>>
           \/ /\ host' \in Hosts /\ host'.call = NoCall /\ host'.owed = NoCall
              /\ host'.shut = host.shut
              /\ \/ host'.rseq = host.rseq /\ got' = got /\ ring'.unc = 0
                 \/ \E q \in Seq(Byte) :
                       /\ host'.rseq # host.rseq
                       /\ got' = [got EXCEPT ![host.call.h] = @ \o q]
                       /\ Len(q) = ring'.unc
                       /\ After(net[host.call.h].gen, Len(got[host.call.h]), q)
                       /\ Len(q) = 0 => ring'.end = "fin" \/ host.call.max = 0
  <1> DEFINE a == host.call.h
  <1>0. TypeInv
    BY DEF IInv
  <1>1. /\ ring' \in Rings /\ net[a] \in Conns /\ got[a] \in Seq(Byte)
        /\ RingPiece(net[a], ring')
        /\ Len(got[a]) + Len(ring'.buf) + Len(net[a].unread) = net[a].sent
    BY RingServes, Zenon DEF PollRecvRing
  <1>2. PICK g \in Nat, b \in Nat, u \in Nat, s \in Nat, n \in Nat :
            /\ g = Len(got[a]) /\ b = Len(ring'.buf) /\ u = Len(net[a].unread)
            /\ s = net[a].sent /\ n = ring'.unc /\ g + b + u = s /\ n <= b
    <2>1. /\ net[a].unread \in Seq(Byte) /\ net[a].sent \in Nat /\ ring'.buf \in Seq(Byte)
          /\ ring'.unc \in Nat
      BY <1>1, Zenon DEF Conns, Rings
    <2>2. Len(got[a]) \in Nat /\ Len(ring'.buf) \in Nat /\ Len(net[a].unread) \in Nat
      BY <1>1, <2>1
    <2> QED
      BY <1>1, <2>1, <2>2, Zenon DEF RingPiece
  <1>3. ring'.buf \in Seq(Byte) /\ After(net[a].gen, g, ring'.buf)
    <2>1. (s - u) - b = g
      <3>1. g + b + u = s
        BY <1>2, Zenon
      <3> QED
        BY <3>1
    <2> QED
      BY <1>1, <1>2, <2>1 DEF RingPiece, Rings
  <1>4. /\ Take(ring'.buf, n) \in Seq(Byte) /\ Len(Take(ring'.buf, n)) = n
        /\ After(net[a].gen, g, Take(ring'.buf, n))
    <2>1. n \in 0 .. Len(ring'.buf)
      BY <1>2
    <2> QED
      BY <1>3, <2>1, AfterCut
  <1>5. << >> \in Seq(Byte) /\ Len(<< >>) = 0 /\ After(net[a].gen, g, << >>)
    BY AfterEmpty
  <1>6. host.call.op = Recv
    BY DEF PollRecvRing
  <1>7. \/ UNCHANGED <<host, got>>
        \/ n > 0 /\ Answer(TRUE, Take(ring'.buf, n))
        \/ n = 0 /\ ring'.end = "fin" /\ Answer(TRUE, << >>)
        \/ n = 0 /\ Answer(FALSE, << >>)
        \/ n = 0 /\ host.call.max = 0 /\ Answer(TRUE, << >>)
    <2>1. RingAnswer(ring', host.call.max) \/ Lost
      BY DEF PollRecvRing
    <2>2. n > 0 \/ n = 0
      OBVIOUS
    <2> QED
      BY <1>2, <2>1, <2>2, Zenon DEF RingAnswer, Lost
  <1>8. CASE n > 0 /\ Answer(TRUE, Take(ring'.buf, n))
    <2>1. /\ host' \in Hosts /\ host'.call = NoCall /\ host'.owed = NoCall
          /\ host'.shut = host.shut /\ host'.rseq # host.rseq
          /\ got' = [got EXCEPT ![a] = @ \o Take(ring'.buf, n)]
      BY <1>0, <1>4, <1>6, <1>8, Answered, Zenon
    <2>2. n # 0
      BY <1>8
    <2> QED
      BY <1>2, <1>4, <2>1, <2>2, Zenon
  <1>9. CASE n = 0 /\ (ring'.end = "fin" \/ host.call.max = 0) /\ Answer(TRUE, << >>)
    <2>1. /\ host' \in Hosts /\ host'.call = NoCall /\ host'.owed = NoCall
          /\ host'.shut = host.shut /\ host'.rseq # host.rseq
          /\ got' = [got EXCEPT ![a] = @ \o << >>]
      BY <1>0, <1>5, <1>6, <1>9, Answered, Zenon
    <2> QED
      BY <1>2, <1>5, <1>9, <2>1, Zenon
  <1>10. CASE n = 0 /\ Answer(FALSE, << >>)
    BY <1>0, <1>2, <1>5, <1>6, <1>10, Answered, Zenon
  <1> QED
    BY <1>7, <1>8, <1>9, <1>10, Zenon

(* A recv on the ring path. *)
LEMMA PollRecvRingInv == IInv /\ PollRecvRing => IInv'
  <1> SUFFICES ASSUME IInv, PollRecvRing PROVE IInv'
    OBVIOUS
  <1>0. TypeInv /\ ControlInv /\ \A h \in Handles : StreamInv(h)
    BY DEF IInv
  <1>1. PICK a \in Handles : a = host.call.h
    BY RingServes DEF PollRecvRing
  <1>2. /\ host.call.op = Recv /\ ring.owner = a /\ last' = Key
        /\ UNCHANGED <<net, slot, jobSeq, drain>> /\ cache' = CacheAfterCheck
    BY <1>1 DEF PollRecvRing
  <1>3. /\ ring' \in Rings /\ ring'.owner = a /\ net[a] \in Conns /\ got[a] \in Seq(Byte)
        /\ RingPiece(net[a], ring')
        /\ Len(got[a]) + Len(ring'.buf) + Len(net[a].unread) = net[a].sent
        /\ host.call.max \in Nat
    BY <1>1, <1>2, RingServes, Zenon DEF PollRecvRing
  <1>4. /\ host' \in Hosts /\ host'.shut = host.shut
        /\ host'.call \in {NoCall, host.call} /\ host'.owed \in {NoCall, host.owed}
        /\ (host'.call = host.call => host'.owed = host.owed /\ host' = host)
    <2>1. host.call # NoCall /\ host \in Hosts
      BY <1>0, <1>2 DEF NoCall, Recv, TypeInv
    <2> QED
      BY <2>1, RingAnswers
  <1>5. cache' \in Caches /\ ~cache'.valid /\ (~cache.valid => cache' = cache)
    <2>1. ~CacheHit
      BY <1>0, <1>1, <1>2 DEF CacheHit, Key, ControlInv, CacheInv
    <2> QED
      BY <1>0, <1>2, <2>1, CacheChecked
  <1>6. host.call \in AnyCall /\ host.rseq \in Nat /\ a \notin host.shut
        /\ host.owed \in {NoCall, host.call} /\ net[a].open
        /\ host.call = [op |-> Recv, h |-> a, max |-> host.call.max]
    BY <1>0, <1>1, <1>2, HostFields, CallFields DEF ControlInv, HostInv
  <1>7. last' \in Keys
    BY <1>1, <1>2, <1>3, <1>6 DEF Key, Keys
  <1>8. got' \in [Handles -> Seq(Byte)] /\ \A h \in Handles : h # a => got'[h] = got[h]
    <2>1. got \in [Handles -> Seq(Byte)]
      BY <1>0 DEF TypeInv
    <2>2. ASSUME NEW q \in Seq(Byte), got' = [got EXCEPT ![a] = @ \o q]
          PROVE  got' \in [Handles -> Seq(Byte)] /\ \A h \in Handles : h # a => got'[h] = got[h]
      <3>1. got[a] \o q \in Seq(Byte)
        BY <1>3, Joined
      <3> QED
        BY <2>1, <2>2, <3>1
    <2> QED
      BY <1>1, <2>1, <2>2, RingAnswers, Zenon
  <1>9. TypeInv'
    BY <1>0, <1>2, <1>3, <1>4, <1>5, <1>7, <1>8 DEF TypeInv
  <1>10. ControlInv'
    <2>1. HostInv'
      <3>1. NoCall.op # Recv /\ NoCall.op # Close /\ Recv # Close
        BY DEF NoCall, Recv, Close
      <3>2. HostInv /\ net' = net
        BY <1>0, <1>2, Zenon DEF ControlInv
      <3>3. CASE host' = host
        BY <3>2, <3>3, Zenon DEF HostInv
      <3>4. CASE host'.call = NoCall
        BY <1>4, <1>6, <1>2, <3>1, <3>4, Zenon DEF HostInv
      <3> QED
        BY <1>4, <3>3, <3>4, Zenon
    <2>2. JobInv'
      BY <1>0, <1>2 DEF ControlInv, JobInv, W!InFlight
    <2>3. CloseInv'
      BY <1>0, <1>2, <1>4, <1>5 DEF ControlInv, CloseInv, BeforeBody
    <2>4. RecvInv'
      <3> SUFFICES ASSUME W!InFlight(slot), slot.cmd = Recv PROVE RecvInv'
        BY <1>2 DEF RecvInv, W!InFlight
      <3>1. slot.req.h \in Handles
        BY <1>0 DEF ControlInv, JobInv, Calls, Recv, Other
      <3>2. slot.req.h \in host.shut
        BY <1>0, <1>1, <1>2, <3>1, OthersIdle, Zenon DEF ControlInv, RecvInv
      <3> QED
        BY <1>0, <1>2, <1>3, <1>4, <1>5, <3>2 DEF ControlInv, RecvInv, AfterBody, W!InFlight
    <2>5. CacheInv'
      BY <1>5 DEF CacheInv
    <2> QED
      BY <2>1, <2>2, <2>3, <2>4, <2>5 DEF ControlInv
  <1>11. ASSUME NEW h \in Handles, h # a PROVE StreamInv(h)'
    <2>1. StreamInv(h)
      BY <1>0
    <2>2. h \notin host.shut => Limbo(h) = << >> /\ Limbo(h)' = << >>
      <3> SUFFICES ASSUME h \notin host.shut PROVE Limbo(h) = << >> /\ Limbo(h)' = << >>
        OBVIOUS
      <3>1. AfterBody => W!InFlight(slot)
        BY <1>0 DEF AfterBody, ControlInv, JobInv, W!InFlight
      <3>2. ~(slot.cmd = Recv /\ slot.req.h = h /\ AfterBody)
        BY <1>0, <1>1, <1>2, <1>11, <3>1, OthersIdle
      <3>3. ~(cache.valid /\ cache.ok /\ cache.key.h = h /\ cache.key.seq = host.rseq)
        BY <1>0, <1>1, <1>2, <1>11, OthersIdle
      <3>4. Limbo(h) = << >>
        BY <3>2, <3>3 DEF Limbo
      <3>5. Limbo(h)' = << >>
        BY <1>2, <1>5, <3>2 DEF Limbo, AfterBody
      <3> QED
        BY <3>4, <3>5
    <2> QED
      BY <1>2, <1>3, <1>4, <1>8, <1>11, <2>1, <2>2, Zenon DEF StreamInv, FallbackSynced
  <1>12. StreamInv(a)'
    <2>1. PICK g \in Nat, b \in Nat, u \in Nat, s \in Nat, n \in Nat :
            /\ g = Len(got[a]) /\ b = Len(ring'.buf) /\ u = Len(net[a].unread)
            /\ s = net[a].sent /\ n = ring'.unc /\ g + b + u = s
      <3>1. /\ net[a].unread \in Seq(Byte) /\ net[a].sent \in Nat /\ ring'.buf \in Seq(Byte)
            /\ ring'.unc \in Nat
        BY <1>3 DEF Conns, Rings
      <3>2. Len(got[a]) \in Nat /\ Len(ring'.buf) \in Nat /\ Len(net[a].unread) \in Nat
        BY <1>3, <3>1
      <3> QED
        BY <1>3, <3>1, <3>2, Zenon
    <2>2. Streamed(net[a], got[a])
      BY <1>0 DEF StreamInv
    <2>3. SUFFICES Streamed(net[a], got'[a]) /\ RingSynced(a)'
      BY <1>2, <1>3, <1>6 DEF StreamInv
    <2>4. last'.seq = host.rseq /\ last'.h = a /\ last'.max = host.call.max
      BY <1>1, <1>2 DEF Key
    <2>5. CASE n = 0 /\ got' = got
      <3>1. g + b + u = s /\ n = 0
        BY <2>1, <2>5, Zenon
      <3>2. g + b + u = s + n
        BY <3>1
      <3> QED
        BY <1>2, <2>1, <2>2, <2>5, <3>2, Zenon DEF RingSynced
    <2>6. CASE n # 0 /\ UNCHANGED <<host, got>>
      <3>1. n > 0
        BY <2>6
      <3>2. Pending(a, last.max)'
        BY <1>6, <2>4, <2>6 DEF Pending
      <3> QED
        BY <1>2, <2>1, <2>2, <2>4, <2>6, <3>1, <3>2, Zenon DEF RingSynced
    <2>7. ASSUME NEW q \in Seq(Byte), host'.rseq # host.rseq,
                 got' = [got EXCEPT ![a] = @ \o q], Len(q) = n, After(net[a].gen, g, q)
          PROVE  Streamed(net[a], got'[a]) /\ RingSynced(a)'
      <3>1. got'[a] = got[a] \o q
        BY <1>0, <2>7 DEF TypeInv
      <3>2. After(net[a].gen, 0, got[a])
        BY <2>2 DEF Streamed
      <3>3. After(net[a].gen, 0 + Len(got[a]), q)
        <4>1. 0 + g = g
          OBVIOUS
        <4> QED
          BY <2>1, <2>7, <4>1
      <3>4. /\ Len(got[a] \o q) = Len(got[a]) + Len(q)
            /\ After(net[a].gen, 0, got[a] \o q)
        <4>1. 0 \in Nat
          OBVIOUS
        <4> QED
          BY <1>3, <3>2, <3>3, <4>1, AfterJoin
      <3>5. Streamed(net[a], got'[a])
        BY <2>2, <3>1, <3>4 DEF Streamed
      <3>6. Len(got'[a]) = g + n
        BY <2>1, <2>7, <3>1, <3>4
      <3>7. (g + n) + b + u = s + n
        <4>1. g + b + u = s
          BY <2>1, Zenon
        <4> QED
          BY <4>1
      <3>8. RingSynced(a)'
        BY <1>2, <2>1, <2>4, <2>7, <3>6, <3>7, Zenon DEF RingSynced
      <3> QED
        BY <3>5, <3>8
    <2> QED
      BY <1>1, <2>1, <2>5, <2>6, <2>7, RingAnswers, Zenon
  <1> QED
    BY <1>9, <1>10, <1>11, <1>12 DEF IInv

-------------------------------------------------------------------------------
(* SOCK_RECV through the worker. *)

(* Reclaiming a finished job. *)
LEMMA Reclaimed ==
    ASSUME NEW op, NEW h, NEW c, slot' = W!worker_reclaim_matching_terminal(slot, Recv, h)
    PROVE  SlotMoves(op, c, h)
  BY DEF SlotMoves, W!worker_reclaim_matching_terminal, W!Terminal, W!InFlight

(* The answer to a hit: lost; or not OK; or OK with the bytes in the cache.*)
LEMMA CacheAnswers ==
    ASSUME TypeInv, host.call.op = Recv, Answer(cache.ok, cache.buf) \/ Lost
    PROVE  \/ UNCHANGED <<host, got>>
           \/ /\ host' \in Hosts /\ host'.call = NoCall /\ host'.owed = NoCall
              /\ host'.shut = host.shut /\ got' \in [Handles -> Seq(Byte)]
              /\ \/ ~cache.ok /\ host'.rseq = host.rseq /\ got' = got
                 \/ /\ cache.ok /\ host'.rseq # host.rseq
                    /\ got' = [got EXCEPT ![host.call.h] = @ \o cache.buf]
  <1>1. cache.ok \in BOOLEAN /\ cache.buf \in Seq(Byte)
    BY DEF TypeInv, Caches
  <1>2. CASE Answer(cache.ok, cache.buf)
    BY <1>1, <1>2, Answered, Zenon
  <1> QED
    BY <1>2, Zenon DEF Lost

(* A hit.  No recv is in flight, and once the host has the bytes the entry *)
(* answers an older seq.                                                   *)
LEMMA PollRecvCachedInv == IInv /\ PollRecvCached => IInv'
  <1> SUFFICES ASSUME IInv, PollRecvCached PROVE IInv'
    OBVIOUS
  <1>0. TypeInv /\ ControlInv /\ \A h \in Handles : StreamInv(h)
    BY DEF IInv
  <1>1. /\ host.call.op = Recv /\ host.call \in AnyCall /\ host.rseq \in Nat /\ host.rseq # 0
        /\ host.call # NoCall
    BY <1>0, HostFields DEF PollRecvCached, NoCall, Recv
  <1>2. PICK a \in Handles : a = host.call.h
    BY <1>1, CallFields DEF Recv
  <1>3. /\ ring.owner # a /\ last' = Key /\ cache.valid /\ cache.key = Key /\ cache' = cache
        /\ UNCHANGED <<net, ring, jobSeq, drain>>
    BY <1>1, <1>2 DEF PollRecvCached, CacheHit
  <1>4. a \notin host.shut /\ net[a].open /\ host.call.max \in Nat
        /\ host.owed \in {NoCall, host.call} /\ host.call \in Calls
    BY <1>0, <1>1, <1>2, CallFields DEF ControlInv, HostInv, Recv
  <1>5. cache.key.h = a /\ cache.key.seq = host.rseq /\ Key \in Keys
    BY <1>1, <1>2, <1>3, <1>4 DEF Key, Keys
  <1>6. /\ slot' \in Slots /\ JobInv' /\ (W!InFlight(slot) => slot' = slot)
        /\ AfterBody' = AfterBody /\ (AfterBody => slot' = slot)
        /\ (W!InFlight(slot) \/ BeforeBody \/ AfterBody) <=> W!InFlight(slot)
        /\ BeforeBody' => W!InFlight(slot)'
        /\ (slot' # slot => ~W!InFlight(slot)')
    <2>1. SlotMoves(Recv, host.call, a)
      BY <1>2, Reclaimed DEF PollRecvCached
    <2>2. slot' \in {slot, W!FreeSlot}
      BY DEF PollRecvCached, W!worker_reclaim_matching_terminal
    <2>3. slot' # slot => ~W!InFlight(slot)'
      BY <2>2 DEF W!InFlight, W!FreeSlot
    <2>4. JobInv /\ drain' = drain /\ a \in {0} \cup Handles
      BY <1>0, <1>3 DEF ControlInv
    <2> QED
      BY <1>0, <1>1, <1>4, <2>1, <2>3, <2>4, JobMoves DEF Recv, Connect, Close, Other
  <1>7. ~(W!InFlight(slot) /\ slot.cmd = Recv)
    BY <1>0, <1>3 DEF ControlInv, RecvInv
  <1>8. ~(W!InFlight(slot)' /\ slot'.cmd = Recv)
    BY <1>6, <1>7 DEF W!InFlight
  <1>9. /\ host' \in Hosts /\ host'.shut = host.shut /\ got' \in [Handles -> Seq(Byte)]
        /\ \A h \in Handles : h # a => got'[h] = got[h]
        /\ \/ UNCHANGED <<host, got>>
           \/ /\ host'.call = NoCall /\ host'.owed = NoCall
              /\ \/ ~cache.ok /\ host'.rseq = host.rseq /\ got' = got
                 \/ /\ cache.ok /\ host'.rseq # host.rseq
                    /\ got' = [got EXCEPT ![a] = @ \o cache.buf]
    <2>1. host \in Hosts /\ got \in [Handles -> Seq(Byte)]
      BY <1>0 DEF TypeInv
    <2>2. Answer(cache.ok, cache.buf) \/ Lost
      BY DEF PollRecvCached
    <2> QED
      BY <1>0, <1>1, <1>2, <2>1, <2>2, CacheAnswers, Zenon
  <1>10. TypeInv'
    BY <1>0, <1>3, <1>5, <1>6, <1>9, Zenon DEF TypeInv
  <1>11. ControlInv'
    <2>1. HostInv'
      <3>1. host' = host \/ (host'.call = NoCall /\ host'.owed = NoCall)
        BY <1>9, Zenon
      <3>2. NoCall.op # Recv /\ NoCall.op # Close
        BY DEF NoCall, Recv, Close
      <3> QED
        BY <1>0, <1>3, <3>1, <3>2 DEF ControlInv, HostInv
    <2>2. CloseInv'
      <3>1. BeforeBody' /\ slot'.cmd = Close => slot' = slot /\ BeforeBody
        BY <1>3, <1>6 DEF BeforeBody
      <3> QED
        BY <1>0, <1>3, <1>9, <3>1 DEF ControlInv, CloseInv
    <2>3. RecvInv'
      BY <1>8 DEF RecvInv
    <2>4. CacheInv'
      BY <1>0, <1>3, <1>5, <1>9, Zenon DEF ControlInv, CacheInv, Pending
    <2> QED
      BY <1>6, <2>1, <2>2, <2>3, <2>4 DEF ControlInv
  <1>12. /\ \A h \in Handles : Limbo(h) = IF cache.ok /\ h = a THEN cache.buf ELSE << >>
         /\ \A h \in Handles : Limbo(h)' = IF cache.ok /\ h = a /\ host'.rseq = host.rseq
                                          THEN cache.buf ELSE << >>
    <2>1. AfterBody => slot.cmd # Recv /\ slot' = slot
      BY <1>6, <1>7
    <2>2. \A h \in Handles : Limbo(h) = IF cache.ok /\ h = a THEN cache.buf ELSE << >>
      BY <1>3, <1>5, <2>1 DEF Limbo
    <2>3. \A h \in Handles : Limbo(h)' = IF cache.ok /\ h = a /\ host'.rseq = host.rseq
                                         THEN cache.buf ELSE << >>
      BY <1>3, <1>5, <1>6, <2>1 DEF Limbo
    <2> QED
      BY <2>2, <2>3
  <1>13. ASSUME NEW h \in Handles, h # a PROVE StreamInv(h)'
    <2>1. StreamInv(h) /\ Limbo(h)' = Limbo(h)
      BY <1>0, <1>12, <1>13
    <2>2. RingSynced(h) => RingSynced(h)'
      BY <1>0, <1>1, <1>2, <1>3, <1>9, <1>13, RingOther
    <2> QED
      BY <1>3, <1>9, <1>13, <2>1, <2>2, StreamFrame, Zenon
  <1>14. StreamInv(a)'
    <2>1. Streamed(net[a], got[a]) /\ FallbackSynced(a)
      BY <1>0, <1>3, <1>4 DEF StreamInv
    <2>2. SUFFICES Streamed(net[a], got'[a]) /\ FallbackSynced(a)'
      BY <1>3 DEF StreamInv
    <2>3. CASE got' = got /\ (~cache.ok \/ host' = host)
      BY <1>3, <1>12, <2>1, <2>3, Zenon DEF FallbackSynced
    <2>4. CASE cache.ok /\ host'.rseq # host.rseq /\ got' = [got EXCEPT ![a] = @ \o cache.buf]
      <3>1. /\ got'[a] = got[a] \o cache.buf /\ got[a] \in Seq(Byte) /\ cache.buf \in Seq(Byte)
            /\ net[a] \in Conns
        BY <1>0, <2>4 DEF TypeInv, Caches
      <3>2. Limbo(a) = cache.buf /\ Limbo(a)' = << >>
        BY <1>12, <2>4
      <3>3. PICK g \in Nat, m \in Nat, u \in Nat, s \in Nat :
                /\ g = Len(got[a]) /\ m = Len(cache.buf) /\ u = Len(net[a].unread)
                /\ s = net[a].sent /\ g + m + u = s
        <4>1. /\ net[a].unread \in Seq(Byte) /\ net[a].sent \in Nat
          BY <3>1 DEF Conns
        <4>2. Len(got[a]) \in Nat /\ Len(cache.buf) \in Nat /\ Len(net[a].unread) \in Nat
          BY <3>1, <4>1
        <4> QED
          BY <2>1, <3>2, <4>1, <4>2, Zenon DEF FallbackSynced
      <3>4. After(net[a].gen, 0, got[a]) /\ After(net[a].gen, 0 + Len(got[a]), cache.buf)
        <4>1. 0 + g = g
          OBVIOUS
        <4>2. After(net[a].gen, Len(got[a]), cache.buf)
          BY <2>1, <3>2 DEF FallbackSynced
        <4> QED
          BY <2>1, <3>3, <4>1, <4>2 DEF Streamed
      <3>5. /\ Len(got[a] \o cache.buf) = Len(got[a]) + Len(cache.buf)
            /\ After(net[a].gen, 0, got[a] \o cache.buf)
        <4>1. 0 \in Nat
          OBVIOUS
        <4> QED
          BY <3>1, <3>4, <4>1, AfterJoin
      <3>6. Streamed(net[a], got'[a])
        BY <2>1, <3>1, <3>5 DEF Streamed
      <3>7. Len(got'[a]) = g + m
        BY <3>1, <3>3, <3>5
      <3>8. (g + m) + 0 + u = s /\ g + m \in Nat /\ Len(<< >>) = 0
        <4>1. g + m + u = s
          BY <3>3, Zenon
        <4> QED
          BY <4>1
      <3>9. After(net[a].gen, g + m, << >>)
        BY <3>8, AfterEmpty
      <3>10. FallbackSynced(a)'
        BY <1>3, <3>2, <3>3, <3>7, <3>8, <3>9, Zenon DEF FallbackSynced
      <3> QED
        BY <3>6, <3>10
    <2> QED
      BY <1>9, <2>3, <2>4, Zenon
  <1> QED
    BY <1>10, <1>11, <1>13, <1>14 DEF IInv

(* What the worker does with a recv that missed: after the discard nothing *)
(* finished is left to collect.                                            *)
LEMMA RecvRouted ==
    ASSUME TypeInv, host.call.op = Recv,
           handle_worker_routed(Recv, W!worker_discard_stale_recv(slot, Recv))
    PROVE  /\ SlotMoves(Recv, host.call, host.call.h) /\ UNCHANGED <<host, got>>
           /\ \/ jobSeq' = jobSeq /\ slot' \in {slot, W!FreeSlot}
              \/ jobSeq' = host.rseq /\ slot' # slot
  <1> DEFINE s == W!worker_discard_stale_recv(slot, Recv)
  <1>1. slot \in Slots
    BY DEF TypeInv
  <1>2. slot.st \in {"IDLE", "QUEUED", "RUNNING", "DONE", "ERR"}
    BY <1>1 DEF Slots, W!SlotStates
  <1>3. /\ s = slot \/ (s = W!FreeSlot /\ W!Terminal(slot))
        /\ s.cmd = Recv => ~W!Terminal(s)
    BY DEF W!worker_discard_stale_recv, W!FreeSlot, Recv
  <1>4. ~Collect(Recv, s)
    BY <1>3 DEF Collect, W!worker_poll, W!Terminal
  <1>5. CASE StillBusy(Recv, s)
    <2>1. slot' = s /\ UNCHANGED <<host, got, jobSeq>>
      BY <1>5 DEF StillBusy, Lost
    <2>2. W!Terminal(slot) => ~W!InFlight(slot)
      BY DEF W!Terminal, W!InFlight
    <2> QED
      BY <1>3, <2>1, <2>2 DEF SlotMoves
  <1>6. CASE Submit(Recv, s)
    <2>1. ~W!InFlight(s) /\ ~W!InFlight(slot)
      BY <1>3, <1>6 DEF Submit, W!worker_poll, W!InFlight, W!Terminal, W!FreeSlot
    <2>2. W!SlotAfterPoll(s, Recv).st = "IDLE"
      <3>1. W!FreeSlot.st = "IDLE"
        BY DEF W!FreeSlot
      <3>2. s.st \in {"IDLE", "DONE", "ERR"}
        BY <1>2, <1>3, <2>1, <3>1 DEF W!InFlight
      <3>3. CASE W!Terminal(s)
        BY <1>3, <3>1, <3>3 DEF W!SlotAfterPoll
      <3>4. CASE ~W!Terminal(s)
        BY <3>2, <3>4 DEF W!SlotAfterPoll, W!Terminal
      <3> QED
        BY <3>3, <3>4
    <2>3. slot' = [st |-> "QUEUED", cmd |-> Recv, req |-> host.call, seq |-> host.call.h,
                   res |-> << >>]
      BY <1>6, <2>2 DEF Submit, W!worker_submit
    <2>4. slot' # slot
      BY <2>1, <2>3 DEF W!InFlight
    <2> QED
      BY <1>6, <2>1, <2>3, <2>4 DEF Submit, SlotMoves, Lost
  <1> QED
    BY <1>4, <1>5, <1>6 DEF handle_worker_routed

(* A miss: nothing of this handle is in the cache, and the call is queued  *)
(* or waits for the job ahead of it.                                       *)
LEMMA PollRecvWorkerInv == IInv /\ PollRecvWorker => IInv'
  <1> SUFFICES ASSUME IInv, PollRecvWorker PROVE IInv'
    OBVIOUS
  <1>0. TypeInv /\ ControlInv /\ \A h \in Handles : StreamInv(h)
    BY DEF IInv
  <1>1. /\ host.call.op = Recv /\ host.call \in AnyCall /\ host.rseq \in Nat
        /\ host.call = [op |-> Recv, h |-> host.call.h, max |-> host.call.max]
    BY <1>0, HostFields, CallFields DEF PollRecvWorker
  <1>2. PICK a \in Handles : a = host.call.h
    BY <1>1, CallFields DEF Recv
  <1>3. /\ ring.owner # a /\ last' = Key /\ ~CacheHit /\ cache' = CacheAfterCheck
        /\ UNCHANGED <<net, ring, drain>>
    BY <1>2 DEF PollRecvWorker
  <1>4. a \notin host.shut /\ net[a].open /\ host.call.max \in Nat /\ host.call \in Calls
        /\ Pending(a, host.call.max)
    BY <1>0, <1>1, <1>2, CallFields DEF ControlInv, HostInv, Recv, Pending
  <1>5. cache' \in Caches /\ ~cache'.valid /\ (~cache.valid => cache' = cache) /\ Key \in Keys
    BY <1>0, <1>1, <1>2, <1>3, <1>4, CacheChecked DEF Key, Keys
  <1>6. /\ SlotMoves(Recv, host.call, a) /\ UNCHANGED <<host, got>>
        /\ \/ jobSeq' = jobSeq /\ slot' \in {slot, W!FreeSlot}
           \/ jobSeq' = host.rseq /\ slot' # slot
    BY <1>0, <1>1, <1>2, RecvRouted, Zenon DEF PollRecvWorker
  <1>7. /\ slot' \in Slots /\ JobInv' /\ (W!InFlight(slot) => slot' = slot)
        /\ AfterBody' = AfterBody /\ (AfterBody => slot' = slot)
        /\ (W!InFlight(slot) \/ BeforeBody \/ AfterBody) <=> W!InFlight(slot)
        /\ BeforeBody' => W!InFlight(slot)'
        /\ W!InFlight(slot)' /\ slot' # slot =>
                 ~AfterBody /\ slot'.cmd = Recv /\ slot'.req = host.call
    <2>1. JobInv /\ drain' = drain /\ a \in {0} \cup Handles
      BY <1>0, <1>3 DEF ControlInv
    <2> QED
      BY <1>0, <1>1, <1>4, <1>6, <2>1, JobMoves DEF Recv, Connect, Close, Other
  <1>8. TypeInv'
    BY <1>0, <1>1, <1>3, <1>5, <1>6, <1>7, Zenon DEF TypeInv
  <1>9. ControlInv'
    <2>1. HostInv'
      BY <1>0, <1>3, <1>6, Zenon DEF ControlInv, HostInv
    <2>2. CloseInv'
      <3>1. BeforeBody' /\ slot'.cmd = Close => slot' = slot /\ BeforeBody
        BY <1>3, <1>7 DEF BeforeBody, Recv, Close
      <3> QED
        BY <1>0, <1>3, <1>5, <1>6, <3>1 DEF ControlInv, CloseInv
    <2>3. RecvInv'
      <3>1. CASE slot' = slot
        <4>1. jobSeq' = jobSeq
          BY <1>6, <3>1
        <4> QED
          BY <1>0, <1>3, <1>5, <1>6, <1>7, <3>1, <4>1, Zenon
             DEF ControlInv, RecvInv, Pending, W!InFlight
      <3>2. CASE slot' # slot /\ W!InFlight(slot)'
        <4>1. slot'.cmd = Recv /\ slot'.req = host.call /\ ~AfterBody' /\ jobSeq' = host.rseq
          BY <1>6, <1>7, <3>2 DEF W!InFlight, W!FreeSlot
        <4>2. drain'.pc # "publish"
          BY <4>1 DEF AfterBody
        <4> QED
          BY <1>2, <1>3, <1>4, <1>5, <1>6, <4>1, <4>2, Zenon DEF RecvInv, Pending
      <3> QED
        BY <3>1, <3>2, Zenon DEF RecvInv
    <2>4. CacheInv'
      BY <1>5 DEF CacheInv
    <2> QED
      BY <1>7, <2>1, <2>2, <2>3, <2>4 DEF ControlInv
  <1>10. ASSUME NEW h \in Handles PROVE StreamInv(h)'
    <2>1. StreamInv(h)
      BY <1>0
    <2>2. h \notin host.shut => Limbo(h)' = Limbo(h)
      <3> SUFFICES ASSUME h \notin host.shut PROVE Limbo(h)' = Limbo(h)
        OBVIOUS
      <3>1. ~(cache.valid /\ cache.ok /\ cache.key.h = h /\ cache.key.seq = host.rseq)
        BY <1>0, <1>1, <1>3, OthersIdle, Zenon DEF CacheHit
      <3>2. CASE AfterBody
        BY <1>3, <1>5, <1>7, <3>1, <3>2 DEF Limbo
      <3>3. CASE ~AfterBody
        BY <1>3, <1>5, <1>7, <3>1, <3>3 DEF Limbo
      <3> QED
        BY <3>2, <3>3
    <2>3. ring.owner = h /\ RingSynced(h) => RingSynced(h)'
      BY <1>0, <1>1, <1>2, <1>3, <1>6, RingOther
    <2> QED
      BY <1>3, <1>6, <2>1, <2>2, <2>3, StreamFrame, Zenon
  <1> QED
    BY <1>8, <1>9, <1>10 DEF IInv

-------------------------------------------------------------------------------
(* The other opcodes. *)

(* A call that is not a recv ends: the recvs to be repeated are the same.  *)
LEMMA PendingKept ==
    ASSUME host'.owed = host.owed, host' = host \/ (host.call.op # Recv /\ host'.call = NoCall)
    PROVE  \A h, m : Pending(h, m)' = Pending(h, m)
  <1> SUFFICES ASSUME NEW h, NEW m PROVE Pending(h, m)' = Pending(h, m)
    BY Zenon
  <1> DEFINE k == [op |-> Recv, h |-> h, max |-> m]
  <1>1. CASE host' = host
    BY <1>1, Zenon DEF Pending
  <1>2. CASE host.call.op # Recv /\ host'.call = NoCall
    <2>1. k.op = Recv /\ NoCall.op # Recv
      BY DEF NoCall, Recv
    <2>2. k # host.call /\ k # host'.call
      BY <1>2, <2>1, Zenon
    <2>3. Pending(h, m) = (k \in {host.call, host.owed})
      BY Zenon DEF Pending
    <2>4. Pending(h, m)' = (k \in {host'.call, host'.owed})
      BY Zenon DEF Pending
    <2> HIDE DEF k
    <2> QED
      BY <2>2, <2>3, <2>4
  <1> QED
    BY <1>1, <1>2, Zenon

(* A dispatch of another opcode: it may end the call that is not a recv,   *)
(* and drop a cached answer of a handle the host asked to close.           *)
LEMMA QuietPoll ==
    ASSUME IInv, UNCHANGED <<net, ring, jobSeq, last, drain, got>>,
           NEW op \in {Connect, Close, Other}, NEW c \in AnyCall, NEW n \in {0} \cup Handles,
           op = Other \/ (c \in Calls /\ c.op = op), SlotMoves(op, c, n),
           host' \in Hosts, host'.rseq = host.rseq, host'.shut = host.shut,
           host'.owed = host.owed, host' = host \/ (host.call.op # Recv /\ host'.call = NoCall),
           cache' = cache \/ (cache' = NoCache /\ cache.valid /\ cache.key.h \in host.shut),
           op = Close => c.h \in host.shut /\ ~(cache'.valid /\ cache'.key.h = c.h)
    PROVE  IInv'
  <1>0. TypeInv /\ ControlInv /\ \A h \in Handles : StreamInv(h)
    BY DEF IInv
  <1>1. /\ slot' \in Slots /\ JobInv' /\ (W!InFlight(slot) => slot' = slot)
        /\ AfterBody' = AfterBody /\ (AfterBody => slot' = slot)
        /\ (W!InFlight(slot) \/ BeforeBody \/ AfterBody) <=> W!InFlight(slot)
        /\ BeforeBody' => W!InFlight(slot)'
        /\ W!InFlight(slot)' /\ slot' # slot => ~AfterBody /\ slot'.cmd = op /\ slot'.req = c
    <2>1. JobInv /\ drain' = drain /\ op \in {Recv, Connect, Close, Other}
      BY <1>0, Zenon DEF ControlInv
    <2> QED
      BY <1>0, <2>1, JobMoves
  <1>2. cache' \in Caches /\ ~NoCache.valid
    <2>1. NoCache \in Caches /\ ~NoCache.valid
      BY EmptyCache
    <2>2. cache \in Caches
      BY <1>0, Zenon DEF TypeInv
    <2> QED
      BY <2>1, <2>2
  <1>3. NoCall.op # Recv /\ NoCall.op # Close /\ op # Recv
    BY DEF NoCall, Recv, Connect, Close, Other
  <1>4. \A h, m : Pending(h, m)' = Pending(h, m)
    BY PendingKept, Zenon
  <1>5. TypeInv'
    BY <1>0, <1>1, <1>2 DEF TypeInv
  <1>6. HostInv'
    BY <1>0, <1>3, Zenon DEF ControlInv, HostInv
  <1>7. CloseInv'
    <2>1. CASE slot' = slot
      BY <1>0, <1>2, <2>1, Zenon DEF ControlInv, CloseInv, BeforeBody
    <2>2. CASE slot' # slot /\ BeforeBody' /\ slot'.cmd = Close
      BY <1>1, <2>2 DEF CloseInv
    <2> QED
      BY <2>1, <2>2 DEF CloseInv
  <1>8. RecvInv'
    <2>1. CASE slot' = slot
      <3>1. RecvInv
        BY <1>0 DEF ControlInv
      <3>2. \A h, m : Pending(h, m)' <=> Pending(h, m)
        BY <1>4
      <3>3. W!InFlight(slot) /\ slot.cmd = Recv => cache' = cache
        BY <3>1 DEF RecvInv
      <3> QED
        BY <1>1, <2>1, <3>1, <3>2, <3>3 DEF RecvInv, W!InFlight
    <2>2. CASE slot' # slot
      BY <1>1, <1>3, <2>2, Zenon DEF RecvInv
    <2> QED
      BY <2>1, <2>2, Zenon
  <1>9. CacheInv'
    <2>1. \A h, m : Pending(h, m)' <=> Pending(h, m)
      BY <1>4
    <2> QED
      BY <1>0, <1>2, <2>1 DEF ControlInv, CacheInv
  <1>10. ASSUME NEW h \in Handles PROVE StreamInv(h)'
    <2>1. StreamInv(h)
      BY <1>0
    <2>2. h \notin host.shut => Limbo(h)' = Limbo(h)
      <3>1. CASE AfterBody
        BY <1>1, <1>2, <3>1 DEF Limbo
      <3>2. CASE ~AfterBody
        BY <1>1, <1>2, <3>2 DEF Limbo
      <3> QED
        BY <3>1, <3>2
    <2>3. RingSynced(h) => RingSynced(h)'
      BY <1>4, Zenon DEF RingSynced
    <2> QED
      BY <2>1, <2>2, <2>3, StreamFrame, Zenon
  <1> QED
    BY <1>1, <1>5, <1>6, <1>7, <1>8, <1>9, <1>10 DEF IInv, ControlInv

(* What the worker does with a connect or a close. *)
LEMMA ControlRouted ==
    ASSUME TypeInv, NEW op \in {Connect, Close}, host.call.op = op, handle_worker_routed(op, slot)
    PROVE  /\ SlotMoves(op, host.call, host.call.h) /\ jobSeq' = jobSeq /\ got' = got
           /\ host' \in Hosts /\ host'.rseq = host.rseq /\ host'.shut = host.shut
           /\ host'.owed = host.owed /\ (host' = host \/ host'.call = NoCall)
  <1>1. slot \in Slots /\ host \in Hosts
    BY DEF TypeInv
  <1>2. slot.st \in {"IDLE", "QUEUED", "RUNNING", "DONE", "ERR"} /\ slot.res \in Seq(Byte)
    BY <1>1 DEF Slots, W!SlotStates
  <1>3. op # Recv
    BY DEF Recv, Connect, Close
  <1>4. CASE StillBusy(op, slot)
    BY <1>1, <1>4 DEF StillBusy, SlotMoves, Lost
  <1>5. CASE Submit(op, slot)
    <2>1. ~W!InFlight(slot)
      BY <1>5 DEF Submit, W!worker_poll, W!InFlight
    <2>2. W!SlotAfterPoll(slot, op).st = "IDLE"
      <3>1. slot.cmd = op => slot.st = "IDLE"
        BY <1>5 DEF Submit, W!worker_poll
      <3> QED
        BY <1>2, <2>1, <3>1 DEF W!SlotAfterPoll, W!Terminal, W!InFlight, W!FreeSlot
    <2>3. slot' = [st |-> "QUEUED", cmd |-> op, req |-> host.call, seq |-> host.call.h,
                   res |-> << >>]
      BY <1>5, <2>2 DEF Submit, W!worker_submit
    <2> QED
      BY <1>1, <1>3, <1>5, <2>1, <2>3 DEF Submit, SlotMoves, Lost
  <1>6. CASE Collect(op, slot)
    <2>1. slot' = W!FreeSlot /\ ~W!InFlight(slot) /\ jobSeq' = jobSeq
      BY <1>6 DEF Collect, W!worker_poll, W!InFlight
    <2>2. Answer(slot.st = "DONE", slot.res) \/ Lost
      BY <1>6 DEF Collect
    <2>3. (slot.st = "DONE") \in BOOLEAN
      OBVIOUS
    <2>4. CASE Answer(slot.st = "DONE", slot.res)
      BY <1>2, <1>3, <2>1, <2>3, <2>4, Answered, Zenon DEF SlotMoves
    <2>5. CASE Lost
      BY <1>1, <2>1, <2>5 DEF SlotMoves, Lost
    <2> QED
      BY <2>2, <2>4, <2>5
  <1> QED
    BY <1>4, <1>5, <1>6 DEF handle_worker_routed

(* SOCK_CONNECT and SOCK_CLOSE. *)
LEMMA PollControlInv == IInv /\ PollControl => IInv'
  <1> SUFFICES ASSUME IInv, PollControl PROVE IInv'
    OBVIOUS
  <1>0. TypeInv /\ ControlInv
    BY DEF IInv
  <1>1. PICK op \in {Connect, Close} : host.call.op = op
    BY DEF PollControl
  <1>2. host.call \in AnyCall /\ host.call \in Calls /\ host.call.h \in Handles /\ op # Recv
    BY <1>0, <1>1, HostFields, CallFields DEF Recv, Connect, Close
  <1>3. UNCHANGED <<net, ring, last, drain>> /\ handle_worker_routed(op, slot)
    BY <1>1 DEF PollControl
  <1>4. /\ SlotMoves(op, host.call, host.call.h) /\ jobSeq' = jobSeq /\ got' = got
        /\ host' \in Hosts /\ host'.rseq = host.rseq /\ host'.shut = host.shut
        /\ host'.owed = host.owed /\ (host' = host \/ host'.call = NoCall)
    BY <1>0, <1>1, <1>3, ControlRouted
  <1>5. op = Close => host.call.h \in host.shut
    BY <1>0, <1>1 DEF ControlInv, HostInv
  <1>6. /\ cache' = cache \/ (cache' = NoCache /\ cache.valid /\ cache.key.h \in host.shut)
        /\ op = Close => ~(cache'.valid /\ cache'.key.h = host.call.h)
    <2>1. ~NoCache.valid
      BY DEF NoCache
    <2> QED
      BY <1>1, <1>5, <2>1 DEF PollControl
  <1> QED
    BY <1>1, <1>2, <1>3, <1>4, <1>5, <1>6, QuietPoll, Zenon

(* Another opcode of another thread. *)
LEMMA PollOtherInv == IInv /\ PollOther => IInv'
  <1> SUFFICES ASSUME IInv, PollOther PROVE IInv'
    OBVIOUS
  <1>0. TypeInv /\ host \in Hosts /\ slot \in Slots
    BY DEF IInv, TypeInv
  <1>1. slot.st \in {"IDLE", "QUEUED", "RUNNING", "DONE", "ERR"}
    BY <1>0 DEF Slots, W!SlotStates
  <1>2. UNCHANGED <<net, ring, jobSeq, cache, last, drain, host, got>>
    BY DEF PollOther
  <1>3. SlotMoves(Other, NoCall, 0)
    <2> DEFINE s == W!SlotAfterPoll(slot, Other)
    <2>1. s = slot \/ (s = W!FreeSlot /\ ~W!InFlight(slot))
      BY DEF W!SlotAfterPoll, W!Terminal, W!InFlight
    <2>2. s.cmd = Other => s = slot
      BY <2>1 DEF W!FreeSlot, Other
    <2>3. CASE s.cmd = Other
      BY <2>2, <2>3 DEF PollOther, SlotMoves, W!Terminal, W!InFlight
    <2>4. CASE s.cmd # Other
      <3>1. slot' = W!worker_submit(s, Other, NoCall, 0)
        BY <2>4 DEF PollOther
      <3>2. CASE s.st = "IDLE"
        <4>1. ~W!InFlight(slot)
          BY <2>1, <3>2 DEF W!InFlight
        <4> QED
          BY <3>1, <3>2, <4>1 DEF SlotMoves, W!worker_submit
      <3>3. CASE s.st # "IDLE"
        BY <2>1, <3>1, <3>3 DEF SlotMoves, W!worker_submit, W!FreeSlot
      <3> QED
        BY <3>2, <3>3
    <2> QED
      BY <2>3, <2>4
  <1>4. Other \in {Connect, Close, Other} /\ NoCall \in AnyCall /\ 0 \in {0} \cup Handles
        /\ Other # Close
    BY DEF AnyCall, Other, Close
  <1> QED
    BY <1>0, <1>2, <1>3, <1>4, QuietPoll

-------------------------------------------------------------------------------
(* The drain. *)

(* The request of a job in flight. *)
LEMMA JobFields ==
    ASSUME TypeInv, ControlInv, W!InFlight(slot), slot.cmd # Other
    PROVE  slot.req.h \in Handles /\ slot.req.max \in Nat /\ slot.req \in Calls
  <1>1. slot.req \in AnyCall /\ slot.req \in Calls
    BY DEF ControlInv, JobInv, AnyCall
  <1> QED
    BY <1>1, CallFields DEF Calls

(* A job is taken. *)
LEMMA DrainTakeInv == IInv /\ DrainTake => IInv'
  <1> SUFFICES ASSUME IInv, DrainTake PROVE IInv'
    OBVIOUS
  <1>0. TypeInv /\ ControlInv /\ \A h \in Handles : StreamInv(h)
    BY DEF IInv
  <1>1. /\ drain.pc = "sleep" /\ slot.st = "QUEUED"
        /\ UNCHANGED <<net, ring, jobSeq, cache, last, host, got>>
    BY DEF DrainTake
  <1>2. drain' \in Drains /\ drain'.pc = "taken"
    <2>1. drain' = [pc |-> "taken", ok |-> TRUE, buf |-> << >>]
      BY Zenon DEF DrainTake, Asleep
    <2>2. << >> \in Seq(Byte)
      OBVIOUS
    <2> QED
      BY <2>1, <2>2 DEF Drains
  <1>3. /\ slot' \in Slots /\ slot'.st = "RUNNING" /\ slot'.cmd = slot.cmd /\ slot'.req = slot.req
    BY <1>0, Zenon DEF DrainTake, W!TakeJob, TypeInv, Slots, W!SlotStates
  <1>4. TypeInv'
    BY <1>0, <1>1, <1>2, <1>3 DEF TypeInv
  <1>5. ControlInv'
    <2> USE DEF ControlInv
    <2>1. HostInv'
      BY <1>0, <1>1 DEF HostInv
    <2>2. JobInv'
      BY <1>0, <1>1, <1>2, <1>3 DEF JobInv, W!InFlight
    <2>3. CloseInv'
      BY <1>0, <1>1, <1>2, <1>3 DEF CloseInv, BeforeBody
    <2>4. RecvInv'
      BY <1>0, <1>1, <1>2, <1>3 DEF RecvInv, W!InFlight, AfterBody, Pending
    <2>5. CacheInv'
      BY <1>0, <1>1 DEF CacheInv, Pending
    <2> QED
      BY <2>1, <2>2, <2>3, <2>4, <2>5
  <1>6. ASSUME NEW h \in Handles PROVE StreamInv(h)'
    <2>1. Limbo(h)' = Limbo(h)
      BY <1>1, <1>2, <1>3 DEF Limbo, AfterBody
    <2>2. RingSynced(h) => RingSynced(h)'
      BY <1>1, Zenon DEF RingSynced, Pending
    <2> QED
      BY <1>0, <1>1, <2>1, <2>2, StreamFrame, Zenon
  <1> QED
    BY <1>4, <1>5, <1>6 DEF IInv

(* SOCK_RECV's body: what it takes off lwIP's queue it holds. *)
LEMMA RecvBodyInv ==
    ASSUME IInv, drain.pc = "taken", slot.cmd = Recv, cc3501e_hw_sock_recv(slot.req.h, slot.req.max),
           UNCHANGED <<slot, jobSeq, cache, last, host>>
    PROVE  IInv'
  <1>0. TypeInv /\ ControlInv /\ \A h \in Handles : StreamInv(h)
    BY DEF IInv
  <1>1. slot.st = "RUNNING" /\ W!InFlight(slot)
    BY <1>0 DEF ControlInv, JobInv, W!InFlight
  <1>2. PICK a \in Handles : a = slot.req.h
    BY <1>0, <1>1, JobFields DEF Recv, Other
  <1>3. slot.req.max \in Nat
    BY <1>0, <1>1, JobFields DEF Recv, Other
  <1>4. net[a].open /\ ring.owner # a /\ ~cache.valid
    BY <1>0, <1>1, <1>2 DEF ControlInv, RecvInv
  <1>5. net[a] \in Conns /\ got[a] \in Seq(Byte) /\ Streamed(net[a], got[a])
    BY <1>0 DEF TypeInv, StreamInv
  <1>6. UNCHANGED <<ring, got>>
    BY DEF cc3501e_hw_sock_recv
  <1>7. PICK d \in Conns :
            /\ net' = [net EXCEPT ![a] = d] /\ d.open = net[a].open /\ d.gen = net[a].gen
            /\ d.sent = net[a].sent /\ Streamed(d, got[a])
            /\ drain' \in Drains /\ drain'.pc = "ran" /\ (~drain'.ok => drain'.buf = << >>)
            /\ Len(drain'.buf) + Len(d.unread) = Len(net[a].unread)
            /\ After(net[a].gen, net[a].sent - Len(net[a].unread), drain'.buf)
    <2>1. PICK u \in Nat, s \in Nat : u = Len(net[a].unread) /\ s = net[a].sent /\ u <= s
      <3>1. net[a].unread \in Seq(Byte) /\ net[a].sent \in Nat
        BY <1>5 DEF Conns
      <3>2. Len(net[a].unread) \in Nat
        BY <3>1
      <3> QED
        BY <1>5, <3>1, <3>2 DEF Streamed
    <2>2. << >> \in Seq(Byte) /\ Len(<< >>) = 0 /\ 0 + u = u /\ After(net[a].gen, s - u, << >>)
      <3>1. s - u \in Nat
        <4>1. u <= s
          BY <2>1
        <4> QED
          BY <4>1
      <3>2. 0 + u = u
        OBVIOUS
      <3> QED
        BY <3>1, <3>2, AfterEmpty
    <2>3. CASE (Ran(TRUE, << >>) \/ Ran(FALSE, << >>)) /\ net' = net
      <3>1. net' = [net EXCEPT ![a] = net[a]]
        BY <1>0, <2>3 DEF TypeInv
      <3>2. drain' \in Drains /\ drain'.pc = "ran" /\ drain'.buf = << >>
        <4>1. PICK ok \in BOOLEAN : drain' = [pc |-> "ran", ok |-> ok, buf |-> << >>]
          BY <2>3, Zenon DEF Ran
        <4> QED
          BY <2>2, <4>1 DEF Drains
      <3> QED
        BY <1>5, <2>1, <2>2, <3>1, <3>2, Zenon
    <2>4. CASE /\ Ran(TRUE, << >>)
               /\ net' = [net EXCEPT ![a].eof = net[a].end = "fin" /\ a \in Streams]
      <3> DEFINE d == [net[a] EXCEPT !.eof = net[a].end = "fin" /\ a \in Streams]
      <3>1. net' = [net EXCEPT ![a] = d]
        BY <2>4
      <3>2. /\ d \in Conns /\ d.open = net[a].open /\ d.gen = net[a].gen /\ d.sent = net[a].sent
            /\ d.unread = net[a].unread
        BY <1>5, Zenon DEF Conns
      <3>3. drain' \in Drains /\ drain'.pc = "ran" /\ drain'.buf = << >>
        BY <2>2, <2>4 DEF Ran, Drains
      <3> HIDE DEF d
      <3>4. Streamed(d, got[a])
        BY <1>5, <3>2 DEF Streamed
      <3> QED
        BY <2>1, <2>2, <3>1, <3>2, <3>3, <3>4, Zenon
    <2>5. ASSUME NEW k \in 0 .. Len(net[a].unread), Ran(TRUE, Take(net[a].unread, k)),
                 net' = [net EXCEPT ![a].unread = Drop(@, k)]
          PROVE  \E d \in Conns :
            /\ net' = [net EXCEPT ![a] = d] /\ d.open = net[a].open /\ d.gen = net[a].gen
            /\ d.sent = net[a].sent /\ Streamed(d, got[a])
            /\ drain' \in Drains /\ drain'.pc = "ran" /\ (~drain'.ok => drain'.buf = << >>)
            /\ Len(drain'.buf) + Len(d.unread) = Len(net[a].unread)
            /\ After(net[a].gen, net[a].sent - Len(net[a].unread), drain'.buf)
      <3> DEFINE d == ReadOff(net[a], k)
      <3>1. net' = [net EXCEPT ![a] = d]
        BY <2>5 DEF ReadOff
      <3>2. /\ d \in Conns /\ d.open = net[a].open /\ d.gen = net[a].gen /\ d.sent = net[a].sent
            /\ Len(d.unread) = Len(net[a].unread) - k
            /\ Streamed(d, got[a])
            /\ Take(net[a].unread, k) \in Seq(Byte) /\ Len(Take(net[a].unread, k)) = k
            /\ After(net[a].gen, net[a].sent - Len(net[a].unread), Take(net[a].unread, k))
        BY <1>5, UnreadCut, Zenon
      <3> HIDE DEF d
      <3>3. drain' \in Drains /\ drain'.pc = "ran" /\ drain'.ok /\ drain'.buf = Take(net[a].unread, k)
        BY <2>5, <3>2 DEF Ran, Drains
      <3>4. Len(drain'.buf) + Len(d.unread) = Len(net[a].unread)
        <4>1. k \in 0 .. u
          BY <2>1
        <4>2. k + (u - k) = u
          BY <4>1
        <4> QED
          BY <2>1, <3>2, <3>3, <4>2, Zenon
      <3> QED
        BY <3>1, <3>2, <3>3, <3>4, Zenon
    <2>6. \A k \in 1 .. MinOf(u, slot.req.max) : k \in 0 .. u
      BY <1>3 DEF MinOf
    <2> QED
      BY <1>2, <2>1, <2>3, <2>4, <2>5, <2>6, Zenon DEF cc3501e_hw_sock_recv
  <1>8. /\ net' \in [Handles -> Conns] /\ net'[a] = d
        /\ \A h \in Handles : h # a => net'[h] = net[h]
    BY <1>0, <1>7, Zenon DEF TypeInv
  <1>9. \A h \in Handles : net'[h].open = net[h].open
    BY <1>7, <1>8
  <1>10. TypeInv'
    BY <1>0, <1>6, <1>7, <1>8 DEF TypeInv
  <1>11. ControlInv'
    <2> USE DEF ControlInv
    <2>1. host.call.op = Recv => host.call.h \in Handles
      BY <1>0, HostFields, CallFields DEF Recv
    <2>2. HostInv'
      BY <1>0, <1>9, <2>1 DEF HostInv
    <2>3. JobInv'
      BY <1>0, <1>1, <1>7 DEF JobInv, W!InFlight
    <2>4. CloseInv'
      BY <1>1, <1>7, Zenon DEF CloseInv, BeforeBody
    <2>5. RecvInv'
      BY <1>0, <1>1, <1>2, <1>6, <1>7, <1>9, Zenon DEF RecvInv, W!InFlight, Pending
    <2>6. CacheInv'
      BY <1>4 DEF CacheInv
    <2> QED
      BY <2>2, <2>3, <2>4, <2>5, <2>6
  <1>12. /\ \A h \in Handles : Limbo(h) = << >>
         /\ \A h \in Handles : Limbo(h)' = IF h = a THEN drain'.buf ELSE << >>
    BY <1>2, <1>4, <1>7, Zenon DEF Limbo, AfterBody
  <1>13. ASSUME NEW h \in Handles, h # a PROVE StreamInv(h)'
    <2>1. RingSynced(h) => RingSynced(h)'
      BY <1>6, <1>8, <1>13, Zenon DEF RingSynced, Pending
    <2> QED
      BY <1>0, <1>6, <1>8, <1>12, <1>13, <2>1, StreamFrame, Zenon
  <1>14. StreamInv(a)'
    <2>1. Streamed(net'[a], got'[a]) /\ ring'.owner # a
      BY <1>4, <1>6, <1>7, <1>8, Zenon
    <2>2. ASSUME a \notin host.shut PROVE FallbackSynced(a)'
      <3>1. Len(got[a]) + Len(<< >>) + Len(net[a].unread) = net[a].sent
        BY <1>0, <1>4, <1>12, <2>2, Zenon DEF StreamInv, FallbackSynced
      <3>2. PICK g \in Nat, u \in Nat, s \in Nat, k \in Nat, v \in Nat :
                /\ g = Len(got[a]) /\ u = Len(net[a].unread) /\ s = net[a].sent
                /\ k = Len(drain'.buf) /\ v = Len(d.unread)
        <4>1. /\ net[a].unread \in Seq(Byte) /\ net[a].sent \in Nat /\ drain'.buf \in Seq(Byte)
              /\ d.unread \in Seq(Byte)
          BY <1>5, <1>7 DEF Conns, Drains
        <4>2. /\ Len(got[a]) \in Nat /\ Len(net[a].unread) \in Nat /\ Len(drain'.buf) \in Nat
              /\ Len(d.unread) \in Nat
          BY <1>5, <4>1
        <4> QED
          BY <4>1, <4>2, Zenon
      <3>3. g + u = s /\ k + v = u
        <4>1. Len(<< >>) = 0
          OBVIOUS
        <4>2. g + 0 + u = s /\ k + v = u
          BY <1>7, <3>1, <3>2, <4>1, Zenon
        <4> QED
          BY <4>2
      <3>4. s - u = g /\ g + k + v = s
        BY <3>3
      <3> QED
        BY <1>6, <1>7, <1>8, <1>12, <3>2, <3>4, Zenon DEF FallbackSynced
    <2> QED
      BY <2>1, <2>2 DEF StreamInv
  <1> QED
    BY <1>10, <1>11, <1>13, <1>14 DEF IInv

(* SOCK_CONNECT's body: a new connection, of which nobody has anything. *)
LEMMA ConnectBodyInv ==
    ASSUME IInv, drain.pc = "taken", slot.cmd = Connect, cc3501e_hw_sock_connect(slot.req.h),
           UNCHANGED <<slot, jobSeq, cache, last, host>>
    PROVE  IInv'
  <1>0. TypeInv /\ ControlInv /\ \A h \in Handles : StreamInv(h)
    BY DEF IInv
  <1>1. slot.st = "RUNNING" /\ W!InFlight(slot) /\ slot.cmd # Recv /\ slot.cmd # Close
        /\ slot.cmd # Other
    BY <1>0 DEF ControlInv, JobInv, W!InFlight, Connect, Recv, Close, Other
  <1>2. PICK a \in Handles : a = slot.req.h
    BY <1>0, <1>1, JobFields
  <1>3. drain' \in Drains /\ drain'.pc = "ran"
    <2>1. PICK ok \in BOOLEAN : drain' = [pc |-> "ran", ok |-> ok, buf |-> << >>]
      BY Zenon DEF cc3501e_hw_sock_connect, Ran
    <2>2. << >> \in Seq(Byte)
      OBVIOUS
    <2> QED
      BY <2>1, <2>2 DEF Drains
  <1>4. JobInv'
    BY <1>0, <1>1, <1>3 DEF ControlInv, JobInv, W!InFlight
  <1>5. CloseInv' /\ RecvInv'
    BY <1>1, Zenon DEF CloseInv, RecvInv
  <1>6. \A h \in Handles : Limbo(h)' = Limbo(h)
    BY <1>1 DEF Limbo
  <1>7. CASE UNCHANGED <<net, ring, got>>
    <2>1. TypeInv'
      BY <1>0, <1>3, <1>7 DEF TypeInv
    <2>2. HostInv' /\ CacheInv'
      BY <1>0, <1>7, Zenon DEF ControlInv, HostInv, CacheInv, Pending
    <2>3. ASSUME NEW h \in Handles PROVE StreamInv(h)'
      <3>1. RingSynced(h) => RingSynced(h)'
        BY <1>7, Zenon DEF RingSynced, Pending
      <3> QED
        BY <1>0, <1>6, <1>7, <3>1, StreamFrame, Zenon
    <2> QED
      BY <1>4, <1>5, <2>1, <2>2, <2>3 DEF IInv, ControlInv
  <1>8. CASE /\ ~net[a].open
             /\ net' = [net EXCEPT ![a].open = TRUE, ![a].gen = @ + 1, ![a].sent = 0,
                                   ![a].unread = << >>, ![a].end = "open"]
             /\ ring' = IF a \in Streams /\ ring.owner = 0
                        THEN [FreeRing EXCEPT !.owner = a] ELSE ring
             /\ got' = [got EXCEPT ![a] = << >>]
    <2> DEFINE d == [net[a] EXCEPT !.open = TRUE, !.gen = @ + 1, !.sent = 0,
                                   !.unread = << >>, !.end = "open"]
               t == [owner |-> a, buf |-> << >>, unc |-> 0, end |-> "open"]
    <2>1. net' = [net EXCEPT ![a] = d]
      BY <1>8, Zenon
    <2>2. d \in Conns /\ d.open /\ d.sent = 0 /\ d.unread = << >> /\ d.gen \in Nat
      <3>1. net[a] \in Conns /\ << >> \in Seq(Byte)
        BY <1>0 DEF TypeInv
      <3>2. net[a].gen + 1 \in Nat
        <4>1. net[a].gen \in Nat
          BY <3>1 DEF Conns
        <4> QED
          BY <4>1
      <3> QED
        BY <3>1, <3>2, Zenon DEF Conns, Ends
    <2> HIDE DEF d
    <2>3. /\ net' \in [Handles -> Conns] /\ net'[a] = d
          /\ \A h \in Handles : h # a => net'[h] = net[h]
      BY <1>0, <2>1, <2>2 DEF TypeInv
    <2>4. /\ got' \in [Handles -> Seq(Byte)] /\ got'[a] = << >>
          /\ \A h \in Handles : h # a => got'[h] = got[h]
      <3>1. << >> \in Seq(Byte)
        OBVIOUS
      <3> QED
        BY <1>0, <1>8, <3>1 DEF TypeInv
    <2>5. t \in Rings /\ t.owner = a /\ t.buf = << >> /\ t.unc = 0 /\ t.end = "open"
      <3>1. << >> \in Seq(Byte)
        OBVIOUS
      <3> QED
        BY <3>1 DEF Rings, Ends
    <2>6. ring' = ring \/ (ring.owner = 0 /\ ring' = t)
      BY <1>8 DEF FreeRing
    <2> HIDE DEF t
    <2>7. ring.owner # a /\ ring' \in Rings
      BY <1>0, <1>8, <2>5, <2>6, Zenon DEF StreamInv, TypeInv
    <2>8. TypeInv'
      BY <1>0, <1>3, <2>3, <2>4, <2>7 DEF TypeInv
    <2>9. HostInv'
      <3>1. host.call.op = Recv => host.call.h \in Handles
        BY <1>0, HostFields, CallFields DEF Recv
      <3> QED
        BY <1>0, <2>2, <2>3, <3>1 DEF ControlInv, HostInv
    <2>10. cache.valid => cache.key.h \in Handles /\ net[cache.key.h].open /\ cache.key.h # a
      BY <1>0, <1>8 DEF ControlInv, CacheInv
    <2>11. CacheInv'
      BY <1>0, <2>3, <2>5, <2>6, <2>10, Zenon DEF ControlInv, CacheInv, Pending
    <2>12. Limbo(a) = << >>
      BY <1>1, <2>10, Zenon DEF Limbo
    <2>13. ASSUME NEW h \in Handles, h # a PROVE StreamInv(h)'
      <3>1. CASE ring' = ring
        <4>1. RingSynced(h) => RingSynced(h)'
          BY <2>3, <2>4, <2>13, <3>1, Zenon DEF RingSynced, Pending
        <4> QED
          BY <1>0, <1>6, <2>3, <2>4, <2>13, <3>1, <4>1, StreamFrame, Zenon
      <3>2. CASE ring.owner = 0 /\ ring' = t
        <4>1. ring.owner # h /\ ring'.owner # h
          BY <2>5, <2>13, <3>2, RecvAssumption
        <4> QED
          BY <1>0, <1>6, <2>3, <2>4, <2>13, <4>1, Zenon DEF StreamInv, FallbackSynced
      <3> QED
        BY <2>6, <3>1, <3>2
    <2>14. StreamInv(a)'
      <3>1. Len(<< >>) = 0 /\ 0 - 0 = 0 /\ 0 - 0 - 0 = 0 /\ 0 + 0 + 0 = 0 /\ 0 + 0 <= 0
            /\ \A i : After(i, 0, << >>)
        BY AfterEmpty
      <3>2. Streamed(net'[a], got'[a])
        <4>1. /\ net'[a].sent = 0 /\ net'[a].unread = << >> /\ got'[a] = << >>
              /\ Len(net'[a].unread) = 0 /\ 0 <= 0
          BY <2>2, <2>3, <2>4, <3>1
        <4> QED
          BY <3>1, <4>1, Zenon DEF Streamed
      <3>3. ASSUME ring'.owner = a PROVE RingPiece(net'[a], ring') /\ RingSynced(a)'
        <4>1. ring' = t
          BY <2>6, <2>7, <3>3
        <4>2. 0 <= 0 /\ (0 + 0) + 0 = 0 + 0
          OBVIOUS
        <4>3. RingPiece(net'[a], ring')
          BY <2>2, <2>3, <2>5, <3>1, <4>1, <4>2, Zenon DEF RingPiece
        <4>4. RingSynced(a)'
          BY <2>2, <2>3, <2>4, <2>5, <3>1, <4>1, <4>2, Zenon DEF RingSynced
        <4> QED
          BY <4>3, <4>4
      <3>4. FallbackSynced(a)'
        BY <1>6, <2>2, <2>3, <2>4, <2>12, <3>1, Zenon DEF FallbackSynced
      <3> QED
        BY <2>2, <2>3, <3>2, <3>3, <3>4, Zenon DEF StreamInv
    <2> QED
      BY <1>4, <1>5, <2>8, <2>9, <2>11, <2>13, <2>14 DEF IInv, ControlInv
  <1> QED
    BY <1>2, <1>7, <1>8, Zenon DEF cc3501e_hw_sock_connect

(* SOCK_CLOSE's body: only a handle the host does not read any more loses  *)
(* its bytes.                                                              *)
LEMMA CloseBodyInv ==
    ASSUME IInv, drain.pc = "taken", slot.cmd = Close, cc3501e_hw_sock_close(slot.req.h),
           UNCHANGED <<slot, jobSeq, cache, last, host>>
    PROVE  IInv'
  <1>0. TypeInv /\ ControlInv /\ \A h \in Handles : StreamInv(h)
    BY DEF IInv
  <1>1. slot.st = "RUNNING" /\ W!InFlight(slot) /\ slot.cmd # Recv /\ slot.cmd # Other
    BY <1>0 DEF ControlInv, JobInv, W!InFlight, Recv, Close, Other
  <1>2. PICK a \in Handles : a = slot.req.h
    BY <1>0, <1>1, JobFields
  <1>3. a \in host.shut \/ ~net[a].open
    BY <1>0, <1>2 DEF ControlInv, CloseInv, BeforeBody
  <1>4. ~(cache.valid /\ cache.key.h = a)
    BY <1>0, <1>2 DEF ControlInv, CloseInv, BeforeBody
  <1> DEFINE d == [net[a] EXCEPT !.open = FALSE, !.unread = << >>, !.eof = FALSE]
  <1>5. /\ ring' = IF ring.owner = a THEN FreeRing ELSE ring
        /\ net' = [net EXCEPT ![a] = d] /\ got' = got
        /\ drain' = [pc |-> "ran", ok |-> net[a].open, buf |-> << >>]
    BY <1>2, Zenon DEF cc3501e_hw_sock_close, Ran
  <1>6. net[a] \in Conns /\ << >> \in Seq(Byte)
    BY <1>0 DEF TypeInv
  <1>7. d \in Conns /\ ~d.open /\ d.sent = net[a].sent /\ d.gen = net[a].gen /\ d.unread = << >>
    BY <1>6, Zenon DEF Conns
  <1>8. drain' \in Drains /\ drain'.pc = "ran"
    <2>1. net[a].open \in BOOLEAN
      BY <1>6 DEF Conns
    <2> QED
      BY <1>5, <1>6, <2>1 DEF Drains
  <1>9. FreeRing \in Rings /\ FreeRing.owner = 0
    BY <1>6 DEF Rings, FreeRing, Ends
  <1> HIDE DEF d
  <1>10. /\ net' \in [Handles -> Conns] /\ net'[a] = d
         /\ \A h \in Handles : h # a => net'[h] = net[h]
    BY <1>0, <1>5, <1>7, Zenon DEF TypeInv
  <1>11. /\ ring' \in Rings /\ ring'.owner # a /\ ring'.owner \in {0, ring.owner}
         /\ ring.owner # a => ring' = ring
    BY <1>0, <1>5, <1>9, RecvAssumption DEF TypeInv
  <1>12. TypeInv'
    BY <1>0, <1>5, <1>8, <1>10, <1>11 DEF TypeInv
  <1>13. HostInv'
    <2>1. host.call.op = Recv => host.call.h \in Handles
      BY <1>0, HostFields, CallFields DEF Recv
    <2>2. host.call.op = Recv => host.call.h # a
      BY <1>0, <1>3 DEF ControlInv, HostInv
    <2> QED
      BY <1>0, <1>10, <2>1, <2>2, Zenon DEF ControlInv, HostInv
  <1>14. JobInv'
    BY <1>0, <1>1, <1>8 DEF ControlInv, JobInv, W!InFlight
  <1>15. CloseInv' /\ RecvInv'
    BY <1>1, <1>8 DEF CloseInv, RecvInv, BeforeBody
  <1>16. CacheInv'
    BY <1>0, <1>4, <1>10, <1>11, RecvAssumption, Zenon DEF ControlInv, CacheInv, Pending
  <1>17. \A h \in Handles : Limbo(h)' = Limbo(h)
    BY <1>1, Zenon DEF Limbo
  <1>18. ASSUME NEW h \in Handles, h # a PROVE StreamInv(h)'
    <2>1. CASE ring' = ring
      <3>1. RingSynced(h) => RingSynced(h)'
        BY <1>5, <1>10, <1>18, <2>1, Zenon DEF RingSynced, Pending
      <3> QED
        BY <1>0, <1>5, <1>10, <1>17, <1>18, <2>1, <3>1, StreamFrame, Zenon
    <2>2. CASE ring.owner = a
      <3>1. ring.owner # h /\ ring'.owner # h
        BY <1>5, <1>9, <1>18, <2>2, RecvAssumption
      <3> QED
        BY <1>0, <1>5, <1>10, <1>17, <1>18, <3>1, Zenon DEF StreamInv, FallbackSynced
    <2> QED
      BY <1>11, <2>1, <2>2
  <1>19. StreamInv(a)'
    <2>1. After(net[a].gen, 0, got[a])
      BY <1>0, Zenon DEF StreamInv, Streamed
    <2>2. PICK s \in Nat : s = net[a].sent
      BY <1>6, Zenon DEF Conns
    <2>3. Len(<< >>) = 0 /\ 0 <= s /\ s - 0 = s /\ After(net[a].gen, s, << >>)
      BY AfterEmpty
    <2>4. Streamed(net'[a], got'[a])
      BY <1>5, <1>7, <1>10, <2>1, <2>2, <2>3, Zenon DEF Streamed
    <2> QED
      BY <1>7, <1>10, <1>11, <2>4, Zenon DEF StreamInv
  <1> QED
    BY <1>12, <1>13, <1>14, <1>15, <1>16, <1>18, <1>19 DEF IInv, ControlInv

(* A body of another opcode leaves the sockets alone. *)
LEMMA OtherBodyInv ==
    ASSUME IInv, drain.pc = "taken", slot.cmd = Other, Ran(TRUE, << >>),
           UNCHANGED <<net, ring, got, slot, jobSeq, cache, last, host>>
    PROVE  IInv'
  <1>0. TypeInv /\ ControlInv /\ \A h \in Handles : StreamInv(h)
    BY DEF IInv
  <1>1. slot.st = "RUNNING" /\ slot.cmd # Recv /\ slot.cmd # Close
    BY <1>0 DEF ControlInv, JobInv, Recv, Close, Other
  <1>2. drain' \in Drains /\ drain'.pc = "ran"
    <2>1. << >> \in Seq(Byte)
      OBVIOUS
    <2> QED
      BY <2>1 DEF Ran, Drains
  <1>3. TypeInv'
    BY <1>0, <1>2 DEF TypeInv
  <1>4. HostInv' /\ CacheInv'
    BY <1>0, Zenon DEF ControlInv, HostInv, CacheInv, Pending
  <1>5. JobInv'
    BY <1>0, <1>1, <1>2, Zenon DEF ControlInv, JobInv, W!InFlight
  <1>6. CloseInv' /\ RecvInv'
    BY <1>1, Zenon DEF CloseInv, RecvInv
  <1>7. ASSUME NEW h \in Handles PROVE StreamInv(h)'
    <2>1. Limbo(h)' = Limbo(h)
      BY <1>1 DEF Limbo
    <2>2. RingSynced(h) => RingSynced(h)'
      BY Zenon DEF RingSynced, Pending
    <2> QED
      BY <1>0, <2>1, <2>2, StreamFrame, Zenon
  <1> QED
    BY <1>3, <1>4, <1>5, <1>6, <1>7 DEF IInv, ControlInv

(* The body of the job that was taken. *)
LEMMA DrainBodyInv == IInv /\ DrainBody => IInv'
  <1> SUFFICES ASSUME IInv, DrainBody PROVE IInv'
    OBVIOUS
  <1>1. drain.pc = "taken" /\ UNCHANGED <<slot, jobSeq, cache, last, host>>
    BY DEF DrainBody
  <1>2. CASE slot.cmd = Recv /\ cc3501e_hw_sock_recv(slot.req.h, slot.req.max)
    BY <1>1, <1>2, RecvBodyInv
  <1>3. CASE slot.cmd = Connect /\ cc3501e_hw_sock_connect(slot.req.h)
    BY <1>1, <1>3, ConnectBodyInv
  <1>4. CASE slot.cmd = Close /\ cc3501e_hw_sock_close(slot.req.h)
    BY <1>1, <1>4, CloseBodyInv
  <1>5. CASE slot.cmd = Other /\ Ran(TRUE, << >>) /\ UNCHANGED <<net, ring, got>>
    BY <1>1, <1>5, OtherBodyInv
  <1> QED
    BY <1>2, <1>3, <1>4, <1>5, Zenon DEF DrainBody

(* The steps of a finished recv up to its publication: the cache stays     *)
(* empty, and the drain keeps the bytes.                                   *)
LEMMA RefillInv ==
    ASSUME IInv, slot.cmd = Recv, drain.pc \in {"ran", "copy"},
           drain' = [drain EXCEPT !.pc = IF drain.pc = "ran" THEN "copy" ELSE "publish"],
           cache' \in Caches, ~cache'.valid, drain.pc = "copy" /\ drain.ok => cache'.buf = drain.buf,
           UNCHANGED <<net, ring, slot, jobSeq, last, host, got>>
    PROVE  IInv'
  <1>0. TypeInv /\ ControlInv /\ \A h \in Handles : StreamInv(h)
    BY DEF IInv
  <1>1. slot.st = "RUNNING" /\ W!InFlight(slot) /\ ~cache.valid /\ AfterBody
    BY <1>0 DEF ControlInv, JobInv, RecvInv, W!InFlight, AfterBody
  <1>2. /\ drain' \in Drains /\ drain'.ok = drain.ok /\ drain'.buf = drain.buf
        /\ drain'.pc = IF drain.pc = "ran" THEN "copy" ELSE "publish"
    BY <1>0, Zenon DEF TypeInv, Drains
  <1>3. AfterBody'
    BY <1>2 DEF AfterBody
  <1>4. TypeInv'
    BY <1>0, <1>2 DEF TypeInv
  <1>5. HostInv'
    BY <1>0 DEF ControlInv, HostInv
  <1>6. JobInv'
    BY <1>0, <1>1, <1>2 DEF ControlInv, JobInv, W!InFlight
  <1>7. CloseInv' /\ CacheInv'
    BY DEF CloseInv, CacheInv, Recv, Close
  <1>8. RecvInv'
    BY <1>0, <1>1, <1>2, <1>3 DEF ControlInv, RecvInv, Pending, W!InFlight
  <1>9. ASSUME NEW h \in Handles PROVE StreamInv(h)'
    <2>1. Limbo(h)' = Limbo(h)
      BY <1>1, <1>2, <1>3 DEF Limbo
    <2>2. RingSynced(h) => RingSynced(h)'
      BY Zenon DEF RingSynced, Pending
    <2> QED
      BY <1>0, <2>1, <2>2, StreamFrame
  <1> QED
    BY <1>4, <1>5, <1>6, <1>7, <1>8, <1>9 DEF IInv, ControlInv

(* The cache is invalidated, then filled. *)
LEMMA DrainRefillInv == IInv /\ (DrainInvalidate \/ DrainCopy) => IInv'
  <1> SUFFICES ASSUME IInv, DrainInvalidate \/ DrainCopy PROVE IInv'
    OBVIOUS
  <1>0. TypeInv /\ ControlInv
    BY DEF IInv
  <1>1. CASE DrainInvalidate
    <2>1. NoCache \in Caches /\ ~NoCache.valid
      BY EmptyCache
    <2> QED
      BY <1>1, <2>1, RefillInv DEF DrainInvalidate
  <1>2. CASE DrainCopy
    <2>1. slot.cmd = Recv /\ slot.st = "RUNNING"
      BY <1>0, <1>2 DEF DrainCopy, ControlInv, JobInv
    <2>2. ~cache.valid
      BY <1>0, <2>1 DEF ControlInv, RecvInv, W!InFlight
    <2>3. cache \in Caches /\ drain.buf \in Seq(Byte)
      BY <1>0 DEF TypeInv, Drains
    <2>4. cache' = IF drain.ok THEN [cache EXCEPT !.buf = drain.buf] ELSE cache
      BY <1>2 DEF DrainCopy
    <2>5. cache' \in Caches /\ ~cache'.valid /\ (drain.ok => cache'.buf = drain.buf)
      BY <2>2, <2>3, <2>4 DEF Caches
    <2> QED
      BY <1>2, <2>1, <2>5, RefillInv DEF DrainCopy
  <1> QED
    BY <1>1, <1>2

(* A finished job is published: the bytes of a recv pass to the cache,     *)
(* under the key of the recv the host is going to repeat.                  *)
LEMMA DrainPublishInv == IInv /\ DrainPublish => IInv'
  <1> SUFFICES ASSUME IInv, DrainPublish PROVE IInv'
    OBVIOUS
  <1>0. TypeInv /\ ControlInv /\ \A h \in Handles : StreamInv(h)
    BY DEF IInv
  <1>1. drain.pc = IF slot.cmd = Recv THEN "publish" ELSE "ran"
    BY DEF DrainPublish
  <1>2. slot.st = "RUNNING" /\ W!InFlight(slot) /\ AfterBody
    BY <1>0, <1>1 DEF ControlInv, JobInv, W!InFlight, AfterBody
  <1>3. UNCHANGED <<net, ring, last, host, got>> /\ jobSeq' = 0
    BY DEF DrainPublish
  <1>4. drain' \in Drains /\ drain'.pc = "sleep"
    <2>1. << >> \in Seq(Byte)
      OBVIOUS
    <2> QED
      BY <2>1 DEF DrainPublish, Asleep, Drains
  <1>5. /\ slot' \in Slots /\ slot'.st \in {"DONE", "ERR"} /\ ~W!InFlight(slot)'
    <2>1. slot \in Slots /\ drain.buf \in Seq(Byte)
      BY <1>0 DEF TypeInv, Drains
    <2>2. slot' \in Slots /\ slot'.st \in {"DONE", "ERR"}
      BY <2>1, Zenon DEF DrainPublish, W!PublishJob, Slots, W!SlotStates
    <2> QED
      BY <2>2 DEF W!InFlight
  <1>6. HostInv'
    BY <1>0, <1>3 DEF ControlInv, HostInv
  <1>7. JobInv'
    BY <1>4, <1>5 DEF JobInv
  <1>8. CloseInv' /\ RecvInv' /\ ~AfterBody'
    BY <1>4, <1>5 DEF CloseInv, RecvInv, BeforeBody, AfterBody
  <1>9. \A h \in Handles : RingSynced(h) => RingSynced(h)'
    BY <1>3, Zenon DEF RingSynced, Pending
  <1>10. CASE slot.cmd # Recv
    <2>1. cache' = cache
      BY <1>10 DEF DrainPublish
    <2>2. TypeInv'
      BY <1>0, <1>3, <1>4, <1>5, <2>1 DEF TypeInv
    <2>3. CacheInv'
      BY <1>0, <1>3, <2>1, Zenon DEF ControlInv, CacheInv, Pending
    <2>4. ASSUME NEW h \in Handles PROVE StreamInv(h)'
      <3>1. Limbo(h)' = Limbo(h)
        BY <1>3, <1>8, <1>10, <2>1 DEF Limbo
      <3> QED
        BY <1>0, <1>3, <1>9, <3>1, StreamFrame, Zenon
    <2> QED
      BY <1>6, <1>7, <1>8, <2>2, <2>3, <2>4 DEF IInv, ControlInv
  <1>11. CASE slot.cmd = Recv
    <2> DEFINE k == [seq |-> jobSeq, h |-> slot.req.h, max |-> slot.req.max]
               b == IF drain.ok THEN cache.buf ELSE << >>
    <2>1. slot.req.h \in Handles /\ slot.req.max \in Nat
      BY <1>0, <1>2, <1>11, JobFields DEF Recv, Other
    <2>2. k \in Keys /\ k.seq = jobSeq /\ k.h = slot.req.h /\ k.max = slot.req.max
      BY <1>0, <2>1 DEF TypeInv, Keys
    <2>3. drain.ok \in BOOLEAN /\ cache.buf \in Seq(Byte) /\ << >> \in Seq(Byte)
      BY <1>0 DEF TypeInv, Drains, Caches
    <2>4. b = drain.buf
      BY <1>0, <1>1, <1>2, <1>11, <2>3 DEF ControlInv, RecvInv
    <2>5. b \in Seq(Byte)
      BY <2>3
    <2>6. cache' = [valid |-> TRUE, ok |-> drain.ok, key |-> k, buf |-> b]
      BY <1>11 DEF DrainPublish
    <2> HIDE DEF k, b
    <2>7. /\ cache' \in Caches /\ cache'.valid /\ cache'.ok = drain.ok /\ cache'.key = k
          /\ cache'.buf = drain.buf
      BY <2>2, <2>3, <2>4, <2>5, <2>6 DEF Caches
    <2>8. TypeInv'
      BY <1>0, <1>3, <1>4, <1>5, <2>7, Zenon DEF TypeInv
    <2>9. /\ net[slot.req.h].open /\ ring.owner # slot.req.h /\ ~cache.valid
          /\ slot.req.h \notin host.shut => jobSeq = host.rseq /\ Pending(slot.req.h, slot.req.max)
          /\ ~drain.ok => drain.buf = << >>
      BY <1>0, <1>2, <1>11 DEF ControlInv, RecvInv
    <2>10. CacheInv'
      BY <1>3, <2>1, <2>2, <2>7, <2>9, Zenon DEF CacheInv, Pending
    <2>11. ASSUME NEW h \in Handles PROVE StreamInv(h)'
      <3>1. ASSUME h \notin host.shut PROVE Limbo(h)' = Limbo(h)
        <4>1. CASE h = slot.req.h
          <5>1. Limbo(h) = drain.buf
            BY <1>2, <1>11, <4>1 DEF Limbo
          <5>2. cache'.key.h = h /\ cache'.key.seq = host'.rseq
            BY <1>3, <2>2, <2>7, <2>9, <3>1, <4>1
          <5>3. Limbo(h)' = IF drain.ok THEN drain.buf ELSE << >>
            BY <1>8, <2>7, <5>2 DEF Limbo
          <5> QED
            BY <2>9, <5>1, <5>3
        <4>2. CASE h # slot.req.h
          <5>1. Limbo(h) = << >>
            BY <2>9, <4>2 DEF Limbo
          <5>2. Limbo(h)' = << >>
            BY <1>8, <2>2, <2>7, <4>2 DEF Limbo
          <5> QED
            BY <5>1, <5>2
        <4> QED
          BY <4>1, <4>2
      <3> QED
        BY <1>0, <1>3, <1>9, <3>1, StreamFrame, Zenon
    <2> QED
      BY <1>6, <1>7, <1>8, <2>8, <2>10, <2>11 DEF IInv, ControlInv
  <1> QED
    BY <1>10, <1>11

-------------------------------------------------------------------------------

(* At boot nothing is open. *)
LEMMA RecvInit == Init => IInv
  <1> SUFFICES ASSUME Init PROVE IInv
    OBVIOUS
  <1>1. PICK b \in Budgets :
            host = [call |-> NoCall, owed |-> NoCall, rseq |-> 1, shut |-> {}, conns |-> b]
    BY Zenon DEF Init
  <1>2. << >> \in Seq(Byte) /\ Len(<< >>) = 0
    OBVIOUS
  <1>3. b \in [Handles -> Nat] /\ 1 \in 1 .. RecvSeqs
    BY RecvAssumption
  <1>4. host \in Hosts /\ host.call = NoCall /\ host.owed = NoCall
    BY <1>1, <1>3 DEF Hosts, AnyCall
  <1>5. net \in [Handles -> Conns] /\ \A h \in Handles :
            net[h].sent = 0 /\ net[h].unread = << >> /\ ~net[h].open
    BY <1>2, Zenon DEF Init, Conns, Ends
  <1>6. ring \in Rings /\ ring.owner = 0
    BY <1>2, Zenon DEF Init, FreeRing, Rings, Ends
  <1>7. slot \in Slots /\ slot.st = "IDLE"
    BY <1>2, Zenon DEF Init, W!FreeSlot, Slots, W!SlotStates, AnyCall
  <1>8. cache \in Caches /\ ~cache.valid /\ last \in Keys
    BY <1>2, Zenon DEF Init, NoCache, NoKey, Keys, Caches
  <1>9. drain \in Drains /\ drain.pc = "sleep"
    BY <1>2, Zenon DEF Init, Asleep, Drains
  <1>10. got \in [Handles -> Seq(Byte)] /\ \A h \in Handles : got[h] = << >>
    BY <1>2 DEF Init
  <1>11. TypeInv
    BY <1>4, <1>5, <1>6, <1>7, <1>8, <1>9, <1>10, Zenon DEF TypeInv, Init
  <1>12. HostInv
    <2>1. host.call.op = "none"
      BY <1>4 DEF NoCall
    <2> QED
      BY <1>4, <2>1 DEF HostInv, Recv, Close
  <1>13. JobInv /\ CloseInv /\ RecvInv /\ CacheInv
    BY <1>7, <1>8, <1>9, Zenon DEF JobInv, CloseInv, RecvInv, CacheInv, BeforeBody, W!InFlight
  <1>14. ASSUME NEW h \in Handles PROVE StreamInv(h)
    <2>1. 0 <= 0 /\ 0 - 0 = 0 /\ ring.owner # h /\ \A i : After(i, 0, << >>)
      BY <1>6, AfterEmpty, RecvAssumption
    <2> QED
      BY <1>2, <1>5, <1>10, <2>1, Zenon DEF StreamInv, Streamed
  <1> QED
    BY <1>11, <1>12, <1>13, <1>14 DEF IInv, ControlInv

(* A step that changes nothing. *)
LEMMA RecvStutter == IInv /\ UNCHANGED vars => IInv'
  <1> SUFFICES ASSUME IInv, UNCHANGED vars PROVE IInv'
    OBVIOUS
  <1> USE DEF vars
  <1>0. TypeInv /\ ControlInv /\ \A h \in Handles : StreamInv(h)
    BY DEF IInv
  <1>1. TypeInv'
    BY <1>0 DEF TypeInv
  <1>2. ControlInv'
    BY <1>0, ControlFrame DEF TypeInv
  <1>3. ASSUME NEW h \in Handles PROVE StreamInv(h)'
    <2>1. Limbo(h)' = Limbo(h)
      BY DEF Limbo, AfterBody
    <2>2. RingSynced(h) => RingSynced(h)'
      BY Zenon DEF RingSynced, Pending
    <2> QED
      BY <1>0, <2>1, <2>2, StreamFrame
  <1> QED
    BY <1>1, <1>2, <1>3 DEF IInv

(* Every step keeps the invariant. *)
LEMMA RecvStep == IInv /\ [Next]_vars => IInv'
  <1> SUFFICES ASSUME IInv, [Next]_vars PROVE IInv'
    OBVIOUS
  <1>1. ASSUME NEW h \in Handles, Arrive(h) PROVE IInv'
    BY <1>1, ArriveInv
  <1>2. ASSUME NEW h \in Handles, NEW how \in {"fin", "rst"}, PeerEnds(h, how) PROVE IInv'
    BY <1>2, PeerEndsInv
  <1>3. ASSUME NEW c \in Calls, Call(c) PROVE IInv'
    BY <1>3, CallInv
  <1>4. CASE GiveUp
    BY <1>4, GiveUpInv
  <1>5. CASE Poll
    BY <1>5, PollRecvRingInv, PollRecvCachedInv, PollRecvWorkerInv, PollControlInv DEF Poll
  <1>6. CASE PollOther
    BY <1>6, PollOtherInv
  <1>7. CASE Drain
    BY <1>7, DrainTakeInv, DrainBodyInv, DrainRefillInv, DrainPublishInv DEF Drain
  <1>8. CASE Pump
    BY <1>8, PumpInv
  <1>9. CASE UNCHANGED vars
    BY <1>9, RecvStutter
  <1> QED
    BY <1>1, <1>2, <1>3, <1>4, <1>5, <1>6, <1>7, <1>8, <1>9 DEF Next

(* Every reachable state satisfies the invariant. *)
LEMMA RecvAlways == Spec => []IInv
  BY RecvInit, RecvStep, PTL DEF Spec

(* A piece in the words of the properties. *)
LEMMA PieceIsBytes ==
    ASSUME NEW h \in Handles, NEW at \in Nat, NEW q \in Seq(Byte), After(net[h].gen, at, q)
    PROVE  q = Bytes(h, at + 1, Len(q))
  <1>1. PICK n \in Nat : n = Len(q)
    OBVIOUS
  <1>2. \A k \in 1 .. n : q[k] = <<net[h].gen, at + k>>
    BY <1>1 DEF After
  <1>3. \A k \in 1 .. n : at + 1 + k - 1 = at + k
    OBVIOUS
  <1>4. q = [k \in 1 .. n |-> q[k]]
    BY <1>1
  <1>5. \A k \in 1 .. n : q[k] = <<net[h].gen, at + 1 + k - 1>>
    BY <1>2, <1>3
  <1> QED
    BY <1>1, <1>4, <1>5, Zenon DEF Bytes

(* What the host has read of a connection is the beginning of what the     *)
(* peer sent on it, for any number of handles, lengths, bytes and seqs     *)
(* (handle_sock_recv, cc3501e_hw_sock_recv_ring, handle_sock_close).       *)
THEOREM StreamKept == Spec => []StreamIntact
  <1>1. ASSUME IInv PROVE StreamIntact
    <2> SUFFICES ASSUME NEW h \in Handles PROVE got[h] = Bytes(h, 1, Len(got[h]))
      BY DEF StreamIntact
    <2>1. got[h] \in Seq(Byte) /\ After(net[h].gen, 0, got[h])
      BY <1>1, Zenon DEF IInv, TypeInv, StreamInv, Streamed
    <2>2. 0 \in Nat /\ 0 + 1 = 1
      OBVIOUS
    <2>3. got[h] = Bytes(h, 0 + 1, Len(got[h]))
      BY <2>1, <2>2, PieceIsBytes
    <2> QED
      BY <2>2, <2>3
  <1> QED
    BY <1>1, RecvAlways, PTL

(* A byte leaves the ring only when the host has accepted it               *)
(* (sock_recv_commit).                                                     *)
THEOREM RingKept == Spec => []RingKeepsUnread
  <1>1. ASSUME IInv PROVE RingKeepsUnread
    <2> SUFFICES ASSUME NEW h \in Handles \ host.shut, ring.owner = h
                 PROVE  LET held == ring.buf \o net[h].unread
                            gone == net[h].sent - Len(held)
                        IN /\ held = Bytes(h, gone + 1, Len(held))
                           /\ Len(got[h]) \in gone .. (gone + ring.unc)
      BY Zenon DEF RingKeepsUnread
    <2> DEFINE c == net[h]
               held == ring.buf \o c.unread
    <2>1. TypeInv /\ Streamed(c, got[h]) /\ RingPiece(c, ring) /\ RingSynced(h)
      BY <1>1, Zenon DEF IInv, StreamInv
    <2>2. /\ c.unread \in Seq(Byte) /\ c.sent \in Nat /\ ring.buf \in Seq(Byte) /\ ring.unc \in Nat
          /\ got[h] \in Seq(Byte)
      BY <2>1, Zenon DEF TypeInv, Conns, Rings
    <2>3. Len(c.unread) \in Nat /\ Len(ring.buf) \in Nat /\ Len(got[h]) \in Nat
      BY <2>2
    <2>4. PICK u \in Nat, s \in Nat, b \in Nat, n \in Nat, g \in Nat :
              /\ u = Len(c.unread) /\ s = c.sent /\ b = Len(ring.buf) /\ n = ring.unc
              /\ g = Len(got[h])
      BY <2>2, <2>3, Zenon
    <2>5. b + u <= s /\ (g + b + u = s + n \/ g + b + u = s)
      <3>1. b + u <= s
        BY <2>1, <2>4, Zenon DEF RingPiece
      <3>2. g + b + u = s + n \/ g + b + u = s
        BY <2>1, <2>4, Zenon DEF RingSynced
      <3> QED
        BY <3>1, <3>2
    <2>6. PICK at \in Nat : at = (s - u) - b /\ at = s - (b + u) /\ at + b = s - u
      <3>1. b + u <= s
        BY <2>5
      <3>2. (s - u) - b \in Nat
        BY <3>1
      <3>3. (s - u) - b = s - (b + u)
        OBVIOUS
      <3>4. ((s - u) - b) + b = s - u
        OBVIOUS
      <3> QED
        BY <3>2, <3>3, <3>4
    <2>7. After(c.gen, at, ring.buf) /\ After(c.gen, at + Len(ring.buf), c.unread)
      BY <2>1, <2>4, <2>6, Zenon DEF RingPiece, Streamed
    <2>8. held \in Seq(Byte) /\ Len(held) = Len(ring.buf) + Len(c.unread) /\ After(c.gen, at, held)
      BY <2>2, <2>7, AfterJoin, Zenon
    <2> HIDE DEF held
    <2>9. held = Bytes(h, at + 1, Len(held))
      BY <2>8, PieceIsBytes, Zenon
    <2>10. at = c.sent - Len(held)
      BY <2>4, <2>6, <2>8, Zenon
    <2>11. g \in at .. (at + n)
      <3>1. at = s - (b + u) /\ (g + b + u = s + n \/ g + b + u = s)
        BY <2>5, <2>6
      <3>2. g = at + n \/ g = at
        BY <3>1
      <3> QED
        BY <3>2
    <2> QED
      BY <2>4, <2>9, <2>10, <2>11, Zenon DEF held
  <1> QED
    BY <1>1, RecvAlways, PTL

(* A byte the worker fallback took from lwIP is with the host, with the    *)
(* drain, or in the completion cache under the key of the recv the host is *)
(* going to repeat (protocol_sock_recv_worker_publish).                    *)
THEOREM FallbackKept == Spec => []FallbackKeepsUnread
  <1>1. ASSUME IInv PROVE FallbackKeepsUnread
    <2> SUFFICES ASSUME NEW h \in Handles \ host.shut, net[h].open, ring.owner # h
                 PROVE  LET here == Len(got[h]) + Len(net[h].unread)
                            mine(c) == c.op = Recv /\ c.h = h
                        IN \/ here = net[h].sent
                           \/ /\ slot.cmd = Recv /\ slot.req.h = h /\ jobSeq = host.rseq
                              /\ drain.pc \in {"ran", "copy", "publish"}
                              /\ here + Len(drain.buf) = net[h].sent
                           \/ /\ cache.valid /\ cache.ok
                              /\ \E c \in {host.call, host.owed} :
                                    mine(c) /\ cache.key = [seq |-> host.rseq, h |-> h, max |-> c.max]
                              /\ here + Len(cache.buf) = net[h].sent
      BY Zenon DEF FallbackKeepsUnread
    <2>0. TypeInv /\ ControlInv /\ FallbackSynced(h)
      BY <1>1, Zenon DEF IInv, StreamInv
    <2>1. PICK g \in Nat, u \in Nat, s \in Nat : g = Len(got[h]) /\ u = Len(net[h].unread)
                                                 /\ s = net[h].sent
      <3>1. got[h] \in Seq(Byte) /\ net[h].unread \in Seq(Byte) /\ net[h].sent \in Nat
        BY <2>0 DEF TypeInv, Conns
      <3> QED
        BY <3>1
    <2>2. g + Len(Limbo(h)) + u = s
      BY <2>0, <2>1, Zenon DEF FallbackSynced
    <2>3. CASE slot.cmd = Recv /\ slot.req.h = h /\ AfterBody
      <3>1. W!InFlight(slot)
        BY <2>0, <2>3 DEF ControlInv, JobInv, AfterBody, W!InFlight
      <3>2. jobSeq = host.rseq
        BY <2>0, <2>3, <3>1, Zenon DEF ControlInv, RecvInv
      <3>3. PICK m \in Nat : m = Len(drain.buf)
        <4>1. drain \in Drains
          BY <2>0, Zenon DEF TypeInv
        <4>2. drain.buf \in Seq(Byte)
          BY <4>1 DEF Drains
        <4> QED
          BY <4>2, LenNat, Zenon
      <3>4. g + m + u = s
        BY <2>2, <2>3, <3>3 DEF Limbo
      <3>5. (g + u) + m = s
        BY <3>4
      <3> QED
        BY <2>1, <2>3, <3>2, <3>3, <3>5, Zenon DEF AfterBody
    <2>4. CASE /\ ~(slot.cmd = Recv /\ slot.req.h = h /\ AfterBody)
               /\ cache.valid /\ cache.ok /\ cache.key.h = h /\ cache.key.seq = host.rseq
      <3>1. Pending(h, cache.key.max)
        BY <2>0, <2>4, Zenon DEF ControlInv, CacheInv
      <3>2. PICK c \in {host.call, host.owed} : c = [op |-> Recv, h |-> h, max |-> cache.key.max]
        BY <3>1, Zenon DEF Pending
      <3>3. cache.key = [seq |-> cache.key.seq, h |-> cache.key.h, max |-> cache.key.max]
        BY <2>0 DEF TypeInv, Caches, Keys
      <3>4. c.op = Recv /\ c.h = h /\ cache.key = [seq |-> host.rseq, h |-> h, max |-> c.max]
        BY <2>4, <3>2, <3>3, Zenon
      <3>5. PICK m \in Nat : m = Len(cache.buf)
        <4>1. cache \in Caches
          BY <2>0, Zenon DEF TypeInv
        <4>2. cache.buf \in Seq(Byte)
          BY <4>1 DEF Caches
        <4> QED
          BY <4>2, LenNat, Zenon
      <3>6. g + m + u = s
        BY <2>2, <2>4, <3>5 DEF Limbo
      <3>7. (g + u) + m = s
        BY <3>6
      <3> QED
        BY <2>1, <2>4, <3>4, <3>5, <3>7, Zenon
    <2>5. CASE /\ ~(slot.cmd = Recv /\ slot.req.h = h /\ AfterBody)
               /\ ~(cache.valid /\ cache.ok /\ cache.key.h = h /\ cache.key.seq = host.rseq)
      <3>1. g + 0 + u = s
        BY <2>2, <2>5 DEF Limbo
      <3>2. g + u = s
        BY <3>1
      <3> QED
        BY <2>1, <3>2, Zenon
    <2> QED
      BY <2>3, <2>4, <2>5, Zenon
  <1> QED
    BY <1>1, RecvAlways, PTL

(* On the ring path an empty OK answer to a recv that asked for bytes is   *)
(* the end of the stream: the peer closed in order and the host has every  *)
(* byte (sock_recv_ring_drained_status).                                   *)
THEOREM EndKept == Spec => EndIsEnd
  <1> DEFINE Ended == (/\ host.call.op = Recv /\ host.call.max > 0 /\ ring.owner = host.call.h
                       /\ host'.rseq # host.rseq /\ got' = got)
                      => /\ net[host.call.h].end = "fin"
                         /\ Len(got[host.call.h]) = net[host.call.h].sent
  <1>1. ASSUME IInv, [Next]_vars PROVE [Ended]_vars
    <2> SUFFICES ASSUME Next, host.call.op = Recv, host.call.max > 0, ring.owner = host.call.h,
                        host'.rseq # host.rseq, got' = got
                 PROVE  /\ net[host.call.h].end = "fin"
                        /\ Len(got[host.call.h]) = net[host.call.h].sent
      BY <1>1
    <2>0. TypeInv /\ ControlInv /\ host \in Hosts
      BY <1>1 DEF IInv, TypeInv
    <2>1. PollRecvRing
      <3>1. ASSUME NEW h \in Handles, Arrive(h) \/ \E how \in {"fin", "rst"} : PeerEnds(h, how)
            PROVE  FALSE
        BY <3>1 DEF Arrive, PeerEnds
      <3>2. ASSUME NEW c \in Calls, Call(c) PROVE FALSE
        BY <3>2 DEF Call, NoCall, Recv
      <3>3. ~GiveUp
        BY <2>0, Zenon DEF GiveUp, Hosts
      <3>4. ~PollRecvCached /\ ~PollRecvWorker /\ ~PollControl
        BY DEF PollRecvCached, PollRecvWorker, PollControl, Recv, Connect, Close
      <3>5. ~PollOther /\ ~Drain /\ ~Pump
        BY Zenon DEF PollOther, Drain, DrainTake, DrainBody, DrainInvalidate, DrainCopy,
                     DrainPublish, Pump
      <3> QED
        BY <3>1, <3>2, <3>3, <3>4, <3>5 DEF Next, Poll
    <2> DEFINE a == host.call.h
    <2>2. /\ ring' \in Rings /\ ring'.end = ring.end /\ a \in Handles
          /\ net[a] \in Conns /\ got[a] \in Seq(Byte) /\ RingPiece(net[a], ring')
          /\ Len(got[a]) + Len(ring'.buf) + Len(net[a].unread) = net[a].sent
          /\ ring'.unc = 0 => Len(ring'.buf) = 0
      BY <1>1, <2>1, RingServes, Zenon DEF PollRecvRing
    <2>3. PICK q \in Seq(Byte) :
              /\ got' = [got EXCEPT ![a] = @ \o q] /\ Len(q) = ring'.unc
              /\ Len(q) = 0 => ring'.end = "fin" \/ host.call.max = 0
      BY <1>1, <2>1, RingAnswers, Zenon
    <2>4. Len(q) = 0
      <3>1. got[a] = got[a] \o q
        BY <2>0, <2>2, <2>3, Zenon DEF TypeInv
      <3>2. Len(got[a] \o q) = Len(got[a]) + Len(q)
        BY <2>2, Joined
      <3>3. PICK g \in Nat, m \in Nat : g = Len(got[a]) /\ m = Len(q)
        BY <2>2
      <3>4. g = g + m
        BY <3>1, <3>2, <3>3
      <3>5. m = 0
        BY <3>4
      <3> QED
        BY <3>3, <3>5
    <2>5. ring'.end = "fin" /\ Len(ring'.buf) = 0
      <3>1. host.call.max # 0
        <4>1. host.call.max \in Nat
          BY <2>0, HostFields, CallFields
        <4> QED
          BY <4>1
      <3> QED
        BY <2>2, <2>3, <2>4, <3>1, Zenon
    <2>6. net[a].end = "fin" /\ net[a].unread = << >>
      BY <2>2, <2>5 DEF RingPiece
    <2>7. Len(got[a]) = net[a].sent
      <3>1. PICK g \in Nat : g = Len(got[a])
        BY <2>2
      <3>2. Len(<< >>) = 0 /\ g + 0 + 0 = g
        OBVIOUS
      <3> QED
        BY <2>2, <2>5, <2>6, <3>1, <3>2
    <2> QED
      BY <2>6, <2>7
  <1> HIDE DEF Ended
  <1>2. Spec => [][Ended]_vars
    BY <1>1, RecvAlways, PTL DEF Spec
  <1> QED
    BY <1>2 DEF EndIsEnd, Ended
===============================================================================
