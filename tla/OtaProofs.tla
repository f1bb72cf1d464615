------------------------------- MODULE OtaProofs ------------------------------
(***************************************************************************)
(* Proofs about Ota, for any images, any sizes within the assumption and   *)
(* any number of faults.                                                   *)
(*                                                                         *)
(* None of the three properties is inductive.  The argument rests on what  *)
(* an open session and the slot say together: the flushed bytes in the     *)
(* slot and the rest in the window are one image from offset 0 on, the     *)
(* slot past them is erased, and while the host is sending or finishing    *)
(* the image is its own.  A queued FINISH therefore covers a whole image.  *)
(***************************************************************************)
EXTENDS Ota, TLAPS

Bytes == Images \X Nat
Sessions == [state : {"IDLE", "WRITING", "STAGED", "ERROR"}, total : Nat, cursor : Nat,
             op : {"IDLE", "BEGIN", "FLUSH", "FINISH"}, inflight : BOOLEAN, optotal : Nat,
             base : Nat, window : Seq(Bytes), flushed : Nat, started : BOOLEAN]
Devices == [polled : BOOLEAN, flag : BOOLEAN, reset : BOOLEAN, reboot : BOOLEAN,
            drained : BOOLEAN]
Hosts == [img : Images, phase : Phases, pos : Nat]
SlotStates == {"READY", "WRITING", "CANDIDATE", "STAGED"}

(* A slot: psa_fwu_start finds READY only on an erased one. *)
SlotOK(s) ==
    /\ s = [state |-> s.state, data |-> s.data]
    /\ s.state \in SlotStates
    /\ s.data = [i \in Offsets |-> s.data[i]]
    /\ s.state = "READY" => s.data = Erased

TypeInv ==
    /\ ota \in Sessions /\ Len(ota.window) <= Window
    /\ SlotOK(slot)
    /\ dev \in Devices /\ (dev.polled => pc \in {"tick", "frame"})
    /\ host \in Hosts

(* The indices of a session: the window follows the flushed bytes, which   *)
(* are none until psa_fwu_start took the manifest.                         *)
Cursors(o) ==
    /\ o.cursor = o.base + Len(o.window)
    /\ Len(o.window) <= Window
    /\ o.base <= o.flushed /\ o.flushed <= o.cursor
    /\ IF o.started THEN Manifest <= o.flushed ELSE o.base = 0 /\ o.flushed = 0

(* The accepted bytes are the first ones of image m, and nothing else is   *)
(* in a slot that was started.                                             *)
Carries(o, s, m) ==
    /\ Cursors(o)
    /\ o.cursor <= ImageLen[m]
    /\ o.started => s.state = "WRITING"
    /\ \A i \in 0 .. o.flushed - 1 : s.data[i] = <<m, i>>
    /\ \A i \in o.base .. o.cursor - 1 : o.window[i - o.base + 1] = <<m, i>>
    /\ o.started => \A i \in Offsets : i >= o.flushed => s.data[i] = Blank

(* An open session carries one image: the host's while it is sending or    *)
(* finishing, and all of it once a FINISH is queued.                       *)
SessionOf(m) ==
    /\ Carries(ota, slot, m)
    /\ ota.op = "FINISH" => ota.cursor = ImageLen[m]
    /\ host.phase \in {"write", "finish"} => m = host.img /\ host.pos <= ota.cursor

SessionInv == ota.state = "WRITING" => \E m \in Images : SessionOf(m)

(* Queued operations: flash work is for an open session, until the pump    *)
(* has run it; a sending or finishing host has no BEGIN on the way.        *)
OpInv ==
    /\ ~ota.inflight => ota.op = "IDLE"
    /\ ota.op \in {"FLUSH", "FINISH"} /\ pc # "reopened" => ota.state = "WRITING"
    /\ host.phase \in {"write", "finish"} => ota.op # "BEGIN"
    /\ host.phase = "finish" => host.pos = ImageLen[host.img]
    /\ host.pos <= ImageLen[host.img]
    /\ host.phase \in {"mode", "begin", "confirm"} => host.pos = 0

(* A staged session is of a staged slot, and of the host that finishes it. *)
StagedInv ==
    /\ ota.state = "STAGED" => slot.state = "STAGED"
    /\ ota.state = "STAGED" /\ host.phase \in {"write", "finish"} => Holds(slot.data, host.img)

IInv == TypeInv /\ SessionInv /\ OpInv /\ StagedInv /\ StagedWhole

-------------------------------------------------------------------------------
(* Operators of the model.                                                 *)

(* Positions in a window at base with len bytes, n of which a flush that   *)
(* continues at flushed commits.                                           *)
LEMMA Positions ==
    ASSUME NEW base \in Nat, NEW flushed \in Nat, NEW len \in Nat, NEW n \in Nat,
           base <= flushed, flushed + n <= base + len
    PROVE  /\ (flushed + n) - base \in 0 .. len
           /\ flushed + n \in Nat
           /\ base + len = (flushed + n) + (len - ((flushed + n) - base))
           /\ len - ((flushed + n) - base) \in 0 .. len
           /\ \A i \in flushed + n .. (base + len) - 1 :
                /\ i - (flushed + n) + 1 \in 1 .. len - ((flushed + n) - base)
                /\ ((flushed + n) - base) + (i - (flushed + n) + 1) = i - base + 1
                /\ i \in base .. (base + len) - 1
  OBVIOUS

(* The window that slides by a bytes. *)
LEMMA Slides ==
    ASSUME NEW S, NEW w \in Seq(S), NEW a \in 0 .. Len(w)
    PROVE  /\ SubSeq(w, a + 1, Len(w)) \in Seq(S)
           /\ Len(SubSeq(w, a + 1, Len(w))) = Len(w) - a
           /\ \A j \in 1 .. Len(w) - a : SubSeq(w, a + 1, Len(w))[j] = w[a + j]
  OBVIOUS

(* The window that takes a chunk. *)
LEMMA Appends ==
    ASSUME NEW S, NEW w \in Seq(S), NEW v \in Seq(S)
    PROVE  /\ w \o v \in Seq(S)
           /\ Len(w \o v) = Len(w) + Len(v)
           /\ \A j \in 1 .. Len(w) : (w \o v)[j] = w[j]
           /\ \A j \in 1 .. Len(v) : (w \o v)[Len(w) + j] = v[j]
  OBVIOUS

(* The fields an operation of the pump leaves alone. *)
SameRequest(o, q) ==
    /\ q.state = o.state /\ q.total = o.total /\ q.cursor = o.cursor
    /\ q.op = o.op /\ q.inflight = o.inflight /\ q.optotal = o.optotal

(* psa_fwu_start moves the manifest from the window to the slot. *)
LEMMA OpensCarrying ==
    ASSUME NEW o \in Sessions, NEW s, SlotOK(s), NEW m \in Images, Carries(o, s, m),
           ~o.started, Len(o.window) >= Manifest, s.state = "READY"
    PROVE  /\ Opened(o) \in Sessions /\ Opened(o).started /\ SameRequest(o, Opened(o))
           /\ SlotOK(SlotStart(o, s)) /\ SlotStart(o, s).state = "WRITING"
           /\ Carries(Opened(o), SlotStart(o, s), m)
  <1> DEFINE q == Opened(o)
             t == SlotStart(o, s)
  <1>1. q \in Sessions /\ q.started /\ SameRequest(o, q) /\ q.flushed = Manifest
        /\ q.base = o.base /\ q.window = o.window
    BY SizesAssumption DEF Sessions, Opened, SameRequest
  <1>2. SlotOK(t) /\ t.state = "WRITING"
    BY DEF SlotOK, SlotStart, SlotStates
  <1>3. Cursors(q)
    BY <1>1, SizesAssumption DEF Cursors, Carries, SameRequest, Sessions
  <1>4. \A i \in 0 .. Manifest - 1 : i \in Offsets
    <2>1. Manifest <= ImageLen[m] /\ ImageLen[m] \in Nat
      BY SizesAssumption DEF Carries, Cursors, Sessions
    <2> QED BY <2>1, SizesAssumption DEF Offsets
  <1>5. \A i \in 0 .. q.flushed - 1 : t.data[i] = <<m, i>>
    <2>1. \A i \in 0 .. Manifest - 1 : t.data[i] = o.window[i + 1]
      BY <1>4, SizesAssumption DEF SlotStart
    <2>2. \A i \in 0 .. Manifest - 1 : o.window[i + 1] = <<m, i>>
      <3> SUFFICES ASSUME NEW i \in 0 .. Manifest - 1 PROVE o.window[i + 1] = <<m, i>>
        OBVIOUS
      <3>1. i \in o.base .. o.cursor - 1 /\ i - o.base + 1 = i + 1
        BY SizesAssumption DEF Carries, Cursors, Sessions
      <3> QED BY <3>1 DEF Carries
    <2> QED BY <1>1, <2>1, <2>2
  <1>6. \A i \in Offsets : i >= q.flushed => t.data[i] = Blank
    <2>1. \A i \in Offsets : i \in Nat
      BY SizesAssumption DEF Offsets
    <2> QED BY <1>1, <2>1, SizesAssumption DEF SlotStart, SlotOK, Erased
  <1>7. \A i \in q.base .. q.cursor - 1 : q.window[i - q.base + 1] = <<m, i>>
    BY <1>1 DEF Carries, SameRequest
  <1> QED BY <1>1, <1>2, <1>3, <1>5, <1>6, <1>7 DEF Carries, SameRequest

(* psa_fwu_write of the next n bytes. *)
LEMMA SlotWrites ==
    ASSUME NEW o, NEW s, SlotOK(s), NEW n, s.state = "WRITING"
    PROVE  SlotOK(SlotWrite(o, s, n)) /\ SlotWrite(o, s, n).state = "WRITING"
  BY DEF SlotOK, SlotWrite

(* The flush moves the next n bytes from the window to the slot. *)
LEMMA SlidesCarrying ==
    ASSUME NEW o \in Sessions, NEW s, SlotOK(s), NEW m \in Images, Carries(o, s, m),
           o.started, NEW n \in 0 .. o.cursor - o.flushed
    PROVE  /\ Slid(o, n) \in Sessions /\ SameRequest(o, Slid(o, n))
           /\ Carries(Slid(o, n), SlotWrite(o, s, n), m)
  <1>1. PICK base \in Nat, flushed \in Nat, len \in Nat :
            /\ base = o.base /\ flushed = o.flushed /\ len = Len(o.window)
            /\ base <= flushed /\ len <= Window /\ Manifest <= flushed
            /\ o.cursor = base + len /\ flushed <= base + len
            /\ base + len <= ImageLen[m] /\ o.window \in Seq(Bytes)
    BY DEF Carries, Cursors, Sessions
  <1>2. /\ n \in Nat /\ base <= flushed /\ flushed + n <= base + len /\ len <= Window
        /\ Manifest <= flushed
    BY <1>1
  <1>k. ImageLen[m] \in Nat /\ base + len <= ImageLen[m]
    BY <1>1, SizesAssumption
  <1>b. \A i \in base .. base + len - 1 : o.window[i - base + 1] = <<m, i>>
    <2>1. \A i \in o.base .. o.cursor - 1 : o.window[i - o.base + 1] = <<m, i>>
      BY DEF Carries
    <2>2. base = o.base /\ o.cursor = base + len
      BY <1>1
    <2> SUFFICES ASSUME NEW i \in base .. base + len - 1 PROVE o.window[i - base + 1] = <<m, i>>
      OBVIOUS
    <2>3. i \in o.base .. o.cursor - 1
      BY <2>2
    <2>4. o.window[i - o.base + 1] = <<m, i>>
      BY <2>1, <2>3, Zenon
    <2> QED BY <2>2, <2>4, Zenon
  <1> DEFINE q == Slid(o, n)
             t == SlotWrite(o, s, n)
             stop == flushed + n
             a == stop - base
             w == SubSeq(o.window, a + 1, len)
  <1>3. /\ a \in 0 .. len /\ stop \in Nat
        /\ base + len = stop + (len - a)
        /\ len - a \in 0 .. len
        /\ \A i \in stop .. base + len - 1 :
                /\ i - stop + 1 \in 1 .. len - a
                /\ a + (i - stop + 1) = i - base + 1
                /\ i \in base .. base + len - 1
    BY <1>2, Positions
  <1>4. q = [o EXCEPT !.flushed = stop, !.base = stop, !.window = w]
    BY <1>1 DEF Slid
  <1>5. /\ w \in Seq(Bytes) /\ Len(w) = len - a
        /\ \A j \in 1 .. len - a : w[j] = o.window[a + j]
    <2> HIDE DEF a
    <2> QED BY <1>1, <1>3, Slides
  <1>6. q \in Sessions
    <2> HIDE DEF w, q, stop
    <2> QED BY <1>3, <1>4, <1>5 DEF Sessions
  <1>7. /\ q.window = w /\ q.flushed = stop /\ q.base = stop /\ q.started
        /\ SameRequest(o, q) /\ q.cursor = base + len
    <2> HIDE DEF w, q, stop
    <2> QED BY <1>1, <1>4 DEF Sessions, SameRequest
  <1>8. Cursors(q)
    <2>1. stop + (len - a) = base + len /\ len - a <= Window /\ Manifest <= stop
          /\ stop <= base + len
      BY <1>2, <1>3, SizesAssumption
    <2>2. stop <= stop
      BY <1>3
    <2> HIDE DEF q, w, a, stop
    <2> QED BY <1>5, <1>7, <2>1, <2>2 DEF Cursors
  <1>9. \A i \in stop .. base + len - 1 : w[i - stop + 1] = <<m, i>>
    <2> SUFFICES ASSUME NEW i \in stop .. base + len - 1 PROVE w[i - stop + 1] = <<m, i>>
      OBVIOUS
    <2>1. w[i - stop + 1] = o.window[a + (i - stop + 1)]
      BY <1>3, <1>5
    <2>2. a + (i - stop + 1) = i - base + 1 /\ i \in base .. base + len - 1
      BY <1>3
    <2>3. o.window[i - base + 1] = <<m, i>>
      BY <1>b, <2>2
    <2> QED BY <2>1, <2>2, <2>3
  <1>10. \A i \in 0 .. stop - 1 : t.data[i] = <<m, i>>
    <2> SUFFICES ASSUME NEW i \in 0 .. stop - 1 PROVE t.data[i] = <<m, i>>
      OBVIOUS
    <2>1. i \in Offsets
      <3>1. i < ImageLen[m] /\ ImageLen[m] \in Nat
        BY <1>2, <1>k
      <3> QED BY <3>1 DEF Offsets
    <2>2. t.data[i] = IF i \in flushed .. flushed + n - 1 THEN o.window[i - base + 1]
                      ELSE s.data[i]
      BY <1>1, <2>1 DEF SlotWrite, SlotOK
    <2>3. CASE i < flushed
      <3>1. i \in 0 .. flushed - 1 /\ i \notin flushed .. flushed + n - 1
        BY <1>2, <2>3
      <3>2. s.data[i] = <<m, i>>
        BY <1>1, <3>1 DEF Carries
      <3> QED BY <2>2, <3>1, <3>2
    <2>4. CASE i >= flushed
      <3>1. i \in base .. base + len - 1 /\ i \in flushed .. flushed + n - 1
        BY <2>4, <1>2
      <3>2. o.window[i - base + 1] = <<m, i>>
        BY <1>b, <3>1
      <3> QED BY <3>1, <3>2, <2>2
    <2> QED BY <2>3, <2>4
  <1>11. \A i \in Offsets : i >= stop => t.data[i] = Blank
    <2> SUFFICES ASSUME NEW i \in Offsets, i >= stop PROVE t.data[i] = Blank
      OBVIOUS
    <2>1. i \in Nat
      BY SizesAssumption DEF Offsets
    <2>2. i \notin flushed .. flushed + n - 1 /\ i >= flushed
      BY <1>2, <2>1
    <2>3. t.data[i] = s.data[i]
      BY <1>1, <2>2 DEF SlotWrite, SlotOK
    <2> QED BY <1>1, <2>2, <2>3 DEF Carries
  <1>12. t.state = "WRITING"
    BY DEF Carries, SlotWrite, SlotOK
  <1> HIDE DEF q, t, w, a, stop
  <1>13. Carries(q, t, m)
    BY <1>7, <1>8, <1>9, <1>10, <1>11, <1>12, <1>k DEF Carries
  <1> QED BY <1>6, <1>7, <1>13 DEF q, t

(* A flush commits only bytes that are in the window. *)
LEMMA ReadyIs ==
    ASSUME NEW o \in Sessions, Cursors(o), NEW final \in BOOLEAN
    PROVE  Ready(o, final) \in 0 .. o.cursor - o.flushed
  <1> DEFINE n == o.base + Len(o.window) - o.flushed
  <1>1. n \in Nat /\ n = o.cursor - o.flushed
    BY DEF Cursors, Sessions
  <1>2. n % Block \in 0 .. n
    BY <1>1, SizesAssumption
  <1>3. n - (n % Block) \in 0 .. n
    BY <1>1, <1>2
  <1> QED BY <1>1, <1>3 DEF Ready

(* ota_flush: whatever fails, what is in the slot and the window is still  *)
(* the image; a slot that is STAGED is not touched.                        *)
LEMMA FlushCarries ==
    ASSUME NEW o \in Sessions, NEW s, SlotOK(s), NEW m \in Images, Carries(o, s, m),
           NEW final \in BOOLEAN, NEW r \in ota_flush(o, s, final)
    PROVE  /\ r = Outcome(r.o, r.s, r.ok, r.f) /\ r.ok \in BOOLEAN
           /\ r.o \in Sessions /\ SameRequest(o, r.o) /\ Len(r.o.window) <= Window
           /\ SlotOK(r.s) /\ (r.s = s \/ r.s.state = "WRITING")
           /\ r.ok => Carries(r.o, r.s, m) /\ r.o.started
  <1> DEFINE o1 == Opened(o)
             s1 == IF o.started THEN s ELSE SlotStart(o, s)
             n == Ready(o1, final)
             Failed == Outcome(o, s, FALSE, 1)
             Cut(k) == Outcome(o1, SlotWrite(o1, s1, k), FALSE, 1)
  <1>1. o.started \in BOOLEAN /\ Len(o.window) <= Window /\ SameRequest(o, o)
    BY DEF Sessions, Carries, Cursors, SameRequest
  <1>2. CASE r = Outcome(o, s, FALSE, 0) \/ r = Failed
    <2>1. PICK f \in {0, 1} : r = Outcome(o, s, FALSE, f)
      BY <1>2
    <2> QED BY <1>1, <2>1 DEF Outcome
  <1>3. CASE ~(r = Outcome(o, s, FALSE, 0) \/ r = Failed)
    <2>1. o.started \/ (Len(o.window) >= Manifest /\ s.state = "READY")
      <3>1. Len(o.window) \in Nat /\ Manifest \in Nat
        BY SizesAssumption DEF Sessions
      <3>2. ~o.started /\ Len(o.window) < Manifest => r = Outcome(o, s, FALSE, 0)
        BY DEF ota_flush
      <3>3. ~o.started /\ s.state # "READY" => r = Outcome(o, s, FALSE, 0)
        BY DEF ota_flush
      <3>4. Len(o.window) < Manifest \/ Len(o.window) >= Manifest
        BY <3>1
      <3> QED BY <1>3, <3>2, <3>3, <3>4, Zenon
    <2>2. /\ o1 \in Sessions /\ o1.started /\ SameRequest(o, o1)
          /\ SlotOK(s1) /\ s1.state = "WRITING" /\ Carries(o1, s1, m)
      <3>1. CASE o.started
        BY <3>1, <1>1 DEF Opened, Carries
      <3>2. CASE ~o.started
        BY <3>2, <2>1, OpensCarrying
      <3> QED BY <3>1, <3>2
    <2>3. s1 = s \/ s1.state = "WRITING"
      BY <2>2
    <2>4. n \in 0 .. o1.cursor - o1.flushed /\ Len(o1.window) <= Window
      BY <2>2, ReadyIs DEF Carries, Cursors
    <2>5. \/ r = Outcome(o1, s1, TRUE, 0)
          \/ r = Outcome(Slid(o1, n), SlotWrite(o1, s1, n), TRUE, 0)
          \/ \E k \in 0 .. n - 1 : r = Cut(k)
      <3>1. r \in {Outcome(o1, s1, TRUE, 0), Failed,
                   Outcome(Slid(o1, n), SlotWrite(o1, s1, n), TRUE, 0)}
            \/ r \in {Cut(k) : k \in {b \in 0 .. n - 1 : b % Block = 0}}
        <4> HIDE DEF o1, s1, n, Failed
        <4> QED BY <1>3, <2>1 DEF ota_flush, o1, s1, n, Failed
      <3>2. r \in {Cut(k) : k \in {b \in 0 .. n - 1 : b % Block = 0}}
            => \E k \in 0 .. n - 1 : r = Cut(k)
        <4> HIDE DEF Cut
        <4> QED OBVIOUS
      <3> HIDE DEF o1, s1, n, Failed
      <3> QED BY <1>3, <3>1, <3>2
    <2> HIDE DEF o1, s1, n
    <2>6. CASE r = Outcome(o1, s1, TRUE, 0)
      BY <2>6, <2>2, <2>4 DEF Outcome
    <2>7. CASE r = Outcome(Slid(o1, n), SlotWrite(o1, s1, n), TRUE, 0)
      <3>1. /\ Slid(o1, n) \in Sessions /\ SameRequest(o1, Slid(o1, n))
            /\ Carries(Slid(o1, n), SlotWrite(o1, s1, n), m)
        BY <2>2, <2>4, SlidesCarrying
      <3>2. SlotOK(SlotWrite(o1, s1, n)) /\ SlotWrite(o1, s1, n).state = "WRITING"
        BY <2>2, SlotWrites
      <3>3. Slid(o1, n).started /\ Len(Slid(o1, n).window) <= Window
        BY <2>2, <3>1 DEF Slid, Sessions, Carries, Cursors
      <3>4. SameRequest(o, Slid(o1, n))
        BY <2>2, <3>1 DEF SameRequest
      <3> QED BY <2>7, <3>1, <3>2, <3>3, <3>4 DEF Outcome
    <2>8. CASE \E k \in 0 .. n - 1 : r = Cut(k)
      <3>1. PICK k \in 0 .. n - 1 : r = Cut(k)
        BY <2>8
      <3>2. SlotOK(SlotWrite(o1, s1, k)) /\ SlotWrite(o1, s1, k).state = "WRITING"
        BY <2>2, SlotWrites
      <3> QED BY <3>1, <3>2, <2>2, <2>4 DEF Outcome
    <2> QED BY <2>5, <2>6, <2>7, <2>8
  <1> QED BY <1>2, <1>3

(* psa_fwu_install of a flushed image, or one of its two failures. *)
LEMMA InstallIs ==
    ASSUME NEW q, NEW r \in Install(q), q.o \in Sessions, SlotOK(q.s), q.s.state = "WRITING"
    PROVE  /\ r = Outcome(r.o, r.s, r.ok, r.f) /\ r.ok \in BOOLEAN
           /\ SlotOK(r.s) /\ r.s.data = q.s.data
           /\ r.o \in Sessions /\ r.o.window = q.o.window /\ r.o.op = q.o.op
           /\ r.o.inflight = q.o.inflight
           /\ r.ok => r.s.state = "STAGED" /\ r.o.state = "STAGED"
           /\ ~r.ok => r.s.state # "STAGED"
  <1> DEFINE at(state) == [q.s EXCEPT !.state = state]
  <1>1. PICK st \in {"STAGED", "WRITING", "CANDIDATE"}, o \in {q.o, [q.o EXCEPT !.state = "STAGED"]},
             f \in {q.f, 1} :
            /\ r = Outcome(o, at(st), st = "STAGED", f)
            /\ st = "STAGED" => o = [q.o EXCEPT !.state = "STAGED"]
    BY DEF Install, Outcome
  <1>2. SlotOK(at(st)) /\ at(st).data = q.s.data /\ at(st).state = st
    BY DEF SlotOK, SlotStates
  <1>3. o \in Sessions /\ o.window = q.o.window /\ o.op = q.o.op /\ o.inflight = q.o.inflight
    BY DEF Sessions
  <1>4. st = "STAGED" => o.state = "STAGED"
    BY <1>1 DEF Sessions
  <1> HIDE DEF at
  <1> QED BY <1>1, <1>2, <1>3, <1>4 DEF Outcome

(* A whole image in the slot. *)
LEMMA FlushedIsWhole ==
    ASSUME NEW o \in Sessions, NEW s, NEW m \in Images, Carries(o, s, m), o.started,
           o.flushed = ImageLen[m]
    PROVE  Holds(s.data, m)
  <1>1. ImageLen[m] \in Nat /\ \A i \in Offsets : i \in Nat
    BY SizesAssumption DEF Offsets
  <1>2. \A i \in 0 .. ImageLen[m] - 1 : s.data[i] = <<m, i>>
    BY DEF Carries
  <1>3. \A i \in Offsets : i >= ImageLen[m] => s.data[i] = Blank
    BY DEF Carries
  <1> QED BY <1>1, <1>2, <1>3 DEF Holds

(* ota_do_finish of a session that carries all of image m. *)
LEMMA FinishIs ==
    ASSUME NEW o \in Sessions, NEW s, SlotOK(s), NEW m \in Images, Carries(o, s, m),
           o.cursor = ImageLen[m], NEW r \in ota_do_finish(o, s)
    PROVE  /\ r = Outcome(r.o, r.s, r.ok, r.f) /\ r.ok \in BOOLEAN
           /\ r.o \in Sessions /\ Len(r.o.window) <= Window
           /\ r.o.op = o.op /\ r.o.inflight = o.inflight
           /\ SlotOK(r.s)
           /\ r.ok => r.o.state = "STAGED" /\ r.s.state = "STAGED" /\ Holds(r.s.data, m)
           /\ ~r.ok => r.s = s \/ r.s.state # "STAGED"
  <1>1. CASE r = Outcome(o, s, FALSE, 0)
    BY <1>1 DEF Outcome, Carries, Cursors
  <1>2. CASE r # Outcome(o, s, FALSE, 0)
    <2>1. o.cursor = o.total
      BY <1>2 DEF ota_do_finish
    <2>2. PICK q \in ota_flush(o, s, TRUE) :
              r \in IF q.ok /\ q.o.flushed = q.o.total THEN Install(q)
                    ELSE {[q EXCEPT !.ok = FALSE]}
      BY <1>2 DEF ota_do_finish
    <2>3. /\ q = Outcome(q.o, q.s, q.ok, q.f) /\ q.ok \in BOOLEAN
          /\ q.o \in Sessions /\ SameRequest(o, q.o) /\ Len(q.o.window) <= Window
          /\ SlotOK(q.s) /\ (q.s = s \/ q.s.state = "WRITING")
          /\ q.ok => Carries(q.o, q.s, m) /\ q.o.started
      BY FlushCarries
    <2>4. CASE q.ok /\ q.o.flushed = q.o.total
      <3>1. Holds(q.s.data, m)
        BY <2>1, <2>3, <2>4, FlushedIsWhole DEF SameRequest
      <3>2. q.s.state = "WRITING"
        BY <2>3, <2>4 DEF Carries
      <3>3. r \in Install(q)
        BY <2>2, <2>4
      <3>4. /\ r = Outcome(r.o, r.s, r.ok, r.f) /\ r.ok \in BOOLEAN
            /\ SlotOK(r.s) /\ r.s.data = q.s.data
            /\ r.o \in Sessions /\ r.o.window = q.o.window /\ r.o.op = q.o.op
            /\ r.o.inflight = q.o.inflight
            /\ r.ok => r.s.state = "STAGED" /\ r.o.state = "STAGED"
            /\ ~r.ok => r.s.state # "STAGED"
        BY <2>3, <3>2, <3>3, InstallIs
      <3> QED BY <2>3, <3>1, <3>4 DEF SameRequest
    <2>5. CASE ~(q.ok /\ q.o.flushed = q.o.total)
      <3>1. r = Outcome(q.o, q.s, FALSE, q.f)
        BY <2>2, <2>3, <2>5 DEF Outcome
      <3> QED BY <2>3, <3>1 DEF SameRequest, Outcome
    <2> QED BY <2>4, <2>5
  <1> QED BY <1>1, <1>2

-------------------------------------------------------------------------------
(* The pump.                                                               *)

(* What the pump leaves behind it, before it publishes. *)
Ran(r) ==
    /\ r.ok \in BOOLEAN
    /\ r.o \in Sessions /\ Len(r.o.window) <= Window
    /\ r.o.op = ota.op /\ r.o.inflight = ota.inflight
    /\ SlotOK(r.s)
    /\ r.o.state = "WRITING" =>
        /\ r.o.op # "FINISH"
        /\ \E m \in Images :
            /\ Carries(r.o, r.s, m)
            /\ host.phase \in {"write", "finish"} => m = host.img /\ host.pos <= r.o.cursor
    /\ r.o.state = "STAGED" =>
        /\ r.s.state = "STAGED"
        /\ host.phase \in {"write", "finish"} => Holds(r.s.data, host.img)
    /\ r.s.state = "STAGED" => \E m \in Images : Holds(r.s.data, m)

(* An operation that fails leaves the session in ERROR. *)
LEMMA FailedRan ==
    ASSUME NEW r, r = Outcome(r.o, r.s, r.ok, r.f), ~r.ok, r.ok \in BOOLEAN,
           r.o \in Sessions, Len(r.o.window) <= Window,
           r.o.op = ota.op, r.o.inflight = ota.inflight, SlotOK(r.s),
           r.s.state = "STAGED" => \E m \in Images : Holds(r.s.data, m)
    PROVE  Ran(Latched(r))
  <1> DEFINE q == [r.o EXCEPT !.state = "ERROR"]
  <1>1. Latched(r) = Outcome(q, r.s, FALSE, r.f)
    BY DEF Latched, Outcome
  <1>2. q \in Sessions /\ q.state = "ERROR" /\ q.window = r.o.window /\ q.op = r.o.op
        /\ q.inflight = r.o.inflight
    BY DEF Sessions
  <1> HIDE DEF q
  <1> QED BY <1>1, <1>2 DEF Ran, Outcome

(* A session without bytes carries any image. *)
LEMMA EmptyCarries ==
    ASSUME NEW o \in Sessions, NEW s, NEW m \in Images, Cursors(o), o.cursor = 0
    PROVE  Carries(o, s, m)
  <1>1. o.flushed = 0 /\ o.base = 0 /\ ~o.started
    BY SizesAssumption DEF Cursors, Sessions
  <1>2. ImageLen[m] \in Nat
    BY SizesAssumption
  <1> QED BY <1>1, <1>2 DEF Carries

(* The session after reset or abort is well-formed. *)
LEMMA NoSessionIs ==
    /\ NoSession \in Sessions
    /\ NoSession.state = "IDLE" /\ NoSession.op = "IDLE" /\ NoSession.inflight = FALSE
    /\ Len(NoSession.window) <= Window /\ NoSession.cursor = 0 /\ Cursors(NoSession)
  <1>1. <<>> \in Seq(Bytes) /\ Len(<<>>) = 0
    OBVIOUS
  <1>2. NoSession \in Sessions
    BY <1>1 DEF NoSession, Sessions
  <1>3. NoSession.window = <<>> /\ NoSession.cursor = 0 /\ NoSession.base = 0
        /\ NoSession.flushed = 0 /\ NoSession.started = FALSE /\ NoSession.state = "IDLE"
        /\ NoSession.op = "IDLE" /\ NoSession.inflight = FALSE
    BY DEF NoSession
  <1> QED BY <1>1, <1>2, <1>3, SizesAssumption DEF Cursors

(* A queued operation finds what it needs, and leaves what it should. *)
LEMMA PumpRan ==
    ASSUME IInv, pc # "reopened", NEW r \in Pumped(ota, slot)
    PROVE  Ran(r)
  <1>1. /\ ota \in Sessions /\ Len(ota.window) <= Window /\ SlotOK(slot) /\ host \in Hosts
        /\ slot.state = "STAGED" => \E m \in Images : Holds(slot.data, m)
        /\ ota.op \in {"IDLE", "BEGIN", "FLUSH", "FINISH"} /\ host.img \in Images
    BY DEF IInv, TypeInv, StagedWhole, Sessions, Hosts
  <1>2. PICK q \in RunOp(ota, slot) : r = Latched(q)
    BY DEF Pumped
  <1>3. ASSUME q = Outcome(ota, slot, FALSE, q.f) PROVE Ran(r)
    <2>1. q.o = ota /\ q.s = slot /\ q.ok = FALSE
      BY <1>3 DEF Outcome
    <2> QED BY <1>1, <1>2, <1>3, <2>1, FailedRan
  <1>4. CASE ota.op = "IDLE"
    <2>1. q = Outcome(ota, slot, FALSE, 0)
      BY <1>4 DEF RunOp
    <2> QED BY <1>3, <2>1 DEF Outcome
  <1>5. CASE ota.op = "BEGIN"
    <2> DEFINE begun == [NoSession EXCEPT !.state = "WRITING", !.total = ota.optotal,
                                          !.op = ota.op, !.inflight = ota.inflight,
                                          !.optotal = ota.optotal]
               ready == [state |-> "READY", data |-> Erased]
    <2>1. \/ q = Outcome(begun, ready, TRUE, 0)
          \/ q = Outcome(begun, slot, TRUE, 1)
          \/ q = Outcome(ota, slot, FALSE, 1)
      <3>1. q \in ota_do_begin(ota, slot)
        BY <1>5 DEF RunOp
      <3> HIDE DEF begun, ready
      <3> QED BY <3>1 DEF ota_do_begin, begun, ready
    <2>2. begun \in Sessions /\ begun.cursor = 0 /\ begun.state = "WRITING"
          /\ begun.op = ota.op /\ begun.inflight = ota.inflight
          /\ begun.window = NoSession.window /\ begun.base = NoSession.base
          /\ begun.flushed = NoSession.flushed /\ begun.started = NoSession.started
          /\ begun.cursor = NoSession.cursor
      BY <1>1, NoSessionIs DEF Sessions
    <2> HIDE DEF begun
    <2>3. Cursors(begun) /\ Len(begun.window) <= Window
      BY <2>2, NoSessionIs DEF Cursors
    <2>4. SlotOK(ready) /\ ready.state # "STAGED"
      BY DEF SlotOK, SlotStates, Erased
    <2>5. host.phase \notin {"write", "finish"}
      BY <1>5 DEF IInv, OpInv
    <2> HIDE DEF ready
    <2>6. ASSUME NEW t, NEW f, q = Outcome(begun, t, TRUE, f), SlotOK(t),
                 t.state = "STAGED" => \E m \in Images : Holds(t.data, m)
          PROVE  Ran(r)
      <3>1. r = q /\ q.o = begun /\ q.s = t /\ q.ok = TRUE
        BY <1>2, <2>6 DEF Latched, Outcome
      <3>2. Carries(begun, t, host.img)
        BY <1>1, <2>2, <2>3, EmptyCarries
      <3> QED BY <1>1, <1>5, <2>2, <2>3, <2>5, <2>6, <3>1, <3>2 DEF Ran
    <2>7. CASE q = Outcome(begun, ready, TRUE, 0)
      BY <2>4, <2>6, <2>7
    <2>8. CASE q = Outcome(begun, slot, TRUE, 1)
      BY <1>1, <2>6, <2>8
    <2>9. CASE q = Outcome(ota, slot, FALSE, 1)
      BY <1>3, <2>9 DEF Outcome
    <2> QED BY <2>1, <2>7, <2>8, <2>9
  <1>6. CASE ota.op \in {"FLUSH", "FINISH"}
    <2>1. ota.state = "WRITING"
      BY <1>6 DEF IInv, OpInv
    <2>2. PICK m \in Images : SessionOf(m)
      BY <2>1 DEF IInv, SessionInv
    <2>3. Carries(ota, slot, m)
      BY <2>2 DEF SessionOf
    <2>4. CASE ota.op = "FLUSH"
      <3>1. q \in ota_flush(ota, slot, FALSE)
        BY <2>4 DEF RunOp
      <3>2. /\ q = Outcome(q.o, q.s, q.ok, q.f) /\ q.ok \in BOOLEAN
            /\ q.o \in Sessions /\ SameRequest(ota, q.o) /\ Len(q.o.window) <= Window
            /\ SlotOK(q.s) /\ (q.s = slot \/ q.s.state = "WRITING")
            /\ q.ok => Carries(q.o, q.s, m) /\ q.o.started
        BY <1>1, <2>3, <3>1, FlushCarries
      <3>3. q.s.state = "STAGED" => \E mm \in Images : Holds(q.s.data, mm)
        BY <1>1, <3>2
      <3>4. CASE q.ok
        <4>1. r = q
          BY <1>2, <3>4 DEF Latched
        <4>2. q.o.state = "WRITING" /\ q.o.op = "FLUSH" /\ q.o.cursor = ota.cursor
              /\ q.o.inflight = ota.inflight
          BY <2>1, <2>4, <3>2 DEF SameRequest
        <4>3. host.phase \in {"write", "finish"} => m = host.img /\ host.pos <= q.o.cursor
          BY <2>2, <4>2 DEF SessionOf
        <4> QED BY <2>4, <3>2, <3>3, <3>4, <4>1, <4>2, <4>3 DEF Ran
      <3>5. CASE ~q.ok
        BY <1>2, <3>2, <3>3, <3>5, FailedRan DEF SameRequest
      <3> QED BY <3>4, <3>5
    <2>5. CASE ota.op = "FINISH"
      <3>1. q \in ota_do_finish(ota, slot)
        BY <2>5 DEF RunOp
      <3>2. ota.cursor = ImageLen[m]
        BY <2>2, <2>5 DEF SessionOf
      <3>3. /\ q = Outcome(q.o, q.s, q.ok, q.f) /\ q.ok \in BOOLEAN
            /\ q.o \in Sessions /\ Len(q.o.window) <= Window
            /\ q.o.op = ota.op /\ q.o.inflight = ota.inflight
            /\ SlotOK(q.s)
            /\ q.ok => q.o.state = "STAGED" /\ q.s.state = "STAGED" /\ Holds(q.s.data, m)
            /\ ~q.ok => q.s = slot \/ q.s.state # "STAGED"
        BY <1>1, <2>3, <3>1, <3>2, FinishIs
      <3>4. q.s.state = "STAGED" => \E mm \in Images : Holds(q.s.data, mm)
        BY <1>1, <3>3
      <3>5. CASE q.ok
        <4>1. r = q
          BY <1>2, <3>5 DEF Latched
        <4>2. host.phase \in {"write", "finish"} => m = host.img
          BY <2>2 DEF SessionOf
        <4> QED BY <3>3, <3>4, <3>5, <4>1, <4>2 DEF Ran
      <3>6. CASE ~q.ok
        BY <1>2, <3>3, <3>4, <3>6, FailedRan
      <3> QED BY <3>5, <3>6
    <2> QED BY <1>6, <2>4, <2>5
  <1> QED BY <1>1, <1>4, <1>5, <1>6

-------------------------------------------------------------------------------
(* The steps of the device.                                                *)

(* The invariant at the start. *)
LEMMA InitInv == Init => IInv
  <1> SUFFICES ASSUME Init PROVE IInv
    OBVIOUS
  <1>1. ota = NoSession /\ slot.state = "READY"
    BY DEF Init
  <1>2. SlotOK(slot)
    BY DEF Init, SlotOK, SlotStates, Erased
  <1>3. host.phase = "idle" /\ host.pos = 0 /\ host \in Hosts
    BY DEF Init, Hosts, Phases
  <1>4. dev \in Devices /\ dev.polled = FALSE
    BY DEF Init, Devices
  <1>5. ImageLen[host.img] \in Nat
    BY <1>3, SizesAssumption DEF Hosts
  <1> QED BY <1>1, <1>2, <1>3, <1>4, <1>5, NoSessionIs
          DEF IInv, TypeInv, SessionInv, OpInv, StagedInv, StagedWhole

(* A reset or a reboot, whatever it leaves in the slot. *)
LEMMA RestartInv ==
    ASSUME IInv, ota' = NoSession, SlotOK(slot'),
           slot'.state = "STAGED" => \E m \in Images : Holds(slot'.data, m),
           NEW flag \in BOOLEAN, dev' = Booted(flag), pc' = "tick",
           host' = host \/ host' = [host EXCEPT !.phase = "mode", !.pos = 0]
    PROVE  IInv'
  <1>1. dev' \in Devices
    BY DEF Devices, Booted
  <1>2. host \in Hosts /\ ImageLen[host.img] \in Nat
    BY SizesAssumption DEF IInv, TypeInv, Hosts
  <1>3. /\ host' \in Hosts /\ host'.img = host.img
        /\ host' # host => host'.phase = "mode" /\ host'.pos = 0
    <2>1. CASE host' = host
      BY <1>2, <2>1
    <2>2. CASE host' = [host EXCEPT !.phase = "mode", !.pos = 0]
      BY <1>2, <2>2 DEF Hosts, Phases
    <2> QED BY <2>1, <2>2
  <1>4. TypeInv'
    BY <1>1, <1>3, NoSessionIs DEF TypeInv
  <1>5. OpInv'
    <2>1. CASE host' = host
      BY <2>1, NoSessionIs DEF IInv, OpInv
    <2>2. CASE host' # host
      BY <1>2, <1>3, <2>2, NoSessionIs DEF OpInv
    <2> QED BY <2>1, <2>2
  <1> QED BY <1>4, <1>5, NoSessionIs DEF IInv, SessionInv, StagedInv, StagedWhole

(* The pump publishes: nothing is queued any more. *)
LEMMA PublishedIs ==
    ASSUME NEW o \in Sessions
    PROVE  /\ Published(o) \in Sessions /\ Published(o).op = "IDLE"
           /\ Published(o).inflight = FALSE
           /\ Published(o).state = o.state /\ Published(o).window = o.window
           /\ Published(o).cursor = o.cursor
           /\ \A s, m : Carries(o, s, m) => Carries(Published(o), s, m)
  <1>1. /\ Published(o) \in Sessions /\ Published(o).op = "IDLE"
        /\ Published(o).inflight = FALSE
        /\ Published(o).state = o.state /\ Published(o).window = o.window
        /\ Published(o).cursor = o.cursor /\ Published(o).base = o.base
        /\ Published(o).flushed = o.flushed /\ Published(o).started = o.started
    BY DEF Published, Sessions
  <1> QED BY <1>1 DEF Carries, Cursors

(* What the pump ran holds, published or not yet. *)
LEMMA RanInv ==
    ASSUME IInv, NEW r, Ran(r), slot' = r.s, host' = host,
           dev' \in Devices, dev'.polled => pc' \in {"tick", "frame"},
           \/ ota' = r.o /\ pc' = "reopened"
           \/ ota' = Published(r.o)
    PROVE  IInv'
  <1>1. /\ ota' \in Sessions /\ ota'.state = r.o.state /\ ota'.window = r.o.window
        /\ ota'.cursor = r.o.cursor /\ (ota'.op = "IDLE" \/ ota'.op = r.o.op)
        /\ \A m : Carries(r.o, r.s, m) => Carries(ota', r.s, m)
    BY PublishedIs DEF Ran
  <1>2. TypeInv'
    BY <1>1 DEF Ran, IInv, TypeInv
  <1>3. SessionInv'
    BY <1>1 DEF Ran, SessionInv, SessionOf
  <1>4. OpInv'
    <2>1. ~ota'.inflight => ota'.op = "IDLE"
      <3>1. r.o \in Sessions /\ (~r.o.inflight => r.o.op = "IDLE")
        BY DEF Ran, IInv, OpInv
      <3> QED BY <3>1, PublishedIs
    <2>2. ota'.op \in {"FLUSH", "FINISH"} => pc' = "reopened"
      BY PublishedIs DEF Ran
    <2>3. ota'.op = "BEGIN" => ota.op = "BEGIN"
      BY <1>1 DEF Ran
    <2> QED BY <2>1, <2>2, <2>3 DEF IInv, OpInv
  <1>5. StagedInv' /\ StagedWhole'
    BY <1>1 DEF Ran, StagedInv, StagedWhole
  <1> QED BY <1>2, <1>3, <1>4, <1>5 DEF IInv

(* A slot that is swapped in leaves an erased target. *)
LEMMA SwapIs ==
    ASSUME NEW s, SlotOK(s), s.state = "STAGED" => \E m \in Images : Holds(s.data, m)
    PROVE  /\ SlotOK(AfterSwap(s))
           /\ AfterSwap(s).state = "STAGED" => \E m \in Images : Holds(AfterSwap(s).data, m)
  <1>1. CASE s.state = "STAGED"
    <2>1. AfterSwap(s) = [state |-> "READY", data |-> Erased]
      BY <1>1 DEF AfterSwap
    <2> QED BY <2>1 DEF SlotOK, SlotStates, Erased
  <1>2. CASE s.state # "STAGED"
    BY <1>2 DEF AfterSwap
  <1> QED BY <1>1, <1>2

(* The pump and the latches in one tick of the update mode. *)
LEMMA TickPolledInv == ASSUME IInv, TickPolled PROVE IInv'
  <1> DEFINE R == IF ota.inflight THEN Pumped(ota, slot) ELSE {Outcome(ota, slot, TRUE, 0)}
  <1>1. PICK r \in R :
            LET d == FlagAfter(dev, r)
                Served(dd) == /\ ota' = IF ota.inflight THEN Published(r.o) ELSE ota
                              /\ slot' = r.s
                              /\ dev' = dd
                              /\ pc' = "frame"
                              /\ UNCHANGED host
            IN  \/ d.reset /\ d.drained /\ Reboot(r.s, d)
                \/ /\ ~d.reset /\ d.reboot /\ d.drained
                   /\ Reboot(AfterSwap(r.s), d) \/ Served(Refused(d))
                \/ ~((d.reset \/ d.reboot) /\ d.drained) /\ Served(d)
    BY DEF TickPolled
  <1>2. pc = "tick" /\ ota \in Sessions /\ ota.inflight \in BOOLEAN /\ dev \in Devices
        /\ SlotOK(slot)
    BY DEF TickPolled, IInv, TypeInv, Sessions
  <1>3. /\ SlotOK(r.s)
        /\ r.s.state = "STAGED" => \E m \in Images : Holds(r.s.data, m)
        /\ ota.inflight => Ran(r)
        /\ ~ota.inflight => r.s = slot
    <2>1. CASE ota.inflight
      BY <1>2, <2>1, PumpRan DEF Ran
    <2>2. CASE ~ota.inflight
      BY <1>2, <2>2 DEF Outcome, IInv, StagedWhole
    <2> QED BY <2>1, <2>2
  <1> DEFINE d == FlagAfter(dev, r)
  <1>4. d \in Devices /\ Refused(d) \in Devices /\ d.flag \in BOOLEAN
    BY <1>2 DEF FlagAfter, Refused, Devices
  <1> HIDE DEF d
  <1>5. CASE Reboot(r.s, d) \/ Reboot(AfterSwap(r.s), d)
    <2>1. SlotOK(slot') /\ (slot'.state = "STAGED" => \E m \in Images : Holds(slot'.data, m))
      BY <1>3, <1>5, SwapIs DEF Reboot
    <2>2. ota' = NoSession /\ dev' = Booted(d.flag) /\ pc' = "tick" /\ host' = host
      BY <1>5 DEF Reboot
    <2> QED BY <1>4, <2>1, <2>2, RestartInv
  <1>6. CASE /\ ota' = IF ota.inflight THEN Published(r.o) ELSE ota
             /\ slot' = r.s /\ dev' \in {d, Refused(d)} /\ pc' = "frame" /\ host' = host
    <2>1. dev' \in Devices
      BY <1>4, <1>6
    <2>2. CASE ota.inflight
      BY <1>3, <1>6, <2>1, <2>2, RanInv
    <2>3. CASE ~ota.inflight
      <3>1. ota' = ota /\ slot' = slot
        BY <1>3, <1>6, <2>3
      <3> QED BY <1>2, <1>6, <2>1, <3>1
          DEF IInv, TypeInv, SessionInv, SessionOf, OpInv, StagedInv, StagedWhole
    <2> QED BY <1>2, <2>2, <2>3
  <1>7. \/ Reboot(r.s, d) \/ Reboot(AfterSwap(r.s), d)
        \/ /\ ota' = IF ota.inflight THEN Published(r.o) ELSE ota
           /\ slot' = r.s /\ dev' \in {d, Refused(d)} /\ pc' = "frame" /\ host' = host
    BY <1>1 DEF d
  <1> QED BY <1>5, <1>6, <1>7

(* The tick of the normal mode moves on without touching anything else. *)
LEMMA MovesInv ==
    ASSUME IInv, pc # "reopened", pc' # "reopened", ~dev.polled, dev' \in Devices, ~dev'.polled,
           UNCHANGED <<ota, slot, host>>
    PROVE  IInv'
  BY DEF IInv, TypeInv, SessionInv, SessionOf, OpInv, StagedInv, StagedWhole

(* The steps of the tick in the normal mode. *)
LEMMA TaskInv == ASSUME IInv, Task PROVE IInv'
  <1>1. /\ dev \in Devices /\ ota \in Sessions /\ SlotOK(slot)
        /\ slot.state = "STAGED" => \E m \in Images : Holds(slot.data, m)
    BY DEF IInv, TypeInv, StagedWhole
  <1>2. CASE TickPolled
    BY <1>2, TickPolledInv
  <1>3. CASE PumpCheck \/ PumpQuiesce \/ PumpRelease \/ PumpHangs
    BY <1>1, <1>3, MovesInv DEF PumpCheck, PumpQuiesce, PumpRelease, PumpHangs, Goto
  <1>4. CASE PumpBody
    <2>1. PICK r \in Pumped(ota, slot) : ota' = r.o /\ slot' = r.s /\ dev' = FlagAfter(dev, r)
      BY <1>4 DEF PumpBody
    <2>2. pc = "body" /\ pc' = "reopened" /\ host' = host /\ ~dev.polled
      BY <1>4 DEF PumpBody, Goto
    <2>3. Ran(r)
      BY <2>2, PumpRan
    <2>4. dev' \in Devices /\ dev'.polled = dev.polled
      BY <1>1, <2>1 DEF FlagAfter, Devices
    <2> QED BY <2>1, <2>2, <2>3, <2>4, RanInv
  <1>5. CASE PumpPublish
    <2>1. /\ ota' = Published(ota) /\ UNCHANGED <<slot, dev, host>>
          /\ pc' = "latches" /\ ~dev.polled
      BY <1>5 DEF PumpPublish, Goto
    <2>2. TypeInv'
      BY <1>1, <2>1, PublishedIs DEF IInv, TypeInv
    <2>3. SessionInv'
      BY <1>1, <2>1, PublishedIs DEF IInv, SessionInv, SessionOf
    <2>4. OpInv' /\ StagedInv' /\ StagedWhole'
      BY <1>1, <2>1, PublishedIs DEF IInv, OpInv, StagedInv, StagedWhole
    <2> QED BY <2>2, <2>3, <2>4 DEF IInv
  <1>6. CASE ResetLatch
    <2>1. pc = "latches" /\ ~dev.polled
      BY <1>6 DEF ResetLatch
    <2>2. CASE Reboot(slot, dev)
      BY <1>1, <2>2, RestartInv DEF Reboot, Devices
    <2>3. CASE pc' = "reboot" /\ UNCHANGED <<ota, slot, dev, host, faults>>
      BY <1>1, <2>1, <2>3, MovesInv
    <2> QED BY <1>6, <2>2, <2>3 DEF ResetLatch
  <1>7. CASE RebootLatch
    <2>1. pc = "reboot" /\ ~dev.polled
      BY <1>7 DEF RebootLatch
    <2>2. CASE Reboot(AfterSwap(slot), dev)
      BY <1>1, <2>2, RestartInv, SwapIs DEF Reboot, Devices
    <2>3. CASE pc' = "tick" /\ dev' = (IF dev.drained THEN Refused(dev) ELSE dev)
               /\ UNCHANGED <<ota, slot, host, faults>>
      <3>1. dev' \in Devices /\ ~dev'.polled
        BY <1>1, <2>1, <2>3 DEF Refused, Devices
      <3> QED BY <2>1, <2>3, <3>1, MovesInv
    <2> QED BY <1>7, <2>2, <2>3 DEF RebootLatch
  <1> QED BY <1>2, <1>3, <1>4, <1>5, <1>6, <1>7 DEF Task

(* A hard reset. *)
LEMMA HardResetInv == ASSUME IInv, HardReset PROVE IInv'
  <1>1. /\ SlotOK(slot) /\ slot' = slot
        /\ slot.state = "STAGED" => \E m \in Images : Holds(slot.data, m)
    BY DEF IInv, TypeInv, StagedWhole, HardReset
  <1> QED BY <1>1, RestartInv DEF HardReset

-------------------------------------------------------------------------------
(* The frames.                                                             *)

(* What an exchange does to the device and to the host. *)
Exchanged(h) ==
    /\ slot' = slot
    /\ dev' \in Devices /\ (dev'.polled => pc' \in {"tick", "frame"})
    /\ pc' = "reopened" <=> pc = "reopened"
    /\ host' = h \/ host' = host

(* The reply is seen or lost; only in update mode does the task move on. *)
LEMMA ExchangeIs ==
    ASSUME IInv, NEW d \in Devices, d.polled = dev.polled, NEW h, Exchange(d, h)
    PROVE  Exchanged(h)
  <1>1. dev \in Devices /\ (dev.polled => pc \in {"tick", "frame"})
    BY DEF IInv, TypeInv
  <1>2. PICK fate \in Fates : dev' = Drained(d, fate) /\ host' = IF fate = "seen" THEN h ELSE host
    BY DEF Exchange
  <1>3. dev' \in Devices /\ dev'.polled = dev.polled
    BY <1>2 DEF Drained, Devices
  <1>4. pc' = (IF dev.polled THEN "tick" ELSE pc) /\ slot' = slot
    BY DEF Exchange
  <1>5. dev.polled \in BOOLEAN
    BY <1>1 DEF Devices
  <1> QED BY <1>1, <1>2, <1>3, <1>4, <1>5 DEF Exchanged

(* A host that is not about to send or to finish. *)
Aside(h) ==
    /\ h \in Hosts /\ h.img = host.img /\ h.phase \notin {"write", "finish"}
    /\ h.pos = 0 \/ (h.pos = host.pos /\ h.phase \notin {"mode", "begin", "confirm"})

(* A host that keeps its phase or leaves the update asks nothing of the    *)
(* session.                                                                *)
LEMMA AsideInv ==
    ASSUME IInv, UNCHANGED ota, NEW h, Aside(h), Exchanged(h)
    PROVE  IInv'
  <1>1. host \in Hosts /\ ImageLen[host.img] \in Nat
    BY SizesAssumption DEF IInv, TypeInv, Hosts
  <1>2. CASE host' = host
    BY <1>2 DEF Exchanged, IInv, TypeInv, SessionInv, SessionOf, OpInv, StagedInv, StagedWhole
  <1>3. CASE host' = h
    <2>1. TypeInv'
      BY <1>3 DEF Exchanged, Aside, IInv, TypeInv
    <2>2. SessionInv'
      BY <1>3 DEF Exchanged, Aside, IInv, SessionInv, SessionOf
    <2>3. OpInv'
      BY <1>1, <1>3 DEF Exchanged, Aside, IInv, OpInv
    <2>4. StagedInv' /\ StagedWhole'
      BY <1>3 DEF Exchanged, Aside, IInv, StagedInv, StagedWhole
    <2> QED BY <2>1, <2>2, <2>3, <2>4 DEF IInv
  <1> QED BY <1>2, <1>3 DEF Exchanged

(* A host that is told its session is open and empty starts to send. *)
LEMMA SendsInv ==
    ASSUME IInv, UNCHANGED ota, Exchanged(At("write")), host.pos = 0, ~ota.inflight,
           ota.state = "WRITING", ota.cursor = 0
    PROVE  IInv'
  <1>1. /\ host \in Hosts /\ ImageLen[host.img] \in Nat /\ host.img \in Images
        /\ ota \in Sessions /\ ota.op = "IDLE"
    BY SizesAssumption DEF IInv, TypeInv, Hosts, OpInv
  <1>2. CASE host' = host
    BY <1>2 DEF Exchanged, IInv, TypeInv, SessionInv, SessionOf, OpInv, StagedInv, StagedWhole
  <1>3. CASE host' = At("write")
    <2>1. host' \in Hosts /\ host'.img = host.img /\ host'.phase = "write" /\ host'.pos = 0
      BY <1>1, <1>3 DEF At, Hosts, Phases
    <2>2. Carries(ota, slot, host.img)
      <3>1. PICK m \in Images : SessionOf(m)
        BY DEF IInv, SessionInv
      <3>2. Cursors(ota)
        BY <3>1 DEF SessionOf, Carries
      <3> QED BY <1>1, <3>2, EmptyCarries
    <2>3. TypeInv'
      BY <2>1 DEF Exchanged, IInv, TypeInv
    <2>4. SessionOf(host.img)'
      BY <1>1, <2>1, <2>2 DEF Exchanged, SessionOf
    <2>5. SessionInv'
      BY <1>1, <2>1, <2>4 DEF SessionInv
    <2>6. OpInv' /\ StagedInv' /\ StagedWhole'
      BY <1>1, <2>1 DEF Exchanged, IInv, OpInv, StagedInv, StagedWhole
    <2> QED BY <2>3, <2>5, <2>6 DEF IInv
  <1> QED BY <1>2, <1>3 DEF Exchanged

(* An operation queued for the pump. *)
Queued(o, op) == [o EXCEPT !.op = op, !.inflight = TRUE]

(* Queueing touches none of the bytes. *)
LEMMA QueuedIs ==
    ASSUME NEW o \in Sessions, NEW op \in {"BEGIN", "FLUSH", "FINISH"}
    PROVE  /\ Queued(o, op) \in Sessions /\ Queued(o, op).op = op
           /\ Queued(o, op).inflight = TRUE
           /\ Queued(o, op).state = o.state /\ Queued(o, op).window = o.window
           /\ Queued(o, op).cursor = o.cursor
           /\ \A s, m : Carries(o, s, m) => Carries(Queued(o, op), s, m)
  <1>1. /\ Queued(o, op) \in Sessions /\ Queued(o, op).op = op
        /\ Queued(o, op).inflight = TRUE
        /\ Queued(o, op).state = o.state /\ Queued(o, op).window = o.window
        /\ Queued(o, op).cursor = o.cursor /\ Queued(o, op).base = o.base
        /\ Queued(o, op).flushed = o.flushed /\ Queued(o, op).started = o.started
    BY DEF Queued, Sessions
  <1> QED BY <1>1 DEF Carries, Cursors

(* ota_submit: BUSY, and the operation queued unless one is. *)
LEMMA SubmitIs ==
    ASSUME NEW o, NEW op
    PROVE  /\ ota_submit(o, op).rc = "BUSY"
           /\ o.inflight => ota_submit(o, op).o = o
           /\ ~o.inflight => ota_submit(o, op).o = Queued(o, op)
  BY DEF ota_submit, Queued

(* The host is where it is, or at another phase of the same update. *)
LEMMA PhasesAside ==
    ASSUME IInv
    PROVE  /\ \A phase \in {"idle", "done", "fail"} : Aside(At(phase))
           /\ host.pos = 0 => \A phase \in {"begin", "confirm"} : Aside(At(phase))
           /\ Aside([host EXCEPT !.phase = "idle", !.pos = 0])
           /\ host.phase \notin {"write", "finish"} => Aside(host)
  <1>1. host \in Hosts
    BY DEF IInv, TypeInv
  <1>2. host.phase \in {"mode", "begin", "confirm"} => host.pos = 0
    BY DEF IInv, OpInv
  <1> QED BY <1>1, <1>2 DEF Aside, At, Hosts, Phases

(* The requests that leave the session alone. *)
LEMMA ModeInv == ASSUME IInv, UpdateMode \/ LeaveMode \/ Promote PROVE IInv'
  <1>1. dev \in Devices
    BY DEF IInv, TypeInv
  <1>2. CASE UpdateMode
    <2> DEFINE d == IF dev.polled THEN dev
                    ELSE [dev EXCEPT !.flag = TRUE, !.reset = TRUE, !.drained = FALSE]
               h == IF dev.polled THEN At("begin") ELSE host
    <2>1. d \in Devices /\ d.polled = dev.polled
      BY <1>1 DEF Devices
    <2>2. Exchange(d, h) /\ host.phase = "mode" /\ UNCHANGED ota
      BY <1>2 DEF UpdateMode
    <2>3. Aside(h)
      BY <2>2, PhasesAside DEF IInv, OpInv
    <2> HIDE DEF d, h
    <2> QED BY <2>1, <2>2, <2>3, ExchangeIs, AsideInv
  <1>3. CASE LeaveMode
    <2> DEFINE d == IF dev.polled THEN [dev EXCEPT !.flag = FALSE, !.reset = TRUE, !.drained = FALSE]
                    ELSE dev
    <2>1. d \in Devices /\ d.polled = dev.polled
      BY <1>1 DEF Devices
    <2>2. Exchange(d, host) /\ host.phase = "idle" /\ UNCHANGED ota
      BY <1>3 DEF LeaveMode
    <2>3. Aside(host)
      BY <2>2, PhasesAside
    <2> HIDE DEF d
    <2> QED BY <2>1, <2>2, <2>3, ExchangeIs, AsideInv
  <1>4. CASE Promote
    <2> DEFINE d == [dev EXCEPT !.flag = FALSE, !.drained = FALSE, !.reboot = TRUE]
               h == [host EXCEPT !.phase = "idle", !.pos = 0]
    <2>1. d \in Devices /\ d.polled = dev.polled
      BY <1>1 DEF Devices
    <2>2. Exchange(d, h) /\ UNCHANGED ota
      BY <1>4 DEF Promote
    <2>3. Aside(h)
      BY PhasesAside
    <2> HIDE DEF d, h
    <2> QED BY <2>1, <2>2, <2>3, ExchangeIs, AsideInv
  <1> QED BY <1>2, <1>3, <1>4

(* OTA_BEGIN. *)
LEMMA BeginInv == ASSUME IInv, Begin PROVE IInv'
  <1> DEFINE total == ImageLen[host.img]
             a == cc3501e_hw_ota_begin(ota, total)
             next == [OK |-> "write", BUSY |-> "confirm", INVAL |-> "fail"]
             h == At(next[a.rc])
             o1 == [ota EXCEPT !.state = IF @ = "ERROR" THEN "IDLE" ELSE @, !.optotal = total]
  <1>1. dev \in Devices /\ ota \in Sessions /\ host \in Hosts /\ SlotOK(slot)
    BY DEF IInv, TypeInv
  <1>2. host.phase = "begin" /\ ota' = a.o /\ Exchange(dev, h)
    BY DEF Begin
  <1>3. host.pos = 0 /\ total \in Nat /\ ota.inflight \in BOOLEAN
    BY <1>1, <1>2, SizesAssumption DEF IInv, OpInv, Hosts, Sessions
  <1>4. Exchanged(h)
    <2> HIDE DEF h
    <2> QED BY <1>1, <1>2, ExchangeIs
  <1>5. CASE ota.inflight
    <2>1. a = Answer(ota, "BUSY")
      BY <1>5 DEF cc3501e_hw_ota_begin
    <2>2. a.o = ota /\ h = At("confirm")
      BY <2>1 DEF Answer
    <2> QED BY <1>2, <1>3, <1>4, <2>2, PhasesAside, AsideInv
  <1>6. CASE ~ota.inflight /\ ota.state = "WRITING"
    <2>1. a = Answer(ota, IF total = ota.total /\ ota.cursor = 0 THEN "OK" ELSE "INVAL")
      BY <1>6 DEF cc3501e_hw_ota_begin
    <2>2. CASE total = ota.total /\ ota.cursor = 0
      <3>1. a.o = ota /\ h = At("write")
        BY <2>1, <2>2 DEF Answer
      <3> QED BY <1>2, <1>3, <1>4, <1>6, <2>2, <3>1, SendsInv
    <2>3. CASE ~(total = ota.total /\ ota.cursor = 0)
      <3>1. a.o = ota /\ h = At("fail")
        BY <2>1, <2>3 DEF Answer
      <3> QED BY <1>2, <1>4, <3>1, PhasesAside, AsideInv
    <2> QED BY <2>2, <2>3
  <1>7. CASE ~ota.inflight /\ ota.state # "WRITING"
    <2>1. a = ota_submit(o1, "BEGIN")
      BY <1>7 DEF cc3501e_hw_ota_begin
    <2>2. o1 \in Sessions /\ ~o1.inflight /\ o1.window = ota.window
          /\ o1.state # "WRITING" /\ (o1.state = "STAGED" => ota.state = "STAGED")
      BY <1>1, <1>3, <1>7 DEF Sessions
    <2>3. ota' = Queued(o1, "BEGIN") /\ h = At("confirm")
      <3>1. a.rc = "BUSY" /\ a.o = Queued(o1, "BEGIN")
        <4> HIDE DEF o1, a
        <4> QED BY <2>1, <2>2, SubmitIs
      <3> HIDE DEF o1, a
      <3> QED BY <1>2, <3>1
    <2> HIDE DEF o1, a, next
    <2>4. /\ ota' \in Sessions /\ ota'.op = "BEGIN" /\ ota'.inflight = TRUE
          /\ ota'.state = o1.state /\ ota'.window = ota.window
      BY <2>2, <2>3, QueuedIs
    <2>5. host' \in Hosts /\ host'.img = host.img /\ host'.pos = 0
          /\ host'.phase \in {"begin", "confirm"}
      BY <1>1, <1>2, <1>3, <1>4, <2>3 DEF Exchanged, At, Hosts, Phases
    <2>6. TypeInv'
      BY <1>4, <2>4, <2>5 DEF Exchanged, IInv, TypeInv
    <2>7. SessionInv'
      BY <2>2, <2>4 DEF SessionInv
    <2>8. OpInv'
      BY <1>3, <2>4, <2>5 DEF OpInv
    <2>9. StagedInv' /\ StagedWhole'
      BY <1>4, <2>2, <2>4, <2>5 DEF Exchanged, IInv, StagedInv, StagedWhole
    <2> QED BY <2>6, <2>7, <2>8, <2>9 DEF IInv
  <1> QED BY <1>3, <1>5, <1>6, <1>7

(* OTA_STATUS. *)
LEMMA ConfirmInv == ASSUME IInv, Confirm PROVE IInv'
  <1> DEFINE h == IF ota.inflight THEN host
                  ELSE IF ota.state = "WRITING"
                       THEN At(IF ota.cursor = 0 THEN "write" ELSE "fail")
                       ELSE At("begin")
  <1>1. dev \in Devices /\ host.phase = "confirm" /\ host.pos = 0 /\ UNCHANGED ota
    BY DEF IInv, TypeInv, OpInv, Confirm
  <1>2. Exchanged(h)
    <2>1. Exchange(dev, h)
      BY DEF Confirm
    <2> HIDE DEF h
    <2> QED BY <1>1, <2>1, ExchangeIs
  <1>3. CASE ~ota.inflight /\ ota.state = "WRITING" /\ ota.cursor = 0
    BY <1>1, <1>2, <1>3, SendsInv
  <1>4. CASE ~(~ota.inflight /\ ota.state = "WRITING" /\ ota.cursor = 0)
    <2>1. Aside(h)
      BY <1>1, <1>4, PhasesAside
    <2> HIDE DEF h
    <2> QED BY <1>1, <1>2, <2>1, AsideInv
  <1> QED BY <1>3, <1>4

(* OTA_FINISH: only a host that has sent all of its image queues one. *)
LEMMA FinishInv == ASSUME IInv, Finish PROVE IInv'
  <1> DEFINE a == cc3501e_hw_ota_finish(ota)
             next == [OK |-> "done", BUSY |-> "finish", INVAL |-> "fail"]
             h == At(next[a.rc])
  <1>1. /\ dev \in Devices /\ ota \in Sessions /\ host \in Hosts /\ ota.inflight \in BOOLEAN
        /\ ota.state \in {"IDLE", "WRITING", "STAGED", "ERROR"}
    BY DEF IInv, TypeInv, Sessions
  <1>2. host.phase = "finish" /\ ota' = a.o /\ Exchange(dev, h)
    BY DEF Finish
  <1>3. Exchanged(h)
    <2> HIDE DEF h
    <2> QED BY <1>1, <1>2, ExchangeIs
  <1>4. CASE ota.state = "STAGED"
    <2>1. a = Answer(ota, "OK")
      BY <1>4 DEF cc3501e_hw_ota_finish
    <2>2. a.o = ota /\ h = At("done")
      BY <2>1 DEF Answer
    <2> QED BY <1>2, <1>3, <2>2, PhasesAside, AsideInv
  <1>5. CASE ota.state \in {"IDLE", "ERROR"}
    <2>1. a = Answer(ota, "INVAL")
      BY <1>5 DEF cc3501e_hw_ota_finish
    <2>2. a.o = ota /\ h = At("fail")
      BY <2>1 DEF Answer
    <2> QED BY <1>2, <1>3, <2>2, PhasesAside, AsideInv
  <1>6. CASE ota.state = "WRITING"
    <2>1. a = ota_submit(ota, "FINISH")
      BY <1>6 DEF cc3501e_hw_ota_finish
    <2>2. /\ a.rc = "BUSY" /\ (ota.inflight => a.o = ota)
          /\ ~ota.inflight => a.o = Queued(ota, "FINISH")
      <3> HIDE DEF a
      <3> QED BY <2>1, SubmitIs
    <2>3. h = host
      <3> HIDE DEF a
      <3> QED BY <1>1, <1>2, <2>2 DEF At, Hosts
    <2>4. host' = host /\ slot' = slot
      BY <1>3, <2>3 DEF Exchanged
    <2> HIDE DEF a, h
    <2>5. CASE ota.inflight
      BY <1>2, <1>3, <2>2, <2>4, <2>5
         DEF Exchanged, IInv, TypeInv, SessionInv, SessionOf, OpInv, StagedInv, StagedWhole
    <2>6. CASE ~ota.inflight
      <3>1. /\ ota' \in Sessions /\ ota'.op = "FINISH" /\ ota'.inflight = TRUE
            /\ ota'.state = "WRITING" /\ ota'.window = ota.window /\ ota'.cursor = ota.cursor
            /\ \A s, m : Carries(ota, s, m) => Carries(ota', s, m)
        <4>1. ota' = Queued(ota, "FINISH")
          BY <1>2, <2>2, <2>6
        <4> QED BY <1>1, <1>6, <4>1, QueuedIs
      <3>2. PICK m \in Images : SessionOf(m)
        BY <1>6 DEF IInv, SessionInv
      <3>3. m = host.img /\ host.pos <= ota.cursor /\ ota.cursor <= ImageLen[m]
        BY <1>2, <3>2 DEF SessionOf, Carries
      <3>4. host.pos = ImageLen[m] /\ ota.cursor \in Nat /\ ImageLen[m] \in Nat
        BY <1>1, <1>2, <3>3, SizesAssumption DEF IInv, OpInv, Sessions
      <3>5. ota.cursor = ImageLen[m]
        BY <3>3, <3>4
      <3>6. SessionOf(m)'
        BY <2>4, <3>1, <3>2, <3>5 DEF SessionOf
      <3>7. TypeInv' /\ SessionInv'
        BY <1>3, <2>4, <3>1, <3>6 DEF Exchanged, IInv, TypeInv, SessionInv
      <3>8. OpInv' /\ StagedInv' /\ StagedWhole'
        BY <2>4, <3>1 DEF IInv, OpInv, StagedInv, StagedWhole
      <3> QED BY <3>7, <3>8 DEF IInv
    <2> QED BY <1>1, <2>5, <2>6
  <1> QED BY <1>1, <1>4, <1>5, <1>6

(* OTA_ABORT drops the session, and whatever was queued for it. *)
LEMMA AbortInv == ASSUME IInv, Abort PROVE IInv'
  <1> DEFINE h == [host EXCEPT !.phase = "idle", !.pos = 0]
  <1>1. dev \in Devices /\ ota \in Sessions /\ host.phase \in {"fail", "done"}
    BY DEF IInv, TypeInv, Abort
  <1>2. Exchanged(h) /\ Aside(h) /\ Aside(host)
    <2>1. Exchange(dev, h)
      BY DEF Abort
    <2>2. Aside(h) /\ Aside(host)
      BY <1>1, PhasesAside
    <2> HIDE DEF h
    <2> QED BY <1>1, <2>1, <2>2, ExchangeIs
  <1>3. /\ ota' \in Sessions /\ ota'.op = "IDLE" /\ ota'.inflight = FALSE
        /\ ota'.state = "IDLE" /\ ota'.window = NoSession.window
    <2>1. ota' = [NoSession EXCEPT !.optotal = ota.optotal]
      BY DEF Abort, cc3501e_hw_ota_abort, Answer
    <2> QED BY <1>1, <2>1, NoSessionIs DEF Sessions
  <1> HIDE DEF h
  <1>4. Aside(host') /\ slot' = slot
    BY <1>2 DEF Exchanged
  <1>5. ImageLen[host'.img] \in Nat /\ host'.pos <= ImageLen[host'.img]
    BY <1>4, SizesAssumption DEF Aside, IInv, OpInv, Hosts
  <1>6. TypeInv'
    BY <1>2, <1>3, <1>4, NoSessionIs DEF Exchanged, Aside, IInv, TypeInv
  <1>7. OpInv'
    BY <1>3, <1>4, <1>5 DEF Aside, OpInv
  <1> QED BY <1>3, <1>4, <1>6, <1>7 DEF IInv, SessionInv, StagedInv, StagedWhole

(* A host that starts over. *)
LEMMA StartInv == ASSUME IInv, Start PROVE IInv'
  <1>1. host' \in Hosts /\ host'.phase \in {"mode", "begin"} /\ host'.pos = 0
    BY DEF Start, Hosts, Phases
  <1>2. ImageLen[host'.img] \in Nat
    BY <1>1, SizesAssumption DEF Hosts
  <1>3. UNCHANGED <<ota, slot, dev, pc>>
    BY DEF Start
  <1>4. TypeInv' /\ OpInv'
    BY <1>1, <1>2, <1>3 DEF IInv, TypeInv, OpInv
  <1>5. SessionInv'
    BY <1>1, <1>3 DEF IInv, SessionInv, SessionOf
  <1>6. StagedInv' /\ StagedWhole'
    BY <1>1, <1>3 DEF IInv, StagedInv, StagedWhole
  <1> QED BY <1>4, <1>5, <1>6 DEF IInv

(* The chunk the host sends: the bytes of its image from pos on. *)
LEMMA ChunkIs ==
    ASSUME NEW m \in Images, NEW pos \in Nat, pos <= ImageLen[m]
    PROVE  /\ ChunkAt(m, pos) \in Seq(Bytes)
           /\ Len(ChunkAt(m, pos)) \in Nat
           /\ pos + Len(ChunkAt(m, pos)) <= ImageLen[m]
           /\ \A j \in 1 .. Len(ChunkAt(m, pos)) : ChunkAt(m, pos)[j] = <<m, pos + j - 1>>
  <1>1. ImageLen[m] \in Nat /\ Chunk \in Nat
    BY SizesAssumption
  <1> DEFINE rest == ImageLen[m] - pos
             k == Min({Chunk, rest})
  <1>2. rest \in Nat
    BY <1>1
  <1>3. k \in {Chunk, rest} /\ k <= rest
    <2> HIDE DEF rest
    <2>1. \E x \in {Chunk, rest} : \A y \in {Chunk, rest} : x =< y
      <3>1. CASE Chunk <= rest
        BY <1>1, <1>2, <3>1
      <3>2. CASE rest <= Chunk
        BY <1>1, <1>2, <3>2
      <3> QED BY <1>1, <1>2, <3>1, <3>2
    <2>2. k \in {Chunk, rest} /\ \A y \in {Chunk, rest} : k =< y
      BY <2>1 DEF Min
    <2> QED BY <2>2
  <1>4. k \in Nat /\ pos + k <= ImageLen[m]
    <2>1. k \in Nat
      BY <1>1, <1>2, <1>3
    <2> HIDE DEF k
    <2> QED BY <1>1, <1>3, <2>1
  <1>5. ChunkAt(m, pos) = [i \in 1 .. k |-> <<m, pos + i - 1>>]
    BY DEF ChunkAt
  <1> HIDE DEF k
  <1>6. \A i \in 1 .. k : <<m, pos + i - 1>> \in Bytes
    BY <1>4 DEF Bytes
  <1>7. ChunkAt(m, pos) \in Seq(Bytes) /\ Len(ChunkAt(m, pos)) = k
    <2>1. ChunkAt(m, pos) \in [1 .. k -> Bytes]
      BY <1>5, <1>6
    <2>2. ASSUME NEW n \in Nat, NEW f \in [1 .. n -> Bytes] PROVE f \in Seq(Bytes) /\ Len(f) = n
      OBVIOUS
    <2> QED BY <1>4, <2>1, <2>2
  <1> QED BY <1>4, <1>5, <1>7

(* The window and the cursor after a chunk was taken. *)
Taken(o, v) == [o EXCEPT !.window = @ \o v, !.cursor = @ + Len(v)]

(* A chunk that continues the image at the cursor. *)
LEMMA TakenCarries ==
    ASSUME NEW o \in Sessions, NEW s, NEW m \in Images, Carries(o, s, m),
           NEW v \in Seq(Bytes), Len(v) <= Window - Len(o.window),
           o.cursor + Len(v) <= ImageLen[m],
           \A j \in 1 .. Len(v) : v[j] = <<m, o.cursor + j - 1>>
    PROVE  /\ Taken(o, v) \in Sessions /\ Taken(o, v).cursor = o.cursor + Len(v)
           /\ Taken(o, v).state = o.state /\ Taken(o, v).op = o.op
           /\ Taken(o, v).inflight = o.inflight
           /\ Carries(Taken(o, v), s, m)
  <1>1. PICK base \in Nat, flushed \in Nat, len \in Nat, k \in Nat :
            /\ base = o.base /\ flushed = o.flushed /\ len = Len(o.window) /\ k = Len(v)
            /\ base <= flushed /\ o.cursor = base + len /\ flushed <= base + len
            /\ o.window \in Seq(Bytes)
    BY DEF Carries, Cursors, Sessions
  <1>2. base <= flushed /\ flushed <= (base + len) + k /\ len + k <= Window
    <2>1. k <= Window - len /\ base <= flushed /\ flushed <= base + len
      BY <1>1
    <2>2. Window \in Nat
      BY SizesAssumption
    <2> QED BY <2>1, <2>2
  <1> DEFINE q == Taken(o, v)
             w == o.window \o v
             c == (base + len) + k
  <1>3. /\ w \in Seq(Bytes) /\ Len(w) = len + k
        /\ \A j \in 1 .. len : w[j] = o.window[j]
        /\ \A j \in 1 .. k : w[len + j] = v[j]
    BY <1>1, Appends
  <1>4. q = [o EXCEPT !.window = w, !.cursor = c] /\ c \in Nat
    BY <1>1 DEF Taken
  <1> HIDE DEF w, c
  <1>5. q \in Sessions /\ q.cursor = c /\ q.window = w /\ q.base = base /\ q.flushed = flushed
        /\ q.started = o.started /\ q.state = o.state /\ q.op = o.op /\ q.inflight = o.inflight
    <2> HIDE DEF q
    <2> QED BY <1>1, <1>3, <1>4 DEF Sessions
  <1>6. Cursors(q)
    <2>1. c = base + (len + k) /\ flushed <= c
      BY <1>2 DEF c
    <2>2. IF q.started THEN Manifest <= q.flushed ELSE q.base = 0 /\ q.flushed = 0
      BY <1>1, <1>5 DEF Carries, Cursors
    <2> HIDE DEF q
    <2> QED BY <1>2, <1>3, <1>5, <2>1, <2>2 DEF Cursors
  <1>7. \A i \in base .. c - 1 : w[i - base + 1] = <<m, i>>
    <2> SUFFICES ASSUME NEW i \in base .. c - 1 PROVE w[i - base + 1] = <<m, i>>
      OBVIOUS
    <2>1. i \in Nat /\ i < (base + len) + k
      BY <1>1 DEF c
    <2>2. CASE i < base + len
      <3>1. i - base + 1 \in 1 .. len
        BY <2>1, <2>2
      <3>2. o.window[i - base + 1] = <<m, i>>
        <4>1. i \in o.base .. o.cursor - 1 /\ base = o.base
          BY <1>1, <2>1, <2>2
        <4> QED BY <4>1 DEF Carries
      <3> QED BY <1>3, <3>1, <3>2
    <2>3. CASE i >= base + len
      <3> DEFINE j == i - (base + len) + 1
      <3>1. j \in 1 .. k /\ len + j = i - base + 1 /\ (base + len) + j - 1 = i
        BY <2>1, <2>3
      <3>2. v[j] = <<m, (base + len) + j - 1>>
        <4> HIDE DEF j
        <4> QED BY <1>1, <3>1
      <3> HIDE DEF j
      <3>3. w[len + j] = v[j]
        BY <1>3, <3>1
      <3> QED BY <3>1, <3>2, <3>3
    <2> QED BY <2>1, <2>2, <2>3
  <1>8. c <= ImageLen[m] /\ c = o.cursor + Len(v)
    BY <1>1 DEF c
  <1>9. \A i \in 0 .. flushed - 1 : s.data[i] = <<m, i>>
    BY <1>1 DEF Carries
  <1>10. q.started => s.state = "WRITING" /\ \A i \in Offsets : i >= flushed => s.data[i] = Blank
    BY <1>1, <1>5 DEF Carries
  <1> HIDE DEF q
  <1>11. Carries(q, s, m)
    BY <1>5, <1>6, <1>7, <1>8, <1>9, <1>10 DEF Carries
  <1> QED BY <1>5, <1>8, <1>11 DEF q

(* The four answers of cc3501e_hw_ota_write: refused or not now, a chunk   *)
(* already taken, a full window, a chunk taken (which may start the flash  *)
(* work).                                                                  *)
LEMMA WriteIs ==
    ASSUME NEW o \in Sessions, NEW off \in Nat, NEW v \in Seq(Bytes), NEW a,
           a = cc3501e_hw_ota_write(o, off, v)
    PROVE  \/ a.o = o /\ a.rc \in {"INVAL", "BUSY"}
           \/ a.o = o /\ a.rc = "OK" /\ o.state = "WRITING" /\ off + Len(v) <= o.cursor
           \/ a.o = Queued(o, "FLUSH") /\ a.rc = "BUSY" /\ o.state = "WRITING" /\ ~o.inflight
           \/ /\ o.state = "WRITING" /\ ~o.inflight
              /\ off = o.cursor /\ Len(v) <= Window - Len(o.window)
              /\ \/ a.o = Taken(o, v) /\ a.rc = "OK"
                 \/ a.o = Queued(Taken(o, v), "FLUSH") /\ a.rc = "BUSY"
  <1> DEFINE len == Len(v)
             o1 == Taken(o, v)
  <1>1. o.inflight \in BOOLEAN /\ o1.inflight = o.inflight
    BY DEF Sessions, Taken
  <1>2. CASE o.state # "WRITING" \/ o.inflight
    <2>1. a = Answer(o, "INVAL") \/ a = Answer(o, "BUSY")
      BY <1>2 DEF cc3501e_hw_ota_write
    <2> QED BY <2>1 DEF Answer
  <1>3. CASE o.state = "WRITING" /\ ~o.inflight
    <2>1. a = IF off + len <= o.cursor THEN Answer(o, "OK")
              ELSE IF off # o.cursor \/ off + len > o.total THEN Answer(o, "INVAL")
              ELSE IF len > Window - Len(o.window) THEN ota_submit(o, "FLUSH")
              ELSE IF ~o.started /\ Len(o1.window) >= Manifest THEN ota_submit(o1, "FLUSH")
              ELSE Answer(o1, "OK")
      BY <1>3 DEF cc3501e_hw_ota_write, Taken
    <2> HIDE DEF o1
    <2>2. CASE off + len <= o.cursor
      BY <1>3, <2>1, <2>2 DEF Answer
    <2>3. CASE ~(off + len <= o.cursor) /\ (off # o.cursor \/ off + len > o.total)
      BY <2>1, <2>3 DEF Answer
    <2>4. CASE /\ ~(off + len <= o.cursor) /\ ~(off # o.cursor \/ off + len > o.total)
               /\ len > Window - Len(o.window)
      <3>1. a = ota_submit(o, "FLUSH")
        BY <2>1, <2>4
      <3> QED BY <1>3, <3>1, SubmitIs
    <2>5. CASE /\ ~(off + len <= o.cursor) /\ ~(off # o.cursor \/ off + len > o.total)
               /\ ~(len > Window - Len(o.window))
      <3>1. a = ota_submit(o1, "FLUSH") \/ a = Answer(o1, "OK")
        BY <2>1, <2>5
      <3>2. len <= Window - Len(o.window)
        <4>1. Len(v) \in Nat /\ Len(o.window) \in Nat /\ Window \in Nat
          BY SizesAssumption DEF Sessions
        <4> QED BY <2>5, <4>1
      <3>3. \/ a.o = o1 /\ a.rc = "OK"
            \/ a.o = Queued(o1, "FLUSH") /\ a.rc = "BUSY"
        <4>1. CASE a = Answer(o1, "OK")
          BY <4>1 DEF Answer
        <4>2. CASE a = ota_submit(o1, "FLUSH")
          BY <1>1, <1>3, <4>2, SubmitIs
        <4> QED BY <3>1, <4>1, <4>2
      <3> QED BY <1>3, <2>5, <3>2, <3>3 DEF o1
    <2> QED BY <2>2, <2>3, <2>4, <2>5
  <1> QED BY <1>1, <1>2, <1>3

(* OTA_WRITE. *)
LEMMA WriteInv == ASSUME IInv, Write PROVE IInv'
  <1> DEFINE v == ChunkAt(host.img, host.pos)
             a == cc3501e_hw_ota_write(ota, host.pos, v)
             pos == host.pos + Len(v)
             on == [host EXCEPT !.pos = pos,
                       !.phase = IF pos = ImageLen[host.img] THEN "finish" ELSE @]
             h == CASE a.rc = "OK" -> on
                    [] a.rc = "INVAL" -> At("fail")
                    [] OTHER -> host
  <1>1. /\ dev \in Devices /\ ota \in Sessions /\ host \in Hosts /\ SlotOK(slot)
        /\ host.img \in Images /\ host.pos \in Nat /\ host.pos <= ImageLen[host.img]
        /\ ota.cursor \in Nat /\ ImageLen[host.img] \in Nat
    BY SizesAssumption DEF IInv, TypeInv, OpInv, Hosts, Sessions
  <1>2. host.phase = "write" /\ ota' = a.o /\ Exchange(dev, h)
    BY DEF Write
  <1>3. Exchanged(h)
    <2> HIDE DEF h
    <2> QED BY <1>1, <1>2, ExchangeIs
  <1>4. /\ v \in Seq(Bytes) /\ Len(v) \in Nat /\ host.pos + Len(v) <= ImageLen[host.img]
        /\ \A j \in 1 .. Len(v) : v[j] = <<host.img, host.pos + j - 1>>
    BY <1>1, ChunkIs
  <1>5. \/ a.o = ota /\ a.rc \in {"INVAL", "BUSY"}
        \/ a.o = ota /\ a.rc = "OK" /\ ota.state = "WRITING" /\ pos <= ota.cursor
        \/ a.o = Queued(ota, "FLUSH") /\ a.rc = "BUSY" /\ ota.state = "WRITING" /\ ~ota.inflight
        \/ /\ ota.state = "WRITING" /\ ~ota.inflight
           /\ host.pos = ota.cursor /\ Len(v) <= Window - Len(ota.window)
           /\ \/ a.o = Taken(ota, v) /\ a.rc = "OK"
              \/ a.o = Queued(Taken(ota, v), "FLUSH") /\ a.rc = "BUSY"
    <2> HIDE DEF v
    <2> QED BY <1>1, <1>4, WriteIs
  <1> HIDE DEF v, a
  <1>6. /\ a.rc = "OK" => h = on
        /\ a.rc = "INVAL" => h = At("fail")
        /\ a.rc = "BUSY" => h = host
    OBVIOUS
  <1>7. /\ on \in Hosts /\ on.img = host.img /\ on.pos = pos /\ on.phase \in {"write", "finish"}
        /\ on.phase = "finish" => on.pos = ImageLen[host.img]
        /\ on.pos <= ImageLen[host.img] /\ pos \in Nat /\ host.pos <= pos
    <2>1. pos \in Nat /\ host.pos <= pos /\ pos <= ImageLen[host.img]
      BY <1>1, <1>4
    <2> HIDE DEF pos
    <2>2. /\ on \in Hosts /\ on.img = host.img /\ on.pos = pos /\ on.phase \in {"write", "finish"}
          /\ on.phase = "finish" => pos = ImageLen[host.img]
      BY <1>1, <1>2, <2>1 DEF Hosts, Phases
    <2> QED BY <2>1, <2>2
  <1> HIDE DEF h, on
  <1>8. CASE a.o = ota /\ a.rc \in {"INVAL", "BUSY"}
    <2>1. CASE a.rc = "INVAL"
      BY <1>2, <1>3, <1>6, <1>8, <2>1, PhasesAside, AsideInv
    <2>2. CASE a.rc = "BUSY"
      <3>1. host' = host /\ ota' = ota
        BY <1>2, <1>3, <1>6, <1>8, <2>2 DEF Exchanged
      <3> QED BY <1>3, <3>1
          DEF Exchanged, IInv, TypeInv, SessionInv, SessionOf, OpInv, StagedInv, StagedWhole
    <2> QED BY <1>8, <2>1, <2>2
  <1>9. ASSUME ota.state = "WRITING", ota' \in Sessions, ota'.state = "WRITING",
               ota'.op \in {ota.op, "FLUSH"}, ota'.op = "IDLE" \/ ota'.inflight,
               ota'.op = "FINISH" => ota'.cursor = ota.cursor,
               Carries(ota', slot, host.img),
               host' \in {host, on}, host'.pos <= ota'.cursor
        PROVE  IInv'
    <2>1. host' \in Hosts /\ host'.img = host.img /\ host'.phase \in {"write", "finish"}
          /\ (host'.phase = "finish" => host'.pos = ImageLen[host.img])
          /\ host'.pos <= ImageLen[host.img]
      BY <1>1, <1>2, <1>7, <1>9
    <2>2. Len(ota'.window) <= Window
      BY <1>9 DEF Carries, Cursors
    <2>3. TypeInv'
      BY <1>3, <1>9, <2>1, <2>2 DEF Exchanged, IInv, TypeInv
    <2>4. ota.op = "FINISH" => ota.cursor = ImageLen[host.img]
      BY <1>2, <1>9 DEF IInv, SessionInv, SessionOf
    <2>5. SessionOf(host.img)'
      BY <1>3, <1>9, <2>1, <2>4 DEF Exchanged, SessionOf
    <2>6. SessionInv'
      BY <1>1, <2>1, <2>5 DEF SessionInv
    <2>7. ota.op # "BEGIN"
      BY <1>2 DEF IInv, OpInv
    <2>8. OpInv'
      BY <1>9, <2>1, <2>7 DEF OpInv
    <2>9. StagedInv' /\ StagedWhole'
      BY <1>3, <1>9 DEF Exchanged, IInv, StagedInv, StagedWhole
    <2> QED BY <2>3, <2>6, <2>8, <2>9 DEF IInv
  <1>10. ASSUME ota.state = "WRITING"
         PROVE  Carries(ota, slot, host.img) /\ host.pos <= ota.cursor
    BY <1>2, <1>10 DEF IInv, SessionInv, SessionOf
  <1>11. CASE a.o = ota /\ a.rc = "OK" /\ ota.state = "WRITING" /\ pos <= ota.cursor
    <2>1. ota' = ota /\ host' \in {host, on}
      BY <1>2, <1>3, <1>6, <1>11 DEF Exchanged
    <2>2. host'.pos <= ota.cursor
      BY <1>7, <1>10, <1>11, <2>1
    <2>3. ota.op = "IDLE" \/ ota.inflight
      BY DEF IInv, OpInv
    <2> QED BY <1>1, <1>9, <1>10, <1>11, <2>1, <2>2, <2>3
  <1>12. CASE a.o = Queued(ota, "FLUSH") /\ a.rc = "BUSY" /\ ota.state = "WRITING" /\ ~ota.inflight
    <2>1. host' = host /\ ota' = Queued(ota, "FLUSH")
      BY <1>2, <1>3, <1>6, <1>12 DEF Exchanged
    <2>2. /\ ota' \in Sessions /\ ota'.op = "FLUSH" /\ ota'.inflight = TRUE
          /\ ota'.state = ota.state /\ ota'.cursor = ota.cursor
          /\ \A s, m : Carries(ota, s, m) => Carries(ota', s, m)
      BY <1>1, <2>1, QueuedIs
    <2> QED BY <1>9, <1>10, <1>12, <2>1, <2>2
  <1>13. CASE /\ ota.state = "WRITING" /\ ~ota.inflight
              /\ host.pos = ota.cursor /\ Len(v) <= Window - Len(ota.window)
              /\ \/ a.o = Taken(ota, v) /\ a.rc = "OK"
                 \/ a.o = Queued(Taken(ota, v), "FLUSH") /\ a.rc = "BUSY"
    <2> DEFINE q == Taken(ota, v)
    <2>1. /\ q \in Sessions /\ q.cursor = pos /\ q.state = ota.state /\ q.op = ota.op
          /\ q.inflight = ota.inflight /\ Carries(q, slot, host.img)
      <3>1. \A j \in 1 .. Len(v) : v[j] = <<host.img, ota.cursor + j - 1>>
        BY <1>4, <1>13
      <3>2. pos = ota.cursor + Len(v) /\ ota.cursor + Len(v) <= ImageLen[host.img]
        BY <1>4, <1>13
      <3>3. Carries(ota, slot, host.img) /\ Len(v) <= Window - Len(ota.window)
        BY <1>10, <1>13
      <3> QED BY <1>1, <1>4, <3>1, <3>2, <3>3, TakenCarries
    <2>2. ota.op = "IDLE"
      BY <1>13 DEF IInv, OpInv
    <2> HIDE DEF q
    <2>3. CASE a.o = q /\ a.rc = "OK"
      <3>1. ota' = q /\ host' \in {host, on}
        BY <1>2, <1>3, <1>6, <2>3 DEF Exchanged
      <3>2. host'.pos <= pos
        BY <1>7, <3>1
      <3> QED BY <1>9, <1>13, <2>1, <2>2, <3>1, <3>2
    <2>4. CASE a.o = Queued(q, "FLUSH") /\ a.rc = "BUSY"
      <3>1. ota' = Queued(q, "FLUSH") /\ host' = host
        BY <1>2, <1>3, <1>6, <2>4 DEF Exchanged
      <3>2. /\ ota' \in Sessions /\ ota'.op = "FLUSH" /\ ota'.inflight = TRUE
            /\ ota'.state = q.state /\ ota'.cursor = q.cursor
            /\ \A s, m : Carries(q, s, m) => Carries(ota', s, m)
        BY <2>1, <3>1, QueuedIs
      <3> QED BY <1>7, <1>9, <1>13, <2>1, <3>1, <3>2
    <2> QED BY <1>13, <2>3, <2>4 DEF q
  <1> QED BY <1>5, <1>8, <1>11, <1>12, <1>13

-------------------------------------------------------------------------------
(* The theorems.                                                           *)

(* Every step keeps the invariant. *)
LEMMA StepInv == IInv /\ [Next]_vars => IInv'
  <1> SUFFICES ASSUME IInv, [Next]_vars PROVE IInv'
    OBVIOUS
  <1>1. CASE Frame
    BY <1>1, ModeInv, BeginInv, ConfirmInv, WriteInv, FinishInv, AbortInv DEF Frame
  <1>2. CASE Start
    BY <1>2, StartInv
  <1>3. CASE HardReset
    BY <1>3, HardResetInv
  <1>4. CASE Task
    BY <1>4, TaskInv
  <1>5. CASE UNCHANGED vars
    <2>1. UNCHANGED <<ota, slot, dev, pc, host>>
      BY <1>5 DEF vars
    <2>2. TypeInv' /\ SessionInv'
      BY <2>1 DEF IInv, TypeInv, SessionInv, SessionOf
    <2>3. OpInv' /\ StagedInv' /\ StagedWhole'
      BY <2>1 DEF IInv, OpInv, StagedInv, StagedWhole
    <2> QED BY <2>2, <2>3 DEF IInv
  <1> QED BY <1>1, <1>2, <1>3, <1>4, <1>5 DEF Next

(* So it holds throughout. *)
LEMMA Invariant == Spec => []IInv
  BY InitInv, StepInv, PTL DEF Spec

(* cc3501e_hw_ota_write and ota_flush lose, double and misplace no byte,   *)
(* whatever the chunk, block and window sizes.                             *)
THEOREM AcceptedIsKept == Spec => []AcceptedKept
  <1>1. IInv => AcceptedKept
    <2> SUFFICES ASSUME IInv PROVE AcceptedKept
      OBVIOUS
    <2>1. Len(ota.window) <= Window /\ ota \in Sessions
      BY DEF IInv, TypeInv
    <2>2. ASSUME ota.state = "WRITING"
          PROVE  \E m \in Images : \A i \in 0 .. ota.cursor - 1 :
                    <<m, i>> = IF i < ota.flushed THEN slot.data[i]
                               ELSE ota.window[i - ota.base + 1]
      <3>1. PICK m \in Images : Carries(ota, slot, m)
        BY <2>2 DEF IInv, SessionInv, SessionOf
      <3>2. \A i \in 0 .. ota.cursor - 1 :
                <<m, i>> = IF i < ota.flushed THEN slot.data[i]
                           ELSE ota.window[i - ota.base + 1]
        <4> SUFFICES ASSUME NEW i \in 0 .. ota.cursor - 1
                     PROVE  <<m, i>> = IF i < ota.flushed THEN slot.data[i]
                                       ELSE ota.window[i - ota.base + 1]
          OBVIOUS
        <4>1. i \in Nat /\ ota.flushed \in Nat /\ ota.base \in Nat /\ ota.base <= ota.flushed
              /\ ota.cursor \in Nat
          BY <2>1, <3>1 DEF Sessions, Carries, Cursors
        <4>2. CASE i < ota.flushed
          <5>1. i \in 0 .. ota.flushed - 1
            BY <4>1, <4>2
          <5> QED BY <3>1, <4>2, <5>1 DEF Carries
        <4>3. CASE ~(i < ota.flushed)
          <5>1. i \in ota.base .. ota.cursor - 1
            BY <4>1, <4>3
          <5> QED BY <3>1, <4>3, <5>1 DEF Carries
        <4> QED BY <4>2, <4>3
      <3> QED BY <3>2
    <2> QED BY <2>1, <2>2 DEF AcceptedKept
  <1> QED BY <1>1, Invariant, PTL

(* ota_do_finish stages one whole image or nothing: no abort, reset,       *)
(* failed flash call or abandoned session leaves a spliced image behind a  *)
(* STAGED slot.                                                            *)
THEOREM StagedIsWhole == Spec => []StagedWhole
  <1>1. IInv => StagedWhole
    BY DEF IInv
  <1> QED BY <1>1, Invariant, PTL

(* cc3501e_hw_ota_finish answers OK only to a host whose own image is      *)
(* staged.                                                                 *)
THEOREM FinishedMine == Spec => FinishedIsMine
  <1> DEFINE Told == host.phase # "done" /\ host'.phase = "done"
             Mine == slot.state = "STAGED" /\ Holds(slot.data, host.img)
  <1>1. IInv /\ [Next]_vars => [Told => Mine]_vars
    <2> SUFFICES ASSUME IInv, Next, Told PROVE Mine
      OBVIOUS
    <2>1. host \in Hosts
      BY DEF IInv, TypeInv
    <2>2. ASSUME NEW d, NEW h, Exchange(d, h) PROVE host' = h
      BY <2>2 DEF Exchange
    <2>3. \A phase : At(phase).phase = phase
      BY <2>1 DEF At, Hosts
    <2>4. CASE Finish
      <3>1. host.phase = "finish" /\ ota.state \in {"IDLE", "WRITING", "STAGED", "ERROR"}
        BY <2>4 DEF Finish, IInv, TypeInv, Sessions
      <3>2. cc3501e_hw_ota_finish(ota).rc = "OK"
        <4> DEFINE rc == cc3501e_hw_ota_finish(ota).rc
                   next == [OK |-> "done", BUSY |-> "finish", INVAL |-> "fail"]
        <4>1. rc \in {"OK", "BUSY", "INVAL"}
          BY <3>1, SubmitIs DEF cc3501e_hw_ota_finish, Answer
        <4>2. host' = At(next[rc])
          BY <2>2, <2>4 DEF Finish
        <4> HIDE DEF rc
        <4>3. next[rc] = "done"
          BY <2>3, <4>2
        <4>4. rc = "OK"
          BY <4>1, <4>3
        <4> QED BY <4>4 DEF rc
      <3>3. ota.state = "STAGED"
        BY <3>1, <3>2, SubmitIs DEF cc3501e_hw_ota_finish, Answer
      <3> QED BY <3>1, <3>3 DEF IInv, StagedInv
    <2>5. CASE UpdateMode \/ LeaveMode \/ Promote \/ Begin \/ Confirm \/ Abort
      <3>1. ASSUME Begin PROVE FALSE
        <4> DEFINE rc == cc3501e_hw_ota_begin(ota, ImageLen[host.img]).rc
                   next == [OK |-> "write", BUSY |-> "confirm", INVAL |-> "fail"]
        <4>1. rc \in {"OK", "BUSY", "INVAL"}
          BY SubmitIs DEF cc3501e_hw_ota_begin, Answer
        <4>2. host' = At(next[rc])
          BY <2>2, <3>1 DEF Begin
        <4> HIDE DEF rc
        <4> QED BY <2>3, <4>1, <4>2
      <3>2. ASSUME UpdateMode PROVE FALSE
        BY <2>2, <2>3, <3>2 DEF UpdateMode
      <3>3. ASSUME LeaveMode PROVE FALSE
        BY <2>2, <3>3 DEF LeaveMode
      <3>4. ASSUME Promote \/ Abort PROVE FALSE
        BY <2>1, <2>2, <3>4 DEF Promote, Abort, Hosts
      <3>5. ASSUME Confirm PROVE FALSE
        BY <2>2, <2>3, <3>5 DEF Confirm
      <3> QED BY <2>5, <3>1, <3>2, <3>3, <3>4, <3>5
    <2>6. CASE Write
      <3> DEFINE rc == cc3501e_hw_ota_write(ota, host.pos, ChunkAt(host.img, host.pos)).rc
                 pos == host.pos + Len(ChunkAt(host.img, host.pos))
      <3>1. /\ host.phase = "write"
            /\ host' = CASE rc = "OK" -> [host EXCEPT !.pos = pos,
                                   !.phase = IF pos = ImageLen[host.img] THEN "finish" ELSE @]
                         [] rc = "INVAL" -> At("fail")
                         [] OTHER -> host
        BY <2>2, <2>6 DEF Write
      <3> HIDE DEF rc, pos
      <3> QED BY <2>1, <2>3, <3>1 DEF Hosts
    <2>7. CASE Start
      BY <2>7 DEF Start
    <2>8. CASE HardReset
      BY <2>1, <2>8 DEF HardReset, Hosts
    <2>9. CASE Task
      <3>1. host' = host
        BY <2>9 DEF Task, TickPolled, PumpCheck, PumpQuiesce, PumpRelease, PumpBody, PumpHangs,
                    PumpPublish, ResetLatch, RebootLatch, Reboot
      <3> QED BY <3>1
    <2> QED BY <2>4, <2>5, <2>6, <2>7, <2>8, <2>9 DEF Next, Frame
  <1> QED BY <1>1, Invariant, PTL DEF Spec, FinishedIsMine

===============================================================================
