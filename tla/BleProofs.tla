------------------------------- MODULE BleProofs ------------------------------
(***************************************************************************)
(* Proofs about Ble, for every set of advertisers, every size of the scan  *)
(* cache, every number of GATT operations and every workload.              *)
(***************************************************************************)
EXTENDS Ble, TLAPS

Bodies == Opcodes \cup {"none", "enable"}
Places == {"none", "claim", "call", "wait", "woken", "copy"}

BodyType == body \in [op : Bodies, pc : Places, waited : BOOLEAN]

Kinds == {"none", "read", "write"} \cup Advertisers

CbType ==
    cb \in [pc : {"none", "fill", "set", "signal"},
            kind : Kinds,
            id : Nat, ok : BOOLEAN, caught : BOOLEAN]

SyncType == sync \in [Syncs -> BOOLEAN]
CacheType == s_scan_cache \in Seq(Kinds \cup {Torn})

-------------------------------------------------------------------------------
(* The connection handle. *)

LinkInv == s_conn_handle \in BOOLEAN /\ HandleMirrorsLink

(* What a step needs to change to disturb it. *)
linkVars == <<s_conn_handle, link, orphaned>>

(* The handle names a connection exactly when there is one, unless the     *)
(* adapter let go of it (cc3501e_nimble_host.c:84-88).                     *)
THEOREM HandleMirrored == Spec => []HandleMirrorsLink
  <1>1. Init => LinkInv
    BY DEF Init, LinkInv, HandleMirrorsLink
  <1>2. LinkInv /\ UNCHANGED linkVars => LinkInv'
    BY DEF LinkInv, HandleMirrorsLink, linkVars
  <1>3. LinkInv /\ [Next]_vars => LinkInv'
    <2> SUFFICES ASSUME LinkInv, [Next]_vars PROVE LinkInv'
      OBVIOUS
    <2>1. CASE BodyStart
      <3>1. UNCHANGED linkVars
        BY <2>1 DEF BodyStart, EnableStart, cc3501e_nimble_adv_config_and_start,
               cc3501e_nimble_adv_stop, cc3501e_nimble_host_disable, cc3501e_nimble_scan_stop,
               ScanPrep, ConnectPrep, DisconnectPrep, cc3501e_nimble_gatt_register, ReadPrep,
               WritePrep, GattPrep, stack, adapter, linkVars
      <3> QED
        BY <1>2, <3>1
    <2>2. CASE DisconnectCall
      <3>1. CASE link = "up" /\ link' = "ending" /\ UNCHANGED <<s_conn_handle, orphaned>>
        BY <3>1 DEF LinkInv, HandleMirrorsLink
      <3>2. CASE s_conn_handle' = FALSE /\ orphaned' = (link # "none") /\ link' = link
        <4>1. CASE link = "none"
          BY <3>2, <4>1 DEF LinkInv, HandleMirrorsLink
        <4>2. CASE link # "none"
          BY <3>2, <4>2 DEF LinkInv, HandleMirrorsLink
        <4> QED
          BY <4>1, <4>2
      <3> QED
        BY <2>2, <3>1, <3>2 DEF DisconnectCall
    <2>3. CASE BodyStep /\ ~DisconnectCall
      <3>1. CASE EnableWait \/ EnableEnd \/ ScanCall \/ ScanWait \/ ScanCancel \/ ScanCopy
        BY <1>2, <3>1 DEF EnableWait, EnableEnd, ScanCall, ScanWait, ScanCancel, ScanCopy, stack,
               adapter, linkVars
      <3>2. CASE ConnectCall \/ ConnectWait \/ ConnectEnd \/ DisconnectWait \/ DisconnectEnd
        BY <1>2, <3>2 DEF ConnectCall, ConnectWait, ConnectEnd, DisconnectWait, DisconnectEnd,
               stack, adapter, linkVars
      <3>3. CASE ReadClaim \/ ReadCall \/ ReadWait \/ ReadRetire \/ ReadEnd
        BY <1>2, <3>3 DEF ReadClaim, ReadCall, ReadWait, ReadRetire, ReadEnd, GattCall, GattWait,
               gattUnchanged, stack, adapter, linkVars
      <3>4. CASE WriteCall \/ WriteWait \/ WriteEnd
        BY <1>2, <3>4 DEF WriteCall, WriteWait, WriteEnd, GattCall, GattWait, gattUnchanged,
               stack, adapter, linkVars
      <3> QED
        BY <2>3, <3>1, <3>2, <3>3, <3>4 DEF BodyStep
    <2>4. CASE PeerConnects \/ DisconnectEvent
      BY <2>4 DEF PeerConnects, DisconnectEvent, LinkInv, HandleMirrorsLink
    <2>8. CASE ConnectEvent
      <3>1. PICK ok \in {FALSE} \cup {link = "none"} :
               /\ link' = IF ok THEN "up" ELSE link
               /\ s_conn_handle' = ok
               /\ orphaned' = (orphaned \/ (~ok /\ link # "none"))
        BY <2>8 DEF ConnectEvent
      <3>2. CASE ok = TRUE
        BY <3>1, <3>2 DEF LinkInv, HandleMirrorsLink
      <3>3. CASE ok = FALSE
        <4>1. CASE link = "none"
          BY <3>1, <3>3, <4>1 DEF LinkInv, HandleMirrorsLink
        <4>2. CASE link # "none"
          BY <3>1, <3>3, <4>2 DEF LinkInv, HandleMirrorsLink
        <4> QED
          BY <4>1, <4>2
      <3> QED
        BY <3>1, <3>2, <3>3
    <2>5. CASE cc3501e_ble_sync_cb \/ DiscFill \/ DiscComplete \/ \E a \in Advertisers : DiscReport(a)
      BY <1>2, <2>5 DEF cc3501e_ble_sync_cb, DiscFill, DiscComplete, DiscReport, stack, adapter,
             linkVars
    <2>6. CASE GattResponse \/ GattSet \/ GattSignal
      BY <1>2, <2>6 DEF GattResponse, GattSet, GattSignal, gattUnchanged, linkVars
    <2>7. CASE UNCHANGED vars
      BY <1>2, <2>7 DEF vars, stack, adapter, linkVars
    <2> QED
      BY <2>1, <2>2, <2>3, <2>4, <2>5, <2>6, <2>7, <2>8 DEF Next, HostTask, BodyStep
  <1> QED
    BY <1>1, <1>3, PTL DEF Spec, LinkInv

-------------------------------------------------------------------------------
(* The GATT client. *)

GattType ==
    /\ BodyType /\ CbType
    /\ ops \in Nat
    /\ att \in SUBSET [kind : {"read", "write"}, id : Nat]
    /\ gattc \in [status : {"none", "ok", "failed"}, len : {0, 1}, bounce : Nat,
                  pending : BOOLEAN, gen : Nat]
    /\ tainted \in BOOLEAN

(* Operations are numbered upwards, so a read that has not been sent has   *)
(* no response outstanding.                                                *)
AttInv ==
    \A p \in att :
        /\ p.id <= ops
        /\ p.kind = "read" /\ p.id = ops /\ body.op = "read" => body.pc \notin {"claim", "call"}

(* A pending read is the one in progress. *)
PendingInv ==
    gattc.pending => body.op = "read" /\ body.pc \in {"call", "wait", "woken"} /\ gattc.gen = ops

(* A read's callback that is past its check and was not overtaken by the   *)
(* retirement of its read belongs to the read in progress.                 *)
OwnCallback ==
    cb.pc \in {"set", "signal"} /\ cb.kind = "read" /\ ~cb.caught =>
        body.op = "read" /\ body.pc \in {"wait", "woken"} /\ cb.id = ops

(* So a success that no late callback touched came with the own value. *)
OwnValue ==
    body.op = "read" /\ gattc.status = "ok" /\ ~tainted => gattc.len = 1 /\ gattc.bounce = ops

(* Only the two GATT callbacks set a result and signal it. *)
KindInv == cb.pc \in {"set", "signal"} => cb.kind \in {"read", "write"}

GattInv == GattType /\ AttInv /\ PendingInv /\ KindInv /\ OwnCallback /\ OwnValue

(* The initial state satisfies the GATT invariant. *)
LEMMA GattInitInv == Init => GattInv
  <1> SUFFICES ASSUME Init PROVE GattInv
    OBVIOUS
  <1> USE DEF Init, Idle, NoCb
  <1>1. GattType
    BY DEF GattType, BodyType, CbType, Kinds, Bodies, Places
  <1>2. AttInv /\ PendingInv /\ KindInv /\ OwnCallback /\ OwnValue
    BY DEF AttInv, PendingInv, KindInv, OwnCallback, OwnValue
  <1> QED
    BY <1>1, <1>2 DEF GattInv

gattVars == <<body, cb, ops, att, gattc, tainted>>

(* A step that changes none of these preserves the invariant. *)
LEMMA GattStutter == GattInv /\ UNCHANGED gattVars => GattInv'
  BY DEF gattVars, GattInv, GattType, BodyType, CbType, AttInv, PendingInv, KindInv, OwnCallback, OwnValue

(* A body other than a read goes on, or begins. *)
LEMMA GattOtherBody ==
    ASSUME GattInv, body.op # "read", body'.op # "read", BodyType', tainted' \in BOOLEAN,
           UNCHANGED <<cb, ops, att, gattc>>
    PROVE  GattInv'
  BY DEF GattInv, GattType, CbType, AttInv, PendingInv, KindInv, OwnCallback, OwnValue

(* A callback of the scan, or its signal. *)
LEMMA GattOtherCallback ==
    ASSUME GattInv, CbType', cb'.pc \in {"none", "fill"} \/ cb' = cb,
           tainted' \in BOOLEAN, tainted => tainted', UNCHANGED <<body, ops, att, gattc>>
    PROVE  GattInv'
  BY DEF GattInv, GattType, BodyType, CbType, AttInv, PendingInv, KindInv, OwnCallback, OwnValue

(* BLE_GATT_READ and BLE_GATT_WRITE begin with a new number. *)
LEMMA GattPrepInv == GattInv /\ (ReadPrep \/ WritePrep) => GattInv'
  <1> SUFFICES ASSUME GattInv, ReadPrep \/ WritePrep PROVE GattInv'
    OBVIOUS
  <1>1. /\ body = Idle /\ ops' = ops + 1 /\ tainted' = FALSE /\ att' = att /\ cb' = cb
        /\ \/ /\ body' = [op |-> "read", pc |-> "claim", waited |-> FALSE]
              /\ gattc' = [gattc EXCEPT !.status = "none", !.len = 0]
           \/ /\ body' = [op |-> "write", pc |-> "call", waited |-> FALSE]
              /\ gattc' = [gattc EXCEPT !.status = "none"]
    BY DEF ReadPrep, WritePrep, GattPrep, Begin, Ready, stack
  <1>2. GattType'
    <2>1. BodyType'
      <3>1. \A op \in {"read", "write"}, pc \in {"claim", "call"} :
               [op |-> op, pc |-> pc, waited |-> FALSE] \in [op : Bodies, pc : Places, waited : BOOLEAN]
        BY DEF Bodies, Opcodes, Places
      <3> QED
        BY <1>1, <3>1 DEF BodyType
    <2>2. gattc' \in [status : {"none", "ok", "failed"}, len : {0, 1}, bounce : Nat,
                      pending : BOOLEAN, gen : Nat]
      BY <1>1 DEF GattInv, GattType
    <2>3. ops' \in Nat
      BY <1>1 DEF GattInv, GattType
    <2>4. CbType' /\ att' \in SUBSET [kind : {"read", "write"}, id : Nat]
      BY <1>1 DEF GattInv, GattType, CbType
    <2>5. tainted' \in BOOLEAN
      BY <1>1
    <2> QED
      BY <2>1, <2>2, <2>3, <2>4, <2>5, Zenon DEF GattType
  <1>3. AttInv'
    <2>1. \A p \in att : p.id \in Nat /\ p.id <= ops
      BY DEF GattInv, GattType, AttInv
    <2>2. \A p \in att' : p.id <= ops' /\ p.id # ops'
      BY <1>1, <2>1 DEF GattInv, GattType
    <2> QED
      BY <2>2 DEF AttInv
  <1>4. PendingInv' /\ KindInv' /\ OwnCallback' /\ OwnValue'
    BY <1>1 DEF GattInv, GattType, Idle, PendingInv, KindInv, OwnCallback, OwnValue
  <1> QED
    BY <1>2, <1>3, <1>4 DEF GattInv

(* The claim makes the read in progress the pending one. *)
LEMMA GattClaimInv == GattInv /\ ReadClaim => GattInv'
  <1> SUFFICES ASSUME GattInv, ReadClaim PROVE GattInv'
    OBVIOUS
  <1>1. /\ body.op = "read" /\ body.pc = "claim" /\ body' = [body EXCEPT !.pc = "call"]
        /\ gattc' = [gattc EXCEPT !.gen = ops, !.pending = TRUE]
        /\ UNCHANGED <<ops, att, cb, tainted>>
    BY DEF ReadClaim, At, Goto, gattUnchanged
  <1>2. GattType'
    BY <1>1 DEF GattInv, GattType, BodyType, CbType, Places
  <1>3. AttInv'
    BY <1>1 DEF GattInv, GattType, BodyType, AttInv
  <1>4. PendingInv' /\ KindInv' /\ OwnCallback' /\ OwnValue'
    BY <1>1 DEF GattInv, GattType, BodyType, PendingInv, KindInv, OwnCallback, OwnValue
  <1> QED
    BY <1>2, <1>3, <1>4 DEF GattInv

(* The call: refused, or sent under the operation's number. *)
LEMMA GattCallInv ==
    ASSUME GattInv, NEW op \in {"read", "write"}, GattCall(op)
    PROVE  GattInv'
  <1>1. At(op, "call") /\ UNCHANGED <<ops, cb, tainted>>
    BY DEF GattCall, gattUnchanged
  <1>2. CASE /\ body' = Idle /\ att' = att
             /\ gattc' = IF op = "read" THEN [gattc EXCEPT !.pending = FALSE] ELSE gattc
    <2>1. GattType'
      BY <1>1, <1>2 DEF GattInv, GattType, BodyType, CbType, Idle, Bodies, Places
    <2>2. AttInv' /\ PendingInv' /\ KindInv' /\ OwnCallback' /\ OwnValue'
      BY <1>1, <1>2 DEF GattInv, GattType, At, Idle, AttInv, PendingInv, KindInv, OwnCallback, OwnValue
    <2> QED
      BY <2>1, <2>2 DEF GattInv
  <1>3. CASE /\ att' = att \cup {[kind |-> op, id |-> ops]}
             /\ body' = [body EXCEPT !.pc = "wait"] /\ gattc' = gattc
    <2>1. GattType'
      BY <1>1, <1>3 DEF GattInv, GattType, BodyType, CbType, Places
    <2>2. AttInv'
      BY <1>1, <1>3 DEF GattInv, GattType, BodyType, At, AttInv
    <2>3. PendingInv' /\ KindInv' /\ OwnCallback' /\ OwnValue'
      BY <1>1, <1>3 DEF GattInv, GattType, BodyType, At, PendingInv, KindInv, OwnCallback, OwnValue
    <2> QED
      BY <2>1, <2>2, <2>3 DEF GattInv
  <1> QED
    BY <1>2, <1>3 DEF GattCall, Goto, Done

(* The wait of a read or a write ends, with or without a signal. *)
LEMMA GattWaitInv ==
    ASSUME GattInv, NEW op \in {"read", "write"}, SyncType, GattWait(op)
    PROVE  GattInv'
  <1>1. /\ At(op, "wait") /\ body' = [body EXCEPT !.pc = "woken", !.waited = sync["gattc"]]
        /\ UNCHANGED <<ops, att, gattc, cb, tainted>>
    BY DEF GattWait, cc3501e_wait_signaled, stack, adapter
  <1>2. sync["gattc"] \in BOOLEAN
    BY DEF SyncType, Syncs
  <1>3. GattType'
    BY <1>1, <1>2 DEF GattInv, GattType, BodyType, CbType, Places
  <1>4. AttInv' /\ PendingInv' /\ KindInv' /\ OwnCallback' /\ OwnValue'
    BY <1>1 DEF GattInv, GattType, BodyType, At, AttInv, PendingInv, KindInv, OwnCallback, OwnValue
  <1> QED
    BY <1>3, <1>4 DEF GattInv

(* The read is retired: its callback, if past the check, is now late. *)
LEMMA GattRetireInv == GattInv /\ ReadRetire => GattInv'
  <1> SUFFICES ASSUME GattInv, ReadRetire PROVE GattInv'
    OBVIOUS
  <1>1. /\ At("read", "woken") /\ body' = [body EXCEPT !.pc = "copy"]
        /\ gattc' = [gattc EXCEPT !.pending = FALSE]
        /\ cb' = [cb EXCEPT !.caught = (cb.kind = "read")]
        /\ UNCHANGED <<ops, att, tainted>>
    BY DEF ReadRetire, Goto, gattUnchanged
  <1>2. (cb.kind = "read") \in BOOLEAN
    OBVIOUS
  <1>3. GattType'
    BY <1>1, <1>2 DEF GattInv, GattType, BodyType, CbType, Places
  <1>4. cb'.kind = "read" => cb'.caught
    BY <1>1 DEF GattInv, GattType, CbType
  <1>5. AttInv' /\ PendingInv' /\ KindInv' /\ OwnCallback' /\ OwnValue'
    BY <1>1, <1>4 DEF GattInv, GattType, BodyType, At, AttInv, PendingInv, KindInv, OwnCallback, OwnValue
  <1> QED
    BY <1>3, <1>5 DEF GattInv

(* The read ends; nothing of it is pending any more. *)
LEMMA GattReadEndInv == GattInv /\ ReadEnd => GattInv'
  <1> SUFFICES ASSUME GattInv, ReadEnd PROVE GattInv'
    OBVIOUS
  <1>1. At("read", "copy") /\ body' = Idle /\ UNCHANGED <<ops, att, gattc, cb, tainted>>
    BY DEF ReadEnd, Done, stack, adapter
  <1>2. GattType'
    BY <1>1 DEF GattInv, GattType, BodyType, CbType, Idle, Bodies, Places
  <1>3. AttInv' /\ PendingInv' /\ KindInv' /\ OwnCallback' /\ OwnValue'
    BY <1>1 DEF GattInv, GattType, BodyType, At, Idle, AttInv, PendingInv, KindInv, OwnCallback, OwnValue
  <1> QED
    BY <1>2, <1>3 DEF GattInv

(* A response: a read's goes on only when it is the pending one. *)
LEMMA GattResponseInv == GattInv /\ GattResponse => GattInv'
  <1> SUFFICES ASSUME GattInv, GattResponse PROVE GattInv'
    OBVIOUS
  <1>1. PICK p \in att, ok \in BOOLEAN :
           /\ att' = att \ {p}
           /\ cb' = IF Mine(p)
                    THEN [NoCb EXCEPT !.pc = "set", !.kind = p.kind, !.id = p.id, !.ok = ok]
                    ELSE NoCb
    BY DEF GattResponse
  <1>2. UNCHANGED <<body, ops, gattc, tainted>>
    BY DEF GattResponse, gattUnchanged
  <1>3. p.kind \in {"read", "write"} /\ p.id \in Nat
    BY DEF GattInv, GattType
  <1>4. GattType'
    BY <1>1, <1>2, <1>3 DEF GattInv, GattType, BodyType, CbType, Kinds, NoCb
  <1>5. AttInv' /\ PendingInv' /\ OwnValue'
    BY <1>1, <1>2 DEF GattInv, AttInv, PendingInv, OwnValue
  <1>7. KindInv'
    BY <1>1, <1>3 DEF KindInv, NoCb
  <1>6. OwnCallback'
    <2>1. CASE Mine(p) /\ p.kind = "read"
      <3>1. body.op = "read" /\ body.pc \in {"wait", "woken"} /\ p.id = ops
        BY <2>1 DEF Mine, GattInv, PendingInv, AttInv
      <3>2. cb'.id = p.id
        BY <1>1, <2>1 DEF NoCb
      <3> QED
        BY <1>2, <3>1, <3>2 DEF OwnCallback
    <2>2. CASE ~(Mine(p) /\ p.kind = "read")
      BY <1>1, <2>2 DEF OwnCallback, NoCb
    <2> QED
      BY <2>1, <2>2
  <1> QED
    BY <1>4, <1>5, <1>6, <1>7 DEF GattInv

(* The callback stores its outcome; one that is late leaves its mark. *)
LEMMA GattSetInv == GattInv /\ GattSet => GattInv'
  <1> SUFFICES ASSUME GattInv, GattSet PROVE GattInv'
    OBVIOUS
  <1>1. /\ cb.pc = "set" /\ cb' = [cb EXCEPT !.pc = "signal"]
        /\ gattc' = [gattc EXCEPT
                       !.status = IF cb.ok THEN "ok" ELSE "failed",
                       !.bounce = IF cb.ok /\ cb.kind = "read" THEN cb.id ELSE @,
                       !.len    = IF cb.ok /\ cb.kind = "read" THEN 1 ELSE @]
        /\ tainted' = (tainted \/ Late)
        /\ UNCHANGED <<body, ops, att>>
    BY DEF GattSet, gattUnchanged
  <1>2. GattType'
    <2>1. gattc' \in [status : {"none", "ok", "failed"}, len : {0, 1}, bounce : Nat,
                      pending : BOOLEAN, gen : Nat]
      BY <1>1 DEF GattInv, GattType, CbType
    <2>2. CbType'
      BY <1>1 DEF GattInv, GattType, CbType
    <2>3. tainted' \in BOOLEAN
      BY <1>1
    <2> QED
      BY <1>1, <2>1, <2>2, <2>3 DEF GattInv, GattType, BodyType
  <1>3. AttInv'
    BY <1>1 DEF GattInv, AttInv
  <1>4. PendingInv' /\ KindInv' /\ OwnCallback'
    BY <1>1 DEF GattInv, GattType, CbType, PendingInv, KindInv, OwnCallback
  <1>5. OwnValue'
    <2> SUFFICES ASSUME body'.op = "read", gattc'.status = "ok", ~tainted'
                 PROVE  gattc'.len = 1 /\ gattc'.bounce = ops'
      BY DEF OwnValue
    <2>1. body.op = "read" /\ ~Late
      BY <1>1
    <2>2. cb.ok
      BY <1>1 DEF GattInv, GattType
    <2>3. CASE cb.kind = "read"
      <3>1. cb.id = ops
        BY <1>1, <2>1, <2>3 DEF Late, GattInv, OwnCallback
      <3> QED
        BY <1>1, <2>2, <2>3, <3>1 DEF GattInv, GattType
    <2>4. CASE cb.kind = "write"
      BY <2>1, <2>4 DEF Late
    <2>5. cb.kind \in {"read", "write"}
      BY <1>1 DEF GattInv, KindInv
    <2> QED
      BY <2>3, <2>4, <2>5
  <1> QED
    BY <1>2, <1>3, <1>4, <1>5 DEF GattInv

(* The callback signals and is over. *)
LEMMA GattSignalInv == GattInv /\ GattSignal => GattInv'
  <1> SUFFICES ASSUME GattInv, GattSignal PROVE GattInv'
    OBVIOUS
  <1>1. cb' = NoCb /\ tainted' = (tainted \/ Late) /\ UNCHANGED <<body, ops, att, gattc>>
    BY DEF GattSignal, gattUnchanged
  <1>2. CbType' /\ cb'.pc = "none"
    BY <1>1 DEF CbType, Kinds, NoCb
  <1>3. tainted' \in BOOLEAN /\ (tainted => tainted')
    BY <1>1
  <1> QED
    BY <1>1, <1>2, <1>3, GattOtherCallback

(* The sync objects stay binary: a step clears one, signals one or leaves  *)
(* them alone.                                                             *)
LEMMA SyncNext == SyncType /\ [Next]_vars => SyncType'
  <1> SUFFICES ASSUME SyncType, [Next]_vars PROVE SyncType'
    OBVIOUS
  <1>1. ASSUME NEW s \in Syncs, Clear(s) \/ Signal(s) PROVE SyncType'
    BY <1>1 DEF Clear, Signal, SyncType
  <1>2. sync' = sync => SyncType'
    BY DEF SyncType
  <1> USE DEF Syncs
  <1>3. CASE BodyStart
    BY <1>1, <1>2, <1>3 DEF BodyStart, EnableStart, cc3501e_nimble_adv_config_and_start,
           cc3501e_nimble_adv_stop, cc3501e_nimble_host_disable, cc3501e_nimble_scan_stop,
           ScanPrep, ConnectPrep, DisconnectPrep, cc3501e_nimble_gatt_register, ReadPrep,
           WritePrep, GattPrep
  <1>4. CASE EnableWait \/ ScanWait \/ ConnectWait \/ DisconnectWait \/ ReadWait \/ WriteWait
    BY <1>1, <1>4 DEF EnableWait, ScanWait, ConnectWait, DisconnectWait, ReadWait, WriteWait,
           GattWait, cc3501e_wait_signaled
  <1>5. CASE EnableEnd \/ ScanCall \/ ScanCancel \/ ScanCopy \/ ConnectCall \/ ConnectEnd
             \/ DisconnectCall \/ DisconnectEnd \/ ReadClaim \/ ReadCall \/ ReadRetire \/ ReadEnd
             \/ WriteCall \/ WriteEnd
    BY <1>2, <1>5 DEF EnableEnd, ScanCall, ScanCancel, ScanCopy, ConnectCall, ConnectEnd,
           DisconnectCall, DisconnectEnd, ReadClaim, ReadCall, ReadRetire, ReadEnd, WriteCall,
           WriteEnd, GattCall
  <1>6. CASE cc3501e_ble_sync_cb \/ DiscComplete \/ ConnectEvent \/ DisconnectEvent \/ GattSignal
    BY <1>1, <1>6 DEF cc3501e_ble_sync_cb, DiscComplete, ConnectEvent, DisconnectEvent, GattSignal
  <1>7. CASE PeerConnects \/ DiscFill \/ GattResponse \/ GattSet \/ \E a \in Advertisers : DiscReport(a)
    BY <1>2, <1>7 DEF PeerConnects, DiscFill, GattResponse, GattSet, DiscReport
  <1>8. CASE UNCHANGED vars
    BY <1>2, <1>8 DEF vars
  <1> QED
    BY <1>3, <1>4, <1>5, <1>6, <1>7, <1>8 DEF Next, BodyStep, HostTask

(* The scan cache stays a sequence: it is emptied, one record longer, or    *)
(* has one record filled in.                                               *)
LEMMA CacheNext == CacheType /\ CbType /\ [Next]_vars => CacheType'
  <1> SUFFICES ASSUME CacheType, CbType, [Next]_vars PROVE CacheType'
    OBVIOUS
  <1>1. s_scan_cache' = s_scan_cache => CacheType'
    BY DEF CacheType
  <1>7. CASE ScanPrep
    BY <1>7 DEF ScanPrep, CacheType
  <1>2. CASE BodyStart /\ ~ScanPrep
    BY <1>1, <1>2 DEF BodyStart, EnableStart, cc3501e_nimble_adv_config_and_start,
           cc3501e_nimble_adv_stop, cc3501e_nimble_host_disable, cc3501e_nimble_scan_stop,
           ConnectPrep, DisconnectPrep, cc3501e_nimble_gatt_register, ReadPrep,
           WritePrep, GattPrep, adapter
  <1>3. CASE BodyStep
    BY <1>1, <1>3 DEF BodyStep, EnableWait, EnableEnd, ScanCall, ScanWait, ScanCancel, ScanCopy,
           ConnectCall, ConnectWait, ConnectEnd, DisconnectCall, DisconnectWait, DisconnectEnd,
           ReadClaim, ReadCall, ReadWait, ReadRetire, ReadEnd, WriteCall, WriteWait, WriteEnd,
           GattCall, GattWait, gattUnchanged, adapter
  <1>4. CASE DiscFill
    <2>1. cb.kind \in Kinds /\ cb.id \in Nat
      BY DEF CbType
    <2>2. CASE cb.id \in 1 .. Len(s_scan_cache)
      <3>1. s_scan_cache' = [s_scan_cache EXCEPT ![cb.id] = cb.kind]
        BY <1>4, <2>2 DEF DiscFill, CacheType
      <3> QED
        BY <2>1, <2>2, <3>1 DEF CacheType
    <2>3. CASE cb.id \notin 1 .. Len(s_scan_cache)
      <3>1. s_scan_cache' = s_scan_cache
        BY <1>4, <2>1, <2>3 DEF DiscFill, CacheType
      <3> QED
        BY <1>1, <3>1
    <2> QED
      BY <2>2, <2>3
  <1>5. ASSUME NEW a \in Advertisers, DiscReport(a) PROVE CacheType'
    BY <1>5 DEF DiscReport, CacheType
  <1>6. CASE cc3501e_ble_sync_cb \/ DiscComplete \/ ConnectEvent \/ PeerConnects
             \/ DisconnectEvent \/ GattResponse \/ GattSet \/ GattSignal \/ UNCHANGED vars
    BY <1>1, <1>6 DEF cc3501e_ble_sync_cb, DiscComplete, ConnectEvent, PeerConnects,
           DisconnectEvent, GattResponse, GattSet, GattSignal, gattUnchanged, vars, adapter
  <1> QED
    BY <1>2, <1>3, <1>4, <1>5, <1>6, <1>7 DEF Next, HostTask

(* Every step preserves the GATT invariant. *)
LEMMA GattNextInv == GattInv /\ SyncType /\ CacheType /\ [Next]_vars => GattInv'
  <1> SUFFICES ASSUME GattInv, SyncType, CacheType, [Next]_vars PROVE GattInv'
    OBVIOUS
  <1>1. CASE cc3501e_nimble_adv_config_and_start \/ cc3501e_nimble_adv_stop
             \/ cc3501e_nimble_host_disable \/ cc3501e_nimble_scan_stop
             \/ cc3501e_nimble_gatt_register
    BY <1>1, GattStutter DEF cc3501e_nimble_adv_config_and_start, cc3501e_nimble_adv_stop,
           cc3501e_nimble_host_disable, cc3501e_nimble_scan_stop, cc3501e_nimble_gatt_register,
           adapter, gattVars
  <1>2. CASE cc3501e_ble_sync_cb \/ ConnectEvent \/ PeerConnects \/ DisconnectEvent
             \/ UNCHANGED vars
    BY <1>2, GattStutter DEF cc3501e_ble_sync_cb, ConnectEvent, PeerConnects, DisconnectEvent,
           vars, stack, adapter, gattVars
  <1>3. CASE EnableStart \/ ScanPrep \/ ConnectPrep \/ DisconnectPrep
    <2>1. body = Idle /\ UNCHANGED <<cb, ops, att, gattc>> /\ tainted' \in {tainted, FALSE}
      BY <1>3 DEF EnableStart, ScanPrep, ConnectPrep, DisconnectPrep, Begin, Ready, stack, adapter
    <2>2. \/ body' = body
          \/ \E op \in {"enable", "scan", "connect", "disconnect"}, pc \in {"call", "wait"} :
                body' = [op |-> op, pc |-> pc, waited |-> FALSE]
      BY <1>3 DEF EnableStart, ScanPrep, ConnectPrep, DisconnectPrep, Begin
    <2>3. BodyType' /\ body'.op # "read"
      <3>1. CASE body' = body
        BY <2>1, <3>1 DEF GattInv, GattType, BodyType, Idle
      <3>2. ASSUME NEW op \in {"enable", "scan", "connect", "disconnect"},
                   NEW pc \in {"call", "wait"},
                   body' = [op |-> op, pc |-> pc, waited |-> FALSE]
            PROVE  BodyType' /\ body'.op # "read"
        BY <3>2 DEF BodyType, Bodies, Opcodes, Places
      <3> QED
        BY <2>2, <3>1, <3>2
    <2>4. tainted' \in BOOLEAN
      BY <2>1 DEF GattInv, GattType
    <2> QED
      BY <2>1, <2>3, <2>4, GattOtherBody DEF Idle
  <1>4. CASE ReadPrep \/ WritePrep
    BY <1>4, GattPrepInv
  <1>5. CASE EnableWait \/ ScanWait \/ ConnectWait \/ DisconnectWait
    <2>1. PICK op \in {"enable", "scan", "connect", "disconnect"}, s \in Syncs :
             At(op, "wait") /\ body' = [body EXCEPT !.pc = "woken", !.waited = sync[s]]
      BY <1>5 DEF EnableWait, ScanWait, ConnectWait, DisconnectWait, cc3501e_wait_signaled, Syncs
    <2>2. UNCHANGED <<cb, ops, att, gattc, tainted>>
      BY <1>5 DEF EnableWait, ScanWait, ConnectWait, DisconnectWait, stack, adapter
    <2>3. sync[s] \in BOOLEAN
      BY DEF SyncType
    <2>4. BodyType' /\ body.op # "read" /\ body'.op # "read"
      BY <2>1, <2>3 DEF GattInv, GattType, BodyType, At, Places
    <2> QED
      BY <2>2, <2>4, GattOtherBody DEF GattInv, GattType
  <1>6. CASE EnableEnd \/ ScanCall \/ ScanCancel \/ ScanCopy \/ ConnectCall \/ ConnectEnd
             \/ DisconnectCall \/ DisconnectEnd \/ WriteEnd
    <2>1. body.op \in {"enable", "scan", "connect", "disconnect", "write"}
      BY <1>6 DEF EnableEnd, ScanCall, ScanCancel, ScanCopy, ConnectCall, ConnectEnd,
             DisconnectCall, DisconnectEnd, WriteEnd, At
    <2>2. body' = Idle \/ \E pc \in {"wait", "copy"} : body' = [body EXCEPT !.pc = pc]
      BY <1>6 DEF EnableEnd, ScanCall, ScanCancel, ScanCopy, ConnectCall, ConnectEnd,
             DisconnectCall, DisconnectEnd, WriteEnd, Done, Goto
    <2>3. UNCHANGED <<cb, ops, att, gattc, tainted>>
      BY <1>6 DEF EnableEnd, ScanCall, ScanCancel, ScanCopy, ConnectCall, ConnectEnd,
             DisconnectCall, DisconnectEnd, WriteEnd, stack, adapter
    <2>4. BodyType' /\ body'.op # "read"
      <3>1. CASE body' = Idle
        BY <3>1 DEF BodyType, Idle, Bodies, Places
      <3>2. ASSUME NEW pc \in {"wait", "copy"}, body' = [body EXCEPT !.pc = pc]
            PROVE  BodyType' /\ body'.op # "read"
        BY <2>1, <3>2 DEF GattInv, GattType, BodyType, Places
      <3> QED
        BY <2>2, <3>1, <3>2
    <2> QED
      BY <2>1, <2>3, <2>4, GattOtherBody DEF GattInv, GattType
  <1>7. CASE ReadClaim \/ ReadRetire \/ ReadEnd
    BY <1>7, GattClaimInv, GattRetireInv, GattReadEndInv
  <1>8. CASE ReadCall \/ WriteCall \/ ReadWait \/ WriteWait
    BY <1>8, GattCallInv, GattWaitInv DEF ReadCall, WriteCall, ReadWait, WriteWait
  <1>9. CASE DiscFill \/ DiscComplete \/ \E a \in Advertisers : DiscReport(a)
    <2>1. UNCHANGED <<body, ops, att, gattc>> /\ (tainted' = tainted \/ tainted' = TRUE)
      BY <1>9 DEF DiscFill, DiscComplete, DiscReport, stack, adapter
    <2>2. cb' = cb \/ (CbType' /\ cb'.pc \in {"none", "fill"})
      <3>1. CASE DiscFill \/ DiscComplete
        <4>1. cb' = cb \/ cb' = NoCb
          BY <3>1 DEF DiscFill, DiscComplete
        <4>2. NoCb \in [pc : {"none", "fill", "set", "signal"}, kind : Kinds, id : Nat,
                        ok : BOOLEAN, caught : BOOLEAN] /\ NoCb.pc = "none"
          BY DEF NoCb, Kinds
        <4> QED
          BY <4>1, <4>2 DEF CbType
      <3>2. ASSUME NEW a \in Advertisers, DiscReport(a) PROVE CbType' /\ cb'.pc = "fill"
        <4>1. cb' = [pc |-> "fill", kind |-> a, id |-> Len(s_scan_cache) + 1, ok |-> FALSE,
                     caught |-> FALSE]
          BY <3>2 DEF DiscReport, NoCb
        <4>2. Len(s_scan_cache) + 1 \in Nat
          BY DEF CacheType
        <4> QED
          BY <4>1, <4>2 DEF CbType, Kinds
      <3> QED
        BY <1>9, <3>1, <3>2
    <2>3. CbType'
      BY <2>2 DEF GattInv, GattType, CbType
    <2>4. tainted' \in BOOLEAN /\ (tainted => tainted')
      BY <2>1 DEF GattInv, GattType
    <2> QED
      BY <2>1, <2>2, <2>3, <2>4, GattOtherCallback
  <1>10. CASE GattResponse \/ GattSet \/ GattSignal
    BY <1>10, GattResponseInv, GattSetInv, GattSignalInv
  <1> QED
    BY <1>1, <1>2, <1>3, <1>4, <1>5, <1>6, <1>7, <1>8, <1>9, <1>10 DEF Next, BodyStart, BodyStep,
       HostTask

(* A GATT read that reports success hands over its own value, unless a     *)
(* callback whose wait had ended acted during it                           *)
(* (cc3501e_nimble_host.c:854-863, 915-938).                               *)
THEOREM ReadOwn == Spec => ReadReturnsOwn
  <1>1. Init => GattInv /\ SyncType /\ CacheType
    BY GattInitInv DEF Init, SyncType, CacheType
  <1>2. GattInv /\ SyncType /\ CacheType /\ [Next]_vars => (GattInv /\ SyncType /\ CacheType)'
    BY GattNextInv, SyncNext, CacheNext DEF GattInv, GattType
  <1>3. GattInv =>
          [(ReadEnd /\ body.waited /\ gattc.status = "ok")
              => (gattc.len = 1 /\ gattc.bounce = ops) \/ tainted]_vars
    BY DEF GattInv, OwnValue, ReadEnd, At
  <1> QED
    BY <1>1, <1>2, <1>3, PTL DEF Spec, ReadReturnsOwn

-------------------------------------------------------------------------------
(* Scanning. *)

(* A discovery runs only while its scan waits or has just been woken. *)
DiscoveryInv == disc => body.op = "scan" /\ body.pc \in {"wait", "woken"}

(* A signal a scan can see is that of its own discovery, or a late one. *)
SignalInv ==
    /\ body.op = "scan" /\ body.pc = "call" /\ sync["scan"] => tainted
    /\ body.op = "scan" /\ body.pc = "wait" /\ sync["scan"] => ~disc \/ tainted

(* Every record but the one being filled in is of an advertiser heard, and *)
(* each is there once; what is being filled in is the last one claimed.    *)
CacheInv ==
    /\ \A i, j \in 1 .. Len(s_scan_cache) : s_scan_cache[i] = s_scan_cache[j] => i = j
    /\ \A i \in 1 .. Len(s_scan_cache) :
          /\ s_scan_cache[i] \in heard \cup {Torn}
          /\ s_scan_cache[i] = Torn => cb.pc = "fill" /\ cb.id = i
    /\ cb.pc = "fill" => cb.id > 0
    /\ cb.pc = "fill" /\ cb.id <= Len(s_scan_cache) =>
          /\ cb.kind \in heard
          /\ \A i \in 1 .. Len(s_scan_cache) : s_scan_cache[i] # cb.kind

(* A step of the scan or of the discovery, and no other, moves the two. *)
LEMMA DiscoveryNext == DiscoveryInv /\ BodyType /\ [Next]_vars => DiscoveryInv'
  <1> SUFFICES ASSUME DiscoveryInv, BodyType, [Next]_vars PROVE DiscoveryInv'
    OBVIOUS
  <1> USE DEF DiscoveryInv
  <1>1. CASE BodyStart
    <2>1. body = Idle
      BY <1>1 DEF BodyStart, EnableStart, cc3501e_nimble_adv_config_and_start,
             cc3501e_nimble_adv_stop, cc3501e_nimble_host_disable, cc3501e_nimble_scan_stop,
             ScanPrep, ConnectPrep, DisconnectPrep, cc3501e_nimble_gatt_register, ReadPrep,
             WritePrep, GattPrep, Begin, Ready
    <2>2. disc' = disc \/ disc' = FALSE
      BY <1>1 DEF BodyStart, EnableStart, cc3501e_nimble_adv_config_and_start,
             cc3501e_nimble_adv_stop, cc3501e_nimble_host_disable, cc3501e_nimble_scan_stop,
             ScanPrep, ConnectPrep, DisconnectPrep, cc3501e_nimble_gatt_register, ReadPrep,
             WritePrep, GattPrep, CancelDiscovery, stack
    <2> QED
      BY <2>1, <2>2 DEF Idle
  <1>2. CASE ScanCall
    BY <1>2 DEF ScanCall, At, Goto, Done, BodyType
  <1>3. CASE ScanWait
    BY <1>3 DEF ScanWait, cc3501e_wait_signaled, At, stack
  <1>4. CASE ScanCancel
    BY <1>4 DEF ScanCancel, CancelDiscovery
  <1>5. CASE EnableWait \/ EnableEnd \/ ScanCopy \/ ConnectCall \/ ConnectWait \/ ConnectEnd
             \/ DisconnectCall \/ DisconnectWait \/ DisconnectEnd
    BY <1>5 DEF EnableWait, EnableEnd, ScanCopy, ConnectCall, ConnectWait, ConnectEnd,
           DisconnectCall, DisconnectWait, DisconnectEnd, cc3501e_wait_signaled, At, stack
  <1>6. CASE ReadClaim \/ ReadCall \/ ReadWait \/ ReadRetire \/ ReadEnd \/ WriteCall \/ WriteWait
             \/ WriteEnd
    BY <1>6 DEF ReadClaim, ReadCall, ReadWait, ReadRetire, ReadEnd, WriteCall, WriteWait,
           WriteEnd, GattCall, GattWait, cc3501e_wait_signaled, gattUnchanged, At, stack
  <1>7. CASE HostTask \/ UNCHANGED vars
    BY <1>7 DEF HostTask, cc3501e_ble_sync_cb, DiscReport, DiscFill, DiscComplete, ConnectEvent,
           PeerConnects, DisconnectEvent, GattResponse, GattSet, GattSignal, gattUnchanged, vars,
           stack
  <1> QED
    BY <1>1, <1>2, <1>3, <1>4, <1>5, <1>6, <1>7 DEF Next, BodyStep

(* The scan's sync object is cleared before its discovery begins, and only *)
(* a completion sets it.                                                   *)
LEMMA SignalNext ==
    SignalInv /\ DiscoveryInv /\ BodyType /\ SyncType /\ [Next]_vars => SignalInv'
  <1> SUFFICES ASSUME SignalInv, DiscoveryInv, BodyType, SyncType, [Next]_vars PROVE SignalInv'
    OBVIOUS
  <1>1. ASSUME NEW s \in Syncs \ {"scan"}, Clear(s) \/ Signal(s) PROVE sync'["scan"] = sync["scan"]
    BY <1>1 DEF Clear, Signal, SyncType, Syncs
  <1>2. CASE EnableStart \/ ConnectPrep \/ DisconnectPrep \/ ReadPrep \/ WritePrep
    <2>1. body = Idle /\ (body' = body \/ body'.op # "scan")
      BY <1>2 DEF EnableStart, ConnectPrep, DisconnectPrep, ReadPrep, WritePrep, GattPrep, Begin,
             Ready
    <2> QED
      BY <2>1 DEF SignalInv, Idle
  <1>3. CASE cc3501e_nimble_adv_config_and_start \/ cc3501e_nimble_adv_stop
             \/ cc3501e_nimble_host_disable \/ cc3501e_nimble_scan_stop
             \/ cc3501e_nimble_gatt_register
    <2>1. body' = Idle
      BY <1>3 DEF cc3501e_nimble_adv_config_and_start, cc3501e_nimble_adv_stop,
             cc3501e_nimble_host_disable, cc3501e_nimble_scan_stop, cc3501e_nimble_gatt_register,
             Ready
    <2> QED
      BY <2>1 DEF SignalInv, Idle
  <1>4. CASE ScanPrep
    <2>1. sync'["scan"] = FALSE
      BY <1>4 DEF ScanPrep, Clear, SyncType, Syncs
    <2> QED
      BY <2>1 DEF SignalInv
  <1>5. CASE ScanCall
    BY <1>5 DEF ScanCall, At, Goto, Done, Idle, SignalInv
  <1>6. CASE ScanWait \/ ScanCancel \/ ScanCopy
    <2>1. CASE ScanWait
      <3>1. body'.pc = "woken"
        BY <2>1 DEF ScanWait, cc3501e_wait_signaled, BodyType
      <3> QED
        BY <3>1 DEF SignalInv
    <2>2. CASE ScanCancel \/ ScanCopy
      <3>1. body'.pc \in {"copy", "none"}
        BY <2>2 DEF ScanCancel, ScanCopy, Goto, Done, Idle, BodyType
      <3> QED
        BY <3>1 DEF SignalInv
    <2> QED
      BY <1>6, <2>1, <2>2
  <1>7. CASE EnableWait \/ EnableEnd \/ ConnectCall \/ ConnectWait \/ ConnectEnd
             \/ DisconnectCall \/ DisconnectWait \/ DisconnectEnd \/ ReadClaim \/ ReadCall
             \/ ReadWait \/ ReadRetire \/ ReadEnd \/ WriteCall \/ WriteWait \/ WriteEnd
    <2>1. body.op # "scan"
      BY <1>7 DEF EnableWait, EnableEnd, ConnectCall, ConnectWait, ConnectEnd, DisconnectCall,
             DisconnectWait, DisconnectEnd, ReadClaim, ReadCall, ReadWait, ReadRetire, ReadEnd,
             WriteCall, WriteWait, WriteEnd, GattCall, GattWait, cc3501e_wait_signaled, At
    <2>2. body' = Idle \/ body'.op = body.op
      BY <1>7 DEF EnableWait, EnableEnd, ConnectCall, ConnectWait, ConnectEnd, DisconnectCall,
             DisconnectWait, DisconnectEnd, ReadClaim, ReadCall, ReadWait, ReadRetire, ReadEnd,
             WriteCall, WriteWait, WriteEnd, GattCall, GattWait, cc3501e_wait_signaled, Goto,
             Done, BodyType
    <2> QED
      BY <2>1, <2>2 DEF SignalInv, Idle
  <1>8. CASE DiscComplete
    BY <1>8 DEF DiscComplete, SignalInv, DiscoveryInv
  <1>9. CASE cc3501e_ble_sync_cb \/ ConnectEvent \/ DisconnectEvent
    <2>1. sync'["scan"] = sync["scan"] /\ UNCHANGED <<body, disc, tainted>>
      BY <1>1, <1>9 DEF cc3501e_ble_sync_cb, ConnectEvent, DisconnectEvent, Syncs
    <2> QED
      BY <2>1 DEF SignalInv
  <1>10. CASE GattSignal
    <2>1. sync'["scan"] = sync["scan"] /\ UNCHANGED <<body, disc>> /\ (tainted => tainted')
      BY <1>1, <1>10 DEF GattSignal, gattUnchanged, Syncs
    <2> QED
      BY <2>1 DEF SignalInv
  <1>11. CASE PeerConnects \/ DiscFill \/ GattResponse \/ GattSet \/ UNCHANGED vars
              \/ \E a \in Advertisers : DiscReport(a)
    <2>1. UNCHANGED <<sync, body, disc>>
      BY <1>11 DEF PeerConnects, DiscFill, GattResponse, GattSet, DiscReport, gattUnchanged, vars,
             stack
    <2>2. tainted' = tainted \/ tainted' = (tainted \/ Late)
      BY <1>11 DEF PeerConnects, DiscFill, GattResponse, GattSet, DiscReport, vars
    <2>3. tainted => tainted'
      BY <2>2
    <2> QED
      BY <2>1, <2>3 DEF SignalInv
  <1> QED
    BY <1>2, <1>3, <1>4, <1>5, <1>6, <1>7, <1>8, <1>9, <1>10, <1>11 DEF Next, BodyStart, BodyStep,
       HostTask

(* A step that touches neither the cache nor a fill keeps the records. *)
LEMMA CacheKept ==
    ASSUME CacheInv, UNCHANGED <<s_scan_cache, heard>>,
           \/ cb'.pc = cb.pc /\ cb'.id = cb.id /\ cb'.kind = cb.kind
           \/ cb.pc # "fill" /\ cb'.pc # "fill"
    PROVE  CacheInv'
  BY DEF CacheInv

(* A report claims a record that is nobody else's. *)
LEMMA CacheReport ==
    ASSUME CacheInv, CacheType, NEW a \in Advertisers, DiscReport(a)
    PROVE  CacheInv'
  <1> DEFINE n == Len(s_scan_cache)
  <1>1. /\ cb = NoCb /\ s_scan_cache' = Append(s_scan_cache, Torn) /\ heard' = heard \cup {a}
        /\ cb'.pc = "fill" /\ cb'.kind = a /\ cb'.id = n + 1
    BY DEF DiscReport, NoCb
  <1>2. \A i \in 1 .. n : s_scan_cache[i] # a /\ s_scan_cache[i] # Torn
    BY <1>1 DEF DiscReport, ToSet, CacheInv, CacheType, NoCb
  <1>3. /\ n \in Nat /\ Len(s_scan_cache') = n + 1 /\ s_scan_cache'[n + 1] = Torn
        /\ \A i \in 1 .. n : s_scan_cache'[i] = s_scan_cache[i]
    BY <1>1 DEF CacheType
  <1>4. a # Torn
    BY BleBounds DEF Torn
  <1> HIDE DEF n
  <1>5. \A i, j \in 1 .. n + 1 : s_scan_cache'[i] = s_scan_cache'[j] => i = j
    BY <1>2, <1>3 DEF CacheInv, n
  <1>6. \A i \in 1 .. n + 1 : /\ s_scan_cache'[i] \in heard' \cup {Torn}
                              /\ s_scan_cache'[i] = Torn => i = n + 1
                              /\ s_scan_cache'[i] # a
    BY <1>1, <1>2, <1>3, <1>4 DEF CacheInv, n
  <1> QED
    BY <1>1, <1>3, <1>5, <1>6 DEF CacheInv

(* The fill completes that record. *)
LEMMA CacheFill ==
    ASSUME CacheInv, CacheType, CbType, DiscFill
    PROVE  CacheInv'
  <1>1. cb.pc = "fill" /\ cb'.pc = "none" /\ heard' = heard /\ cb.id \in Nat
    BY DEF DiscFill, NoCb, CbType
  <1>2. Len(s_scan_cache) \in Nat
    BY DEF CacheType
  <1>3. CASE cb.id <= Len(s_scan_cache)
    <2>1. s_scan_cache' = [s_scan_cache EXCEPT ![cb.id] = cb.kind]
      BY <1>3 DEF DiscFill
    <2>2. cb.id \in 1 .. Len(s_scan_cache)
      BY <1>1, <1>2, <1>3 DEF CacheInv
    <2>3. /\ Len(s_scan_cache') = Len(s_scan_cache)
          /\ \A i \in 1 .. Len(s_scan_cache) :
                s_scan_cache'[i] = IF i = cb.id THEN cb.kind ELSE s_scan_cache[i]
      BY <2>1, <2>2 DEF CacheType
    <2>4. cb.kind # Torn
      BY BleBounds DEF CbType, Kinds, Torn
    <2> QED
      BY <1>1, <1>3, <2>2, <2>3, <2>4 DEF CacheInv
  <1>4. CASE ~(cb.id <= Len(s_scan_cache))
    <2>1. s_scan_cache' = s_scan_cache
      BY <1>4 DEF DiscFill
    <2>2. \A i \in 1 .. Len(s_scan_cache) : s_scan_cache[i] # Torn
      BY <1>1, <1>2, <1>4 DEF CacheInv
    <2> QED
      BY <1>1, <2>1, <2>2 DEF CacheInv
  <1> QED
    BY <1>3, <1>4

(* Every step preserves the records. *)
LEMMA CacheInvNext == CacheInv /\ CacheType /\ CbType /\ [Next]_vars => CacheInv'
  <1> SUFFICES ASSUME CacheInv, CacheType, CbType, [Next]_vars PROVE CacheInv'
    OBVIOUS
  <1>1. CASE ScanPrep
    <2>1. s_scan_cache' = << >> /\ cb' = cb
      BY <1>1 DEF ScanPrep
    <2>2. 1 .. Len(s_scan_cache') = {} /\ Len(s_scan_cache') = 0
      BY <2>1
    <2>3. cb.pc = "fill" => cb.id \in Nat /\ cb.id > 0
      BY DEF CacheInv, CbType
    <2> QED
      BY <2>1, <2>2, <2>3 DEF CacheInv
  <1>2. CASE BodyStart /\ ~ScanPrep
    BY <1>2, CacheKept DEF BodyStart, EnableStart, cc3501e_nimble_adv_config_and_start,
           cc3501e_nimble_adv_stop, cc3501e_nimble_host_disable, cc3501e_nimble_scan_stop,
           ConnectPrep, DisconnectPrep, cc3501e_nimble_gatt_register, ReadPrep,
           WritePrep, GattPrep, adapter
  <1>3. CASE ReadRetire
    <2>1. cb'.pc = cb.pc /\ cb'.id = cb.id /\ cb'.kind = cb.kind
      BY <1>3 DEF ReadRetire, CbType
    <2> QED
      BY <1>3, <2>1, CacheKept DEF ReadRetire, gattUnchanged
  <1>4. CASE BodyStep /\ ~ReadRetire
    BY <1>4, CacheKept DEF BodyStep, EnableWait, EnableEnd, ScanCall, ScanWait, ScanCancel,
           ScanCopy, ConnectCall, ConnectWait, ConnectEnd, DisconnectCall, DisconnectWait,
           DisconnectEnd, ReadClaim, ReadCall, ReadWait, ReadEnd, WriteCall, WriteWait, WriteEnd,
           GattCall, GattWait, gattUnchanged, adapter
  <1>5. CASE DiscFill \/ \E a \in Advertisers : DiscReport(a)
    BY <1>5, CacheFill, CacheReport
  <1>6. CASE GattResponse \/ GattSet \/ GattSignal
    <2>1. cb.pc # "fill" /\ cb'.pc # "fill"
      <3>1. CASE GattResponse
        BY <3>1 DEF GattResponse, NoCb
      <3>2. CASE GattSet \/ GattSignal
        BY <3>2 DEF GattSet, GattSignal, NoCb, CbType
      <3> QED
        BY <1>6, <3>1, <3>2
    <2> QED
      BY <1>6, <2>1, CacheKept DEF GattResponse, GattSet, GattSignal, gattUnchanged
  <1>7. CASE cc3501e_ble_sync_cb \/ DiscComplete \/ ConnectEvent \/ PeerConnects
             \/ DisconnectEvent \/ UNCHANGED vars
    BY <1>7, CacheKept DEF cc3501e_ble_sync_cb, DiscComplete, ConnectEvent, PeerConnects,
           DisconnectEvent, vars, adapter
  <1> QED
    BY <1>1, <1>2, <1>3, <1>4, <1>5, <1>6, <1>7 DEF Next, HostTask

(* A signalled scan ran until its discovery ended, unless a late completion *)
(* came, and it reports each advertiser heard once, with at most the record *)
(* being written unfinished (cc3501e_nimble_host.c:672-719).               *)
THEOREM ScanIsHonest == Spec => ScanHonest
  <1> DEFINE Types == GattInv /\ SyncType /\ CacheType
             ScanInv == DiscoveryInv /\ SignalInv /\ CacheInv
  <1>1. Init => Types /\ ScanInv
    BY GattInitInv DEF Init, SyncType, Syncs, CacheType, DiscoveryInv, SignalInv, CacheInv, Idle,
       NoCb
  <1>2. Types /\ ScanInv /\ [Next]_vars => (Types /\ ScanInv)'
    BY GattNextInv, SyncNext, CacheNext, DiscoveryNext, SignalNext, CacheInvNext
       DEF GattInv, GattType
  <1>3. Types /\ ScanInv =>
          [/\ (ScanWait /\ body'.waited) => ~disc \/ tainted
           /\ ScanCopy => /\ IsInjective(s_scan_cache)
                          /\ ToSet(s_scan_cache) \subseteq heard \cup {Torn}
                          /\ Torn \in ToSet(s_scan_cache) => cb.pc = "fill"]_vars
    <2> SUFFICES ASSUME Types, ScanInv
                 PROVE  /\ (ScanWait /\ body'.waited) => ~disc \/ tainted
                        /\ IsInjective(s_scan_cache)
                        /\ ToSet(s_scan_cache) \subseteq heard \cup {Torn}
                        /\ Torn \in ToSet(s_scan_cache) => cb.pc = "fill"
      OBVIOUS
    <2>1. ScanWait /\ body'.waited => ~disc \/ tainted
      BY DEF ScanWait, cc3501e_wait_signaled, At, SignalInv, GattInv, GattType, BodyType
    <2>2. DOMAIN s_scan_cache = 1 .. Len(s_scan_cache)
      BY DEF CacheType
    <2>3. IsInjective(s_scan_cache)
      BY <2>2 DEF IsInjective, CacheInv
    <2>4. ToSet(s_scan_cache) \subseteq heard \cup {Torn}
      BY <2>2 DEF ToSet, CacheInv
    <2>5. Torn \in ToSet(s_scan_cache) => cb.pc = "fill"
      BY <2>2 DEF ToSet, CacheInv
    <2> QED
      BY <2>1, <2>3, <2>4, <2>5
  <1> QED
    BY <1>1, <1>2, <1>3, PTL DEF Spec, ScanHonest
===============================================================================
