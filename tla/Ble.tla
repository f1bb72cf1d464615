---------------------------------- MODULE Ble ---------------------------------
(***************************************************************************)
(* The BLE bodies (src/hal/ti/cc3501e_hw_ti_ble.c) and the NimBLE adapter  *)
(* under them (src/hal/ti/cc3501e_nimble_host.c).                          *)
(*                                                                         *)
(* Two threads share the adapter's statics.                                *)
(*   worker     runs one body at a time.  A blocking body prepares its     *)
(*              sync object, calls the stack, waits a bounded time for the *)
(*              signal and looks at what the callback left; each of these  *)
(*              is a step, and a callback may come between any two.        *)
(*   host task  NimBLE's own: it delivers the GAP and GATT events, one     *)
(*              callback at a time.                                        *)
(*                                                                         *)
(* The stack (external) is what the adapter relies on: a call is refused   *)
(* or accepted, an accepted one is followed by its event at any later time,*)
(* also after the waiter has gone, and there is at most one connection (the*)
(* adapter's own premise, cc3501e_nimble_host.c:84-88).                    *)
(*                                                                         *)
(* What the bodies do to the SPI link around these steps is in SpiLink.  A *)
(* body that only reads the state and refuses (not enabled, no peer, a     *)
(* link already there) changes nothing and is not an action.               *)
(***************************************************************************)
EXTENDS Naturals, Sequences, SequencesExt

CONSTANTS Advertisers,   \* who may be heard in a scan
          CacheMax,      \* CC3501E_BLE_SCAN_CACHE_MAX (24 in the code)
          MaxGatt,       \* GATT client operations of a behaviour
          Workloads      \* the sets of opcodes a host may use in a behaviour

Opcodes == {"adv_start", "adv_stop", "disable", "scan", "scan_stop", "connect", "disconnect",
            "register", "read", "write"}

ASSUME BleBounds ==
    /\ CacheMax \in Nat \ {0} /\ MaxGatt \in Nat
    /\ Workloads \subseteq SUBSET Opcodes
    /\ "torn" \notin Advertisers

Syncs == {"init", "scan", "conn", "disc", "gattc"}

VARIABLES
    workload,  \* the opcodes the host uses, besides BLE_ENABLE: never changes
    host,      \* the stack: off, starting (task created, not synced), up
    adv,       \* the stack: the advertising set is active
    disc,      \* the stack: discovery is running
    discLate,  \* the stack: the DISC_COMPLETE of a cancelled discovery is queued
    attempt,   \* the stack: our central connect: none, open, cancelled
    link,      \* the stack: the connection: none, up, ending (terminate sent)
    att,       \* the stack: GATT procedures without a response yet
    server,    \* the stack: the services it serves
    cb,        \* the host task's callback in progress
    sync,      \* the OSI sync objects, binary
    s_conn_handle,  \* whether it names a connection
    s_conn_status,  \* outcome in the last CONNECT event: none, ok, failed
    s_scan_cache,   \* the advertisers' records, s_scan_count of them
    gattc,     \* s_gattc_*: op status, read length and bounce buffer, pending, generation
    s_dyn_svc_registered,
    body,      \* the worker: the body it runs, where, and whether its wait was signalled
    ops,       \* ghost: GATT client operations so far; numbers them
    heard,     \* ghost: advertisers reported since this scan began
    orphaned,  \* ghost: the adapter let go of a connection that is still there
    tainted    \* ghost: a callback whose own wait had ended acted in this operation

stack == <<host, adv, disc, discLate, attempt, link, att, server>>
adapter == <<s_conn_handle, s_conn_status, s_scan_cache, gattc, s_dyn_svc_registered>>
vars == <<workload, stack, cb, sync, adapter, body, ops, heard, orphaned, tainted>>

Idle == [op |-> "none", pc |-> "none", waited |-> FALSE]
NoCb == [pc |-> "none", kind |-> "none", id |-> 0, ok |-> FALSE, caught |-> FALSE]
Torn == "torn"      \* a record claimed but not filled in

Init ==
    /\ workload \in Workloads
    /\ host = "off" /\ adv = FALSE /\ disc = FALSE /\ discLate = FALSE
    /\ attempt = "none" /\ link = "none" /\ att = {} /\ server = {}
    /\ cb = NoCb
    /\ sync = [s \in Syncs |-> FALSE]
    /\ s_conn_handle = FALSE /\ s_conn_status = "none"
    /\ s_scan_cache = << >>
    /\ gattc = [status |-> "none", len |-> 0, bounce |-> 0, pending |-> FALSE, gen |-> 0]
    /\ s_dyn_svc_registered = FALSE
    /\ body = Idle
    /\ ops = 0 /\ heard = {} /\ orphaned = FALSE /\ tainted = FALSE

-------------------------------------------------------------------------------
(* The shape every blocking body shares. *)

At(op, pc) == body.op = op /\ body.pc = pc
Goto(pc) == body' = [body EXCEPT !.pc = pc]
Done == body' = Idle

(* A body that works on the stack starts only when the stack is up. *)
Ready(op) == body = Idle /\ host = "up" /\ op \in workload

Begin(op, pc) ==
    /\ Ready(op)
    /\ body' = [op |-> op, pc |-> pc, waited |-> FALSE]

Clear(s) == sync' = [sync EXCEPT ![s] = FALSE]
Signal(s) == sync' = [sync EXCEPT ![s] = TRUE]

(* Variant for mutation: the wait is unbounded. *)
WaitForever(op, s) ==
    /\ At(op, "wait")
    /\ sync[s]
    /\ body' = [body EXCEPT !.pc = "woken", !.waited = TRUE]
    /\ Clear(s)

(* cc3501e_wait_signaled: the signal is taken, or the time runs out. *)
cc3501e_wait_signaled(op, s) ==
    /\ At(op, "wait")
    /\ body' = [body EXCEPT !.pc = "woken", !.waited = sync[s]]
    /\ Clear(s)

-------------------------------------------------------------------------------
(* BLE_ENABLE: nothing to do when the host is up.  The controller may      *)
(* refuse all eight enables, and each later set-up call may fail: no other *)
(* body sees what a failed set-up leaves while the host is down.           *)

EnableStart ==
    /\ body = Idle /\ host # "up"
    /\ \/ UNCHANGED <<body, host, server, sync>>
       \/ /\ body' = [op |-> "enable", pc |-> "wait", waited |-> FALSE]
          /\ host' = "starting"
          /\ server' = {"demo"}
          /\ Clear("init")
    /\ UNCHANGED <<workload, adv, disc, discLate, attempt, link, att, cb, adapter, ops, heard,
                   orphaned, tainted>>

EnableWait ==
    /\ cc3501e_wait_signaled("enable", "init")
    /\ UNCHANGED <<workload, stack, cb, adapter, ops, heard, orphaned, tainted>>

EnableEnd ==
    /\ At("enable", "woken")
    /\ Done
    /\ UNCHANGED <<workload, stack, cb, sync, adapter, ops, heard, orphaned, tainted>>

(* cc3501e_ble_sync_cb, also after the waiter has timed out. *)
cc3501e_ble_sync_cb ==
    /\ host = "starting" /\ cb = NoCb
    /\ host' = "up"
    /\ Signal("init")
    /\ UNCHANGED <<workload, adv, disc, discLate, attempt, link, att, server, cb, adapter,
                   body, ops, heard, orphaned, tainted>>

-------------------------------------------------------------------------------
(* Advertising, and the teardown of BLE_DISABLE. *)

(* The old set is removed, configured and started; a call that fails       *)
(* leaves the set as it was before it.                                     *)
cc3501e_nimble_adv_config_and_start ==
    /\ Ready("adv_start")
    /\ adv' \in BOOLEAN
    /\ UNCHANGED <<workload, host, disc, discLate, attempt, link, att, server, cb, sync,
                   adapter, body, ops, heard, orphaned, tainted>>

cc3501e_nimble_adv_stop ==
    /\ Ready("adv_stop")
    /\ adv' \in {adv, FALSE}
    /\ UNCHANGED <<workload, host, disc, discLate, attempt, link, att, server, cb, sync,
                   adapter, body, ops, heard, orphaned, tainted>>

(* ble_gap_disc_cancel: a running discovery ends, its completion is queued.*)
CancelDiscovery ==
    /\ disc' = FALSE
    /\ discLate' = (discLate \/ disc)

cc3501e_nimble_host_disable ==
    /\ Ready("disable")
    /\ adv' \in {adv, FALSE}
    /\ CancelDiscovery
    /\ UNCHANGED <<workload, host, attempt, link, att, server, cb, sync, adapter, body, ops,
                   heard, orphaned, tainted>>

cc3501e_nimble_scan_stop ==
    /\ Ready("scan_stop")
    /\ CancelDiscovery
    /\ UNCHANGED <<workload, host, adv, attempt, link, att, server, cb, sync, adapter, body,
                   ops, heard, orphaned, tainted>>

-------------------------------------------------------------------------------
(* BLE_SCAN_START. *)

(* Variant for mutation: a signal left by the previous scan is kept. *)
ScanPrepKeepsSignal ==
    /\ Begin("scan", "call")
    /\ s_scan_cache' = << >>
    /\ heard' = {} /\ tainted' = FALSE
    /\ UNCHANGED <<workload, stack, cb, sync, s_conn_handle, s_conn_status, gattc,
                   s_dyn_svc_registered, ops, orphaned>>

ScanPrep ==
    /\ Begin("scan", "call")
    /\ s_scan_cache' = << >>
    /\ Clear("scan")
    /\ heard' = {} /\ tainted' = FALSE
    /\ UNCHANGED <<workload, stack, cb, s_conn_handle, s_conn_status, gattc,
                   s_dyn_svc_registered, ops, orphaned>>

ScanCall ==
    /\ At("scan", "call")
    /\ \/ Done /\ disc' = disc
       \/ ~disc /\ disc' = TRUE /\ Goto("wait")
    /\ UNCHANGED <<workload, host, adv, discLate, attempt, link, att, server, cb, sync,
                   adapter, ops, heard, orphaned, tainted>>

ScanWait ==
    /\ cc3501e_wait_signaled("scan", "scan")
    /\ UNCHANGED <<workload, stack, cb, adapter, ops, heard, orphaned, tainted>>

ScanCancel ==
    /\ At("scan", "woken")
    /\ CancelDiscovery
    /\ Goto("copy")
    /\ UNCHANGED <<workload, host, adv, attempt, link, att, server, cb, sync, adapter, ops,
                   heard, orphaned, tainted>>

(* The first s_scan_count records are the answer. *)
ScanCopy ==
    /\ At("scan", "copy")
    /\ Done
    /\ UNCHANGED <<workload, stack, cb, sync, adapter, ops, heard, orphaned, tainted>>

(* A report of an advertiser not in the cache claims the next record by    *)
(* raising s_scan_count; a known one only refreshes its record, and a full *)
(* cache takes no new one.                                                 *)
DiscReport(a) ==
    /\ disc /\ cb = NoCb
    /\ a \notin ToSet(s_scan_cache)
    /\ Len(s_scan_cache) < CacheMax
    /\ s_scan_cache' = Append(s_scan_cache, Torn)
    /\ cb' = [NoCb EXCEPT !.pc = "fill", !.kind = a, !.id = Len(s_scan_cache) + 1]
    /\ heard' = heard \cup {a}
    /\ UNCHANGED <<workload, stack, sync, s_conn_handle, s_conn_status, gattc,
                   s_dyn_svc_registered, body, ops, orphaned, tainted>>

(* ...and fills it in; a record past s_scan_count is nobody's. *)
DiscFill ==
    /\ cb.pc = "fill"
    /\ s_scan_cache' = IF cb.id <= Len(s_scan_cache)
                       THEN [s_scan_cache EXCEPT ![cb.id] = cb.kind]
                       ELSE s_scan_cache
    /\ cb' = NoCb
    /\ UNCHANGED <<workload, stack, sync, s_conn_handle, s_conn_status, gattc,
                   s_dyn_svc_registered, body, ops, heard, orphaned, tainted>>

(* DISC_COMPLETE at the end of the window, or the queued one of a          *)
(* discovery that was cancelled.                                           *)
DiscComplete ==
    /\ cb = NoCb
    /\ \/ disc /\ disc' = FALSE /\ UNCHANGED <<discLate, tainted>>
       \/ discLate /\ discLate' = FALSE /\ disc' = disc /\ tainted' = TRUE
    /\ Signal("scan")
    /\ UNCHANGED <<workload, host, adv, attempt, link, att, server, cb, adapter, body, ops,
                   heard, orphaned>>

-------------------------------------------------------------------------------
(* BLE_CONNECT and BLE_DISCONNECT. *)

ConnectPrep ==
    /\ Begin("connect", "call")
    /\ ~s_conn_handle
    /\ s_conn_status' = "none"
    /\ Clear("conn")
    /\ UNCHANGED <<workload, stack, cb, s_conn_handle, s_scan_cache, gattc,
                   s_dyn_svc_registered, ops, heard, orphaned, tainted>>

ConnectCall ==
    /\ At("connect", "call")
    /\ \/ Done /\ attempt' = attempt
       \/ attempt = "none" /\ link = "none" /\ attempt' = "open" /\ Goto("wait")
    /\ UNCHANGED <<workload, host, adv, disc, discLate, link, att, server, cb, sync, adapter,
                   ops, heard, orphaned, tainted>>

ConnectWait ==
    /\ cc3501e_wait_signaled("connect", "conn")
    /\ UNCHANGED <<workload, stack, cb, adapter, ops, heard, orphaned, tainted>>

(* Timed out: cancel what is still open.  Otherwise s_conn_status and      *)
(* s_conn_handle give the answer.                                          *)
ConnectEnd ==
    /\ At("connect", "woken")
    /\ attempt' = IF ~body.waited /\ attempt = "open" THEN "cancelled" ELSE attempt
    /\ Done
    /\ UNCHANGED <<workload, host, adv, disc, discLate, link, att, server, cb, sync, adapter,
                   ops, heard, orphaned, tainted>>

(* cc3501e_conn_gap_event_cb, CONNECT: the attempt ended, also one that    *)
(* was cancelled too late.  A failed one clears the handle, whoever's.     *)
ConnectEvent ==
    /\ attempt # "none" /\ cb = NoCb
    /\ attempt' = "none"
    /\ \E ok \in {FALSE} \cup {link = "none"} :
          /\ link' = IF ok THEN "up" ELSE link
          /\ s_conn_status' = IF ok THEN "ok" ELSE "failed"
          /\ s_conn_handle' = ok
          /\ orphaned' = (orphaned \/ (~ok /\ link # "none"))
    /\ Signal("conn")
    /\ UNCHANGED <<workload, host, adv, disc, discLate, att, server, cb, s_scan_cache, gattc,
                   s_dyn_svc_registered, body, ops, heard, tainted>>

(* cc3501e_gap_event_cb, CONNECT: a central reached our advertiser, which  *)
(* ends the set; ADV_COMPLETE starts it again unless the stack refuses.    *)
PeerConnects ==
    /\ adv /\ link = "none" /\ cb = NoCb
    /\ link' = "up"
    /\ s_conn_handle' = TRUE
    /\ adv' \in BOOLEAN
    /\ UNCHANGED <<workload, host, disc, discLate, attempt, att, server, cb, sync,
                   s_conn_status, s_scan_cache, gattc, s_dyn_svc_registered, body, ops, heard,
                   orphaned, tainted>>

(* Variant for mutation: the handle outlives its connection. *)
DisconnectEventKeepsHandle ==
    /\ link # "none" /\ cb = NoCb
    /\ link' = "none"
    /\ orphaned' = FALSE
    /\ Signal("disc")
    /\ UNCHANGED <<workload, host, adv, disc, discLate, attempt, att, server, cb,
                   s_conn_handle, s_conn_status, s_scan_cache, gattc, s_dyn_svc_registered,
                   body, ops, heard, tainted>>

(* DISCONNECT, in either callback. *)
DisconnectEvent ==
    /\ link # "none" /\ cb = NoCb
    /\ link' = "none"
    /\ s_conn_handle' = FALSE
    /\ orphaned' = FALSE
    /\ Signal("disc")
    /\ UNCHANGED <<workload, host, adv, disc, discLate, attempt, att, server, cb,
                   s_conn_status, s_scan_cache, gattc, s_dyn_svc_registered, body, ops, heard,
                   tainted>>

DisconnectPrep ==
    /\ Begin("disconnect", "call")
    /\ s_conn_handle
    /\ Clear("disc")
    /\ UNCHANGED <<workload, stack, cb, adapter, ops, heard, orphaned, tainted>>

(* Any refusal is read as "already gone": the handle is cleared, also when *)
(* the stack refused because the connection is only on its way down.       *)
DisconnectCall ==
    /\ At("disconnect", "call")
    /\ \/ /\ link = "up" /\ link' = "ending"
          /\ Goto("wait")
          /\ UNCHANGED <<s_conn_handle, orphaned>>
       \/ /\ s_conn_handle' = FALSE
          /\ orphaned' = (link # "none")
          /\ Done /\ link' = link
    /\ UNCHANGED <<workload, host, adv, disc, discLate, attempt, att, server, cb, sync,
                   s_conn_status, s_scan_cache, gattc, s_dyn_svc_registered, ops, heard,
                   tainted>>

DisconnectWait ==
    /\ cc3501e_wait_signaled("disconnect", "disc")
    /\ UNCHANGED <<workload, stack, cb, adapter, ops, heard, orphaned, tainted>>

DisconnectEnd ==
    /\ At("disconnect", "woken")
    /\ Done
    /\ UNCHANGED <<workload, stack, cb, sync, adapter, ops, heard, orphaned, tainted>>

-------------------------------------------------------------------------------
(* BLE_GATT_REGISTER: once per boot.  The stack refuses to reset its table *)
(* while a connection, the advertiser or a discovery is active; after the  *)
(* reset each remaining call may fail, which leaves no service started.    *)
cc3501e_nimble_gatt_register ==
    /\ Ready("register")
    /\ ~s_dyn_svc_registered
    /\ link = "none" /\ ~adv /\ ~disc /\ attempt = "none"
    /\ \/ server' = {"demo", "dynamic"} /\ s_dyn_svc_registered' = TRUE
       \/ server' = {} /\ s_dyn_svc_registered' = FALSE
    /\ UNCHANGED <<workload, host, adv, disc, discLate, attempt, link, att, cb, sync,
                   s_conn_handle, s_conn_status, s_scan_cache, gattc, body, ops, heard,
                   orphaned, tainted>>

-------------------------------------------------------------------------------
(* BLE_GATT_READ and BLE_GATT_WRITE as a client of the connected peer.     *)
(* Operation number n reads the value n.                                   *)

(* Both clear the shared sync object and the shared status first. *)
GattPrep(op, next) ==
    /\ Begin(op, next)
    /\ s_conn_handle
    /\ ops < MaxGatt
    /\ ops' = ops + 1
    /\ Clear("gattc")
    /\ tainted' = FALSE
    /\ UNCHANGED <<workload, stack, cb, s_conn_handle, s_conn_status, s_scan_cache,
                   s_dyn_svc_registered, heard, orphaned>>

ReadPrep ==
    /\ GattPrep("read", "claim")
    /\ gattc' = [gattc EXCEPT !.status = "none", !.len = 0]

WritePrep ==
    /\ GattPrep("write", "call")
    /\ gattc' = [gattc EXCEPT !.status = "none"]

gattUnchanged == <<workload, host, adv, disc, discLate, attempt, link, server, s_conn_handle,
                   s_conn_status, s_scan_cache, s_dyn_svc_registered, ops, heard, orphaned>>

(* The read claims its generation in one critical section. *)
ReadClaim ==
    /\ At("read", "claim")
    /\ gattc' = [gattc EXCEPT !.gen = ops, !.pending = TRUE]
    /\ Goto("call")
    /\ UNCHANGED <<gattUnchanged, att, cb, sync, tainted>>

(* A connection is needed for the stack to accept. *)
GattCall(op) ==
    /\ At(op, "call")
    /\ \/ /\ Done
          /\ gattc' = IF op = "read" THEN [gattc EXCEPT !.pending = FALSE] ELSE gattc
          /\ att' = att
       \/ /\ link # "none"
          /\ att' = att \cup {[kind |-> op, id |-> ops]}
          /\ Goto("wait") /\ gattc' = gattc
    /\ UNCHANGED <<gattUnchanged, cb, sync, tainted>>

ReadCall == GattCall("read")
WriteCall == GattCall("write")

GattWait(op) ==
    /\ cc3501e_wait_signaled(op, "gattc")
    /\ UNCHANGED <<workload, stack, cb, adapter, ops, heard, orphaned, tainted>>

ReadWait == GattWait("read")
WriteWait == GattWait("write")

(* The read is retired in a critical section, answered or not.  A callback *)
(* that has passed its check is not stopped by it.                         *)
ReadRetire ==
    /\ At("read", "woken")
    /\ gattc' = [gattc EXCEPT !.pending = FALSE]
    /\ cb' = [cb EXCEPT !.caught = (cb.kind = "read")]
    /\ Goto("copy")
    /\ UNCHANGED <<gattUnchanged, att, sync, tainted>>

(* OK with the bounce buffer's gattc.len bytes when signalled with status  *)
(* 0, else an error.                                                       *)
ReadEnd ==
    /\ At("read", "copy")
    /\ Done
    /\ UNCHANGED <<workload, stack, cb, sync, adapter, ops, heard, orphaned, tainted>>

WriteEnd ==
    /\ At("write", "woken")
    /\ Done
    /\ UNCHANGED <<workload, stack, cb, sync, adapter, ops, heard, orphaned, tainted>>

(* Variant for mutation: any outstanding read takes any read's response. *)
MineAnyGeneration(p) == p.kind = "write" \/ gattc.pending

(* A read callback goes on only if its own read is outstanding; a write    *)
(* callback carries nothing to tell by.                                    *)
Mine(p) == p.kind = "write" \/ (gattc.pending /\ p.id = gattc.gen)

GattResponse ==
    /\ cb = NoCb
    /\ \E p \in att, ok \in BOOLEAN :
          /\ att' = att \ {p}
          /\ cb' = IF Mine(p)
                   THEN [NoCb EXCEPT !.pc = "set", !.kind = p.kind, !.id = p.id, !.ok = ok]
                   ELSE NoCb
    /\ UNCHANGED <<gattUnchanged, gattc, sync, body, tainted>>

(* The callback's own wait has ended. *)
Late == cb.caught \/ (cb.kind = "write" /\ (body.op # "write" \/ cb.id # ops))

GattSet ==
    /\ cb.pc = "set"
    /\ gattc' = [gattc EXCEPT
                   !.status = IF cb.ok THEN "ok" ELSE "failed",
                   !.bounce = IF cb.ok /\ cb.kind = "read" THEN cb.id ELSE @,
                   !.len    = IF cb.ok /\ cb.kind = "read" THEN 1 ELSE @]
    /\ cb' = [cb EXCEPT !.pc = "signal"]
    /\ tainted' = (tainted \/ Late)
    /\ UNCHANGED <<gattUnchanged, att, sync, body>>

GattSignal ==
    /\ cb.pc = "signal"
    /\ Signal("gattc")
    /\ cb' = NoCb
    /\ tainted' = (tainted \/ Late)
    /\ UNCHANGED <<gattUnchanged, att, gattc, body>>

-------------------------------------------------------------------------------

(* What a body in progress does next. *)
BodyStep ==
    \/ EnableWait \/ EnableEnd
    \/ ScanCall \/ ScanWait \/ ScanCancel \/ ScanCopy
    \/ ConnectCall \/ ConnectWait \/ ConnectEnd
    \/ DisconnectCall \/ DisconnectWait \/ DisconnectEnd
    \/ ReadClaim \/ ReadCall \/ ReadWait \/ ReadRetire \/ ReadEnd
    \/ WriteCall \/ WriteWait \/ WriteEnd

BodyStart ==
    \/ EnableStart
    \/ cc3501e_nimble_adv_config_and_start \/ cc3501e_nimble_adv_stop
    \/ cc3501e_nimble_host_disable \/ cc3501e_nimble_scan_stop
    \/ ScanPrep \/ ConnectPrep \/ DisconnectPrep
    \/ cc3501e_nimble_gatt_register
    \/ ReadPrep \/ WritePrep

HostTask ==
    \/ cc3501e_ble_sync_cb
    \/ \E a \in Advertisers : DiscReport(a)
    \/ DiscFill \/ DiscComplete
    \/ ConnectEvent \/ PeerConnects \/ DisconnectEvent
    \/ GattResponse \/ GattSet \/ GattSignal

Next == BodyStart \/ BodyStep \/ HostTask

(* The worker's task keeps running; the stack owes nothing. *)
Spec == Init /\ [][Next]_vars /\ WF_vars(BodyStep)

-------------------------------------------------------------------------------

(* A GATT read that reports success hands over the value of its own read,  *)
(* not an earlier read's late one (cc3501e_nimble_host.c:854-863 and       *)
(* 915-938, the generation) and not an empty one: unless, during it, a     *)
(* callback acted whose own wait had already ended, a write's completion   *)
(* (which carries no generation) or a read's that had passed its check     *)
(* before the read was retired.                                            *)
ReadReturnsOwn ==
    [][(ReadEnd /\ body.waited /\ gattc.status = "ok")
          => (gattc.len = 1 /\ gattc.bounce = ops) \/ tainted]_vars

(* s_conn_handle names a connection exactly when there is one, so GATT and *)
(* disconnect reach the peer and connect is not refused for ever           *)
(* (cc3501e_nimble_host.c:84-88): unless the adapter itself let go of a    *)
(* connection that is there, which a failed central attempt and a refused  *)
(* terminate do, and then only until that connection ends.                 *)
HandleMirrorsLink == orphaned \/ (s_conn_handle <=> link # "none")

(* A scan that was signalled ran until its discovery ended, unless the     *)
(* completion of a cancelled one came during it; and it reports every      *)
(* advertiser once, only ones heard since it began, with at most the one   *)
(* record the host task is writing at that moment unfinished               *)
(* (cc3501e_nimble_host.c:672-719).                                        *)
ScanHonest ==
    [][/\ (ScanWait /\ body'.waited) => ~disc \/ tainted
       /\ ScanCopy => /\ IsInjective(s_scan_cache)
                      /\ ToSet(s_scan_cache) \subseteq heard \cup {Torn}
                      /\ Torn \in ToSet(s_scan_cache) => cb.pc = "fill"]_vars

(* Every body ends, whatever the stack does or leaves undone, so the       *)
(* worker slot is freed: each wait is bounded                              *)
(* (cc3501e_nimble_host.c:180-188, 460-467, 697-702).                      *)
BodyEnds == body # Idle ~> body = Idle
===============================================================================
