--------------------------------- MODULE Wifi ---------------------------------
(***************************************************************************)
(* The Wi-Fi part of the HAL (hal/ti/cc3501e_hw_ti_wifi.c): the jobs the   *)
(* drain task runs, the vendor callback that preempts them, and what the   *)
(* drain makes of the flags a job leaves for it (worker_run_pending).      *)
(*                                                                         *)
(* Three actors.                                                           *)
(*   task      runs one job at a time, one step per blocking call or per   *)
(*             access to what it shares with the callback;                 *)
(*   callback  wifi_event_cb runs on a thread of higher priority: one      *)
(*             event is one step, between any two steps of the task;       *)
(*   NWP       the network processor and its driver (external, from how    *)
(*             the file uses them): it reports through a FIFO of events,   *)
(*             so an event may arrive in a later pass, job or attempt.     *)
(*                                                                         *)
(* A code is what an event carries: "temp" is status 30, "user" is 200,    *)
(* "leaveOwn" and "leaveAir" are both reason 3 -- the firmware cannot tell *)
(* them apart -- written by this firmware's own Wlan_Disconnect or not;    *)
(* "real" is any other code and "none" is 0.  torn says that a radio call  *)
(* has left the SPI slave deaf; a re-init cures it and a host frame is     *)
(* possible only without it.                                               *)
(***************************************************************************)
EXTENDS Naturals, Sequences

CONSTANTS Jobs,      \* the jobs the host may submit, a subset of AllJobs
          MaxJobs,   \* jobs submitted in all
          MaxQueue,  \* events the NWP sends ahead of the callback
          Wakes      \* seconds after which the first association wait may be woken

AllJobs == {"connect", "connect_bad", "disconnect", "scan", "ap_start", "ap_stop", "rssi"}

(* The association budget and what a retry spends of it, in seconds. *)
AssocWait == 30
DenylistDelay == 11
ComebackDelay == 1
DisconnectWait == 2
MinWait == 3

Overhead == DisconnectWait + DenylistDelay

ASSUME WifiAssumption ==
    /\ Jobs \subseteq AllJobs /\ Wakes \subseteq 0..AssocWait
    /\ MaxJobs \in Nat /\ MaxQueue \in Nat \ {0}

VARIABLES
    conn,    \* g_wifi_conn
    tag,     \* wifi_last_reason_tag: an event and its code, one word
    seen,    \* wifi_last_status (its sign) and wifi_event_sync
    radio,   \* wifi_started, wifi_sta_role_up, wifi_own_disconnect_issued
    ap,      \* wifi_ap_latch
    left,    \* the g_..._pending and _ok flags left for the drain
    task,    \* the job, its step, and its locals
    torn,    \* whether the SPI slave is deaf
    nwp      \* the NWP: station, events under way, deny list, deauthReason

vars == <<conn, tag, seen, radio, ap, left, task, torn, nwp>>

Leave == {"leaveOwn", "leaveAir"}
Codes == {"none", "temp", "user", "real"} \cup Leave
Events == {"SCAN", "CONNECT", "DISCONNECT", "ASSOC", "AUTH"}

NoTag == [ev |-> "NONE", code |-> "none"]
NoFlags == [reinit |-> FALSE, skip |-> FALSE, skipOk |-> FALSE, rssi |-> FALSE, rssiOk |-> FALSE]
Idle == [pc |-> "idle", job |-> "none", retried |-> FALSE, first |-> NoTag,
         fail |-> "NONE", code |-> "none", target |-> "none", clean |-> FALSE, quiet |-> FALSE,
         spent |-> 0]

Init ==
    /\ conn = [state |-> "DISCONNECTED", fail |-> "NONE", reason |-> "none"]
    /\ tag = NoTag
    /\ seen = [ok |-> TRUE, sync |-> FALSE]
    /\ radio = [started |-> FALSE, sta |-> FALSE, own |-> FALSE]
    /\ ap = [pending |-> FALSE, up |-> FALSE]
    /\ left = NoFlags
    /\ task = Idle
    /\ torn = FALSE
    /\ nwp = [sta |-> "idle", scan |-> FALSE, q |-> <<>>, leaving |-> FALSE, denied |-> FALSE,
              deauth |-> "none", ap |-> FALSE, joined |-> FALSE, jobs |-> 0]

-------------------------------------------------------------------------------
(* The NWP (external).  Every event goes through the FIFO. *)

Event(ev, code, ok) == [ev |-> ev, code |-> code, ok |-> ok]
Send(n, e) == [n EXCEPT !.q = Append(@, e)]

(* A deny-listed AP is not found, so nobody answers; otherwise the AP or   *)
(* the driver may answer in any of the ways the callback's comments list.  *)
(* A temporary association reject leaves the driver's own retry running.   *)
Reports ==
    LET idle == [nwp EXCEPT !.sta = "idle"] IN
    (IF nwp.sta \in {"joining", "comeback"} /\ ~nwp.denied
     THEN {Send([nwp EXCEPT !.sta = "joined", !.joined = TRUE], Event("CONNECT", "none", TRUE)),
           Send([idle EXCEPT !.deauth = "leaveAir"], Event("DISCONNECT", "leaveAir", FALSE))}
     ELSE {})
    \cup
    (IF nwp.sta = "joining" /\ ~nwp.denied
     THEN {Send([nwp EXCEPT !.sta = "comeback"], Event("ASSOC", "temp", FALSE)),
           Send(idle, Event("ASSOC", "real", FALSE)),
           Send([idle EXCEPT !.denied = TRUE], Event("AUTH", "temp", FALSE)),
           Send(idle, Event("AUTH", "real", FALSE)),
           Send(idle, Event("DISCONNECT", nwp.deauth, FALSE))}
     ELSE {})
    \cup
    (IF nwp.sta = "joining" THEN {Send(idle, Event("CONNECT", "none", FALSE))} ELSE {})
    \cup
    (IF nwp.sta = "joined"
     THEN {Send([idle EXCEPT !.deauth = "real"], Event("DISCONNECT", "real", FALSE))}
     ELSE {})
    \cup
    (IF nwp.scan
     THEN {Send([nwp EXCEPT !.scan = FALSE], Event("SCAN", "none", ok)) : ok \in BOOLEAN}
     ELSE {})

Report ==
    /\ Len(nwp.q) < MaxQueue
    /\ nwp' \in Reports
    /\ UNCHANGED <<conn, tag, seen, radio, ap, left, task, torn>>

(* Wlan_Disconnect: of a station that is up, reported with reason 3 and    *)
(* remembered by the driver; of an idle one, reported with 200 or refused  *)
(* without an event.                                                       *)
Disconnected ==
    IF nwp.sta # "idle"
    THEN {Send([nwp EXCEPT !.sta = "idle", !.deauth = "leaveOwn", !.leaving = TRUE],
               Event("DISCONNECT", "leaveOwn", FALSE))}
    ELSE {nwp, Send([nwp EXCEPT !.leaving = TRUE], Event("DISCONNECT", "user", FALSE))}

-------------------------------------------------------------------------------
(* wifi_event_cb *)

wifi_conn_is_connecting == conn.state = "CONNECTING"

Signal(ok) == seen' = [ok |-> ok, sync |-> TRUE]
Record(ev, code) ==
    tag' = IF wifi_conn_is_connecting THEN [ev |-> ev, code |-> code] ELSE tag

OnScan(e) == Signal(e.ok) /\ UNCHANGED tag

OnConnect(e) == Signal(e.ok) /\ UNCHANGED tag

(* The first code of an attempt stays; 200 is never one. *)
OnDisconnect(e) ==
    /\ Signal(FALSE)
    /\ IF tag.code = "none" /\ e.code # "user" THEN Record("DISCONNECT", e.code)
       ELSE UNCHANGED tag

(* A temporary reject is recorded and nobody is woken: the driver retries. *)
OnAssocRejected(e) ==
    /\ Record("ASSOC", e.code)
    /\ IF e.code = "temp" THEN UNCHANGED seen ELSE Signal(FALSE)

(* Variant for mutation: the event half of the tag is copied from above. *)
OnAuthRejectedAsAssoc(e) == Record("ASSOC", e.code) /\ Signal(FALSE)

OnAuthRejected(e) == Record("AUTH", e.code) /\ Signal(FALSE)

wifi_event_cb ==
    /\ nwp.q # <<>>
    /\ LET e == Head(nwp.q) IN
       /\ nwp' = [nwp EXCEPT !.q = Tail(@), !.leaving = @ /\ e.ev # "DISCONNECT"]
       /\ \/ e.ev = "SCAN" /\ OnScan(e)
          \/ e.ev = "CONNECT" /\ OnConnect(e)
          \/ e.ev = "DISCONNECT" /\ OnDisconnect(e)
          \/ e.ev = "ASSOC" /\ OnAssocRejected(e)
          \/ e.ev = "AUTH" /\ OnAuthRejected(e)
    /\ UNCHANGED <<conn, radio, ap, left, task, torn>>

-------------------------------------------------------------------------------
(* The status latch. *)

(* The dispatch of a connect marks the latch as it submits the job.        *)
cc3501e_hw_wifi_mark_connecting ==
    /\ conn' = [state |-> "CONNECTING", fail |-> "NONE", reason |-> "none"]
    /\ tag' = NoTag

wifi_retry_sanitize_reason(code, own) == IF code \in Leave /\ own THEN "none" ELSE code

(* Variant for mutation: the state goes first. *)
ConnDetailAfterState(state, fail, code) ==
    /\ conn' = [conn EXCEPT !.state = state]
    /\ tag' = IF state = "CONNECTED" THEN NoTag ELSE tag
    /\ task' = [task EXCEPT !.pc = "state", !.target = state]

(* wifi_conn_set: the detail, and in a later step the state.  A host frame *)
(* between them is answered from the latch as it is.                       *)
ConnDetail(state, fail, code) ==
    /\ conn' = [conn EXCEPT !.fail = fail,
                            !.reason = IF state = "CONNECTED" THEN "none"
                                       ELSE wifi_retry_sanitize_reason(code, radio.own)]
    /\ tag' = IF state = "CONNECTED" THEN NoTag ELSE tag
    /\ task' = [task EXCEPT !.pc = "state", !.target = state]

ConnState ==
    /\ task.pc = "state"
    /\ conn' = [conn EXCEPT !.state = task.target]
    /\ task' = [task EXCEPT !.pc = IF task.clean THEN "clean" ELSE "drain"]
    /\ UNCHANGED <<tag, seen, radio, ap, left, torn, nwp>>

(* What the host reads, in one dispatch. *)
handle_wifi_status == [state |-> conn.state, fail |-> conn.fail, reason |-> conn.reason]

-------------------------------------------------------------------------------
(* Jobs: submitted by a dispatch (the slot is Bridge's), taken and run by  *)
(* the task.  At(pc) and Goto(pc) are its program counter.                 *)

At(pc) == task.pc = pc
Goto(pc) == task' = [task EXCEPT !.pc = pc]
Run(job) == At("queued") /\ task.job = job

Submit(job) ==
    /\ At("idle") /\ nwp.jobs < MaxJobs
    /\ task' = [Idle EXCEPT !.pc = "queued", !.job = job]
    /\ nwp' = [nwp EXCEPT !.jobs = @ + 1]
    /\ IF job \in {"connect", "connect_bad"} THEN cc3501e_hw_wifi_mark_connecting
       ELSE UNCHANGED <<conn, tag>>
    /\ UNCHANGED <<seen, radio, ap, left, torn>>

(* cc3501e_hw_wifi_lazy_start and _ensure_sta_role: what the radio may be  *)
(* afterwards.  Wlan_Start is followed by a re-init of its own.            *)
Started == IF radio.started THEN {radio} ELSE {radio, [radio EXCEPT !.started = TRUE]}
RoleUp == UNION {IF r.started /\ ~r.sta THEN {r, [r EXCEPT !.sta = TRUE]} ELSE {r} : r \in Started}

(* The scan: start, role, a request, a wait, a re-init on every way out    *)
(* but the first (a failed start has had its own).                         *)
ScanStart ==
    /\ Run("scan")
    /\ radio' \in RoleUp
    /\ seen' = IF radio'.started THEN [seen EXCEPT !.sync = FALSE] ELSE seen
    /\ \/ /\ radio'.sta /\ ~nwp.scan
          /\ nwp' = [nwp EXCEPT !.scan = TRUE]
          /\ torn' \in BOOLEAN
          /\ Goto("scanning")
       \/ UNCHANGED nwp /\ torn' = FALSE /\ Goto("drain")
    /\ UNCHANGED <<conn, tag, ap, left>>

ScanEnd ==
    /\ At("scanning")
    /\ seen' = [seen EXCEPT !.sync = FALSE]
    /\ torn' = FALSE
    /\ Goto("drain")
    /\ UNCHANGED <<conn, tag, radio, ap, left, nwp>>

(* A connect with an empty SSID. *)
ConnectBad ==
    /\ Run("connect_bad")
    /\ ConnDetail("FAILED", "KICK", "none")
    /\ UNCHANGED <<seen, radio, ap, left, torn, nwp>>

(* A connect: the role first, with a re-init unless it was up already.     *)
(* quiet is history: no event of an earlier attempt is still to come.      *)
ConnectRole ==
    /\ Run("connect")
    /\ radio' \in RoleUp
    /\ torn' = (torn /\ radio.sta)
    /\ task' = IF radio'.sta
               THEN [task EXCEPT !.pc = "clear", !.quiet = nwp.q = <<>> /\ nwp.sta = "idle"]
               ELSE [task EXCEPT !.pc = "fail", !.fail = "KICK", !.code = "none"]
    /\ UNCHANGED <<conn, tag, seen, ap, left, nwp>>

(* A pass clears what the callback writes, one word after the other ...    *)
PassClearSync ==
    /\ At("clear")
    /\ seen' = [seen EXCEPT !.sync = FALSE]
    /\ Goto("clear2")
    /\ UNCHANGED <<conn, tag, radio, ap, left, torn, nwp>>

PassClearStatus ==
    /\ At("clear2")
    /\ seen' = [seen EXCEPT !.ok = TRUE]
    /\ Goto("clear3")
    /\ UNCHANGED <<conn, tag, radio, ap, left, torn, nwp>>

PassClearTag ==
    /\ At("clear3")
    /\ tag' = NoTag
    /\ Goto("kick")
    /\ UNCHANGED <<conn, seen, radio, ap, left, torn, nwp>>

(* ... and asks the NWP, which refuses while a disconnect is in progress.  *)
(* After the retry the verdict of the first pass is the one that counts.   *)
Failed(fail, code) ==
    task' = [task EXCEPT !.pc = "fail", !.clean = TRUE, !.fail = fail, !.code = code, !.spent = 0]

FirstOr(fail, code) ==
    IF task.retried THEN Failed("REJECTED", task.first.code) ELSE Failed(fail, code)

PassKick ==
    /\ At("kick")
    /\ \/ /\ ~nwp.leaving
          /\ nwp' = [nwp EXCEPT !.sta = "joining", !.joined = FALSE]
          /\ torn' \in {torn, TRUE}
          /\ Goto("wait")
       \/ FirstOr("KICK", "none") /\ UNCHANGED <<nwp, torn>>
    /\ UNCHANGED <<conn, tag, seen, radio, ap, left>>

(* The association wait (wifi_assoc_wait_sliced) ends with a signal ...    *)
WaitSignalled ==
    /\ At("wait") /\ seen.sync
    /\ seen' = [seen EXCEPT !.sync = FALSE]
    /\ \E spent \in IF task.retried THEN {0} ELSE Wakes :
          task' = [task EXCEPT !.pc = "status", !.spent = spent]
    /\ UNCHANGED <<conn, tag, radio, ap, left, torn, nwp>>

(* ... or, when what is left of the budget runs out before the first slice *)
(* of the wait, as if there had been one: rv is still OSI_OK.  Only the    *)
(* retry pass starts with part of the budget spent ...                     *)
WaitUnstarted ==
    /\ At("wait") /\ task.retried
    /\ task' = [task EXCEPT !.pc = "status", !.spent = 0]
    /\ UNCHANGED <<conn, tag, seen, radio, ap, left, torn, nwp>>

(* ... or with the budget of the association phase. *)
WaitTimesOut ==
    /\ At("wait")
    /\ FirstOr("TIMEOUT", tag.code)
    /\ UNCHANGED <<conn, tag, seen, radio, ap, left, torn, nwp>>

(* Variant for mutation: an empty reason of the retry pass is published. *)
RestoreLeaveOnly(code) == code \in Leave

wifi_retry_should_restore_first_pass(code) == code \in Leave \cup {"none"}

ReadStatus ==
    /\ At("status")
    /\ task' = IF seen.ok THEN [task EXCEPT !.pc = "dhcp", !.spent = 0]
               ELSE [task EXCEPT !.pc = "verdict"]
    /\ UNCHANGED <<conn, tag, seen, radio, ap, left, torn, nwp>>

(* A negative status: one retry, for a temporary reject with budget left;  *)
(* otherwise the verdict.                                                  *)
RetryEligible ==
    /\ ~task.retried /\ tag.code = "temp"
    /\ task.spent + Overhead + MinWait <= AssocWait

VerdictRetry ==
    /\ At("verdict") /\ RetryEligible
    /\ seen' = [seen EXCEPT !.sync = FALSE]
    /\ task' = [task EXCEPT !.pc = "cleanup", !.retried = TRUE, !.first = tag]
    /\ UNCHANGED <<conn, tag, radio, ap, left, torn, nwp>>

VerdictFail ==
    /\ At("verdict") /\ ~RetryEligible
    /\ IF task.retried /\ wifi_retry_should_restore_first_pass(tag.code)
       THEN Failed("REJECTED", task.first.code)
       ELSE Failed("REJECTED", tag.code)
    /\ UNCHANGED <<conn, tag, seen, radio, ap, left, torn, nwp>>

(* Variant for mutation: the firmware forgets that it asked. *)
ClearStaleUnmarked ==
    nwp' \in Disconnected /\ UNCHANGED radio

wifi_clear_stale_assoc ==
    IF radio.started
    THEN nwp' \in Disconnected /\ radio' = [radio EXCEPT !.own = TRUE]
    ELSE UNCHANGED <<nwp, radio>>

(* Before the retry: drop the association, wait a little for the event of  *)
(* that, then sleep for as long as the kind of reject asks for.            *)
RetryCleanup ==
    /\ At("cleanup")
    /\ wifi_clear_stale_assoc
    /\ Goto("settle")
    /\ UNCHANGED <<conn, tag, seen, ap, left, torn>>

(* Variant for mutation: the wait for that event has no bound. *)
RetrySettleForever ==
    /\ At("settle") /\ seen.sync
    /\ seen' = [seen EXCEPT !.sync = FALSE]
    /\ Goto("delay")
    /\ UNCHANGED <<conn, tag, radio, ap, left, torn, nwp>>

RetrySettle ==
    /\ At("settle")
    /\ seen' = [seen EXCEPT !.sync = FALSE]
    /\ task' = [task EXCEPT !.pc = "delay", !.spent = @ + IF seen.sync THEN 0 ELSE DisconnectWait]
    /\ UNCHANGED <<conn, tag, radio, ap, left, torn, nwp>>

wifi_retry_delay_ms(ev) == IF ev = "ASSOC" THEN ComebackDelay ELSE DenylistDelay

RetryDelay ==
    /\ At("delay")
    /\ LET delay == wifi_retry_delay_ms(task.first.ev) IN
       /\ nwp' = [nwp EXCEPT !.denied = @ /\ delay < DenylistDelay]
       /\ task' = [task EXCEPT !.pc = "clear", !.spent = @ + delay]
    /\ UNCHANGED <<conn, tag, seen, radio, ap, left, torn>>

(* Variant for mutation: no look at the address. *)
DhcpAssumed ==
    /\ At("dhcp")
    /\ Goto("won")
    /\ UNCHANGED <<conn, tag, seen, radio, ap, left, torn, nwp>>

(* Associated, it seems: the address decides.  There is one only while the *)
(* station is up.                                                          *)
Dhcp ==
    /\ At("dhcp")
    /\ \/ nwp.sta = "joined" /\ Goto("won")
       \/ task' = [task EXCEPT !.pc = "fail", !.fail = "TIMEOUT", !.code = tag.code]
    /\ UNCHANGED <<conn, tag, seen, radio, ap, left, torn, nwp>>

(* The link first, then the good news. *)
WonReinit ==
    /\ At("won")
    /\ torn' = FALSE
    /\ left' = [left EXCEPT !.reinit = TRUE]
    /\ Goto("connected")
    /\ UNCHANGED <<conn, tag, seen, radio, ap, nwp>>

WonPublish ==
    /\ At("connected")
    /\ ConnDetail("CONNECTED", "NONE", "none")
    /\ UNCHANGED <<seen, radio, ap, left, torn, nwp>>

(* Variant for mutation: the skip is granted without a frame. *)
FailMarkBlind ==
    /\ At("fail")
    /\ left' = [left EXCEPT !.skip = TRUE, !.skipOk = TRUE]
    /\ Goto("publish")
    /\ UNCHANGED <<conn, tag, seen, radio, ap, torn, nwp>>

(* A failed connect looks for a host frame, publishes, and -- on the way   *)
(* out of the association phase -- drops the association.                  *)
wifi_connect_fail_mark_skip ==
    /\ At("fail")
    /\ \E frame \in BOOLEAN : /\ frame => ~torn
                              /\ left' = [left EXCEPT !.skip = TRUE, !.skipOk = frame]
    /\ Goto("publish")
    /\ UNCHANGED <<conn, tag, seen, radio, ap, torn, nwp>>

FailPublish ==
    /\ At("publish")
    /\ ConnDetail("FAILED", task.fail, task.code)
    /\ UNCHANGED <<seen, radio, ap, left, torn, nwp>>

FailClean ==
    /\ At("clean")
    /\ wifi_clear_stale_assoc
    /\ Goto("drain")
    /\ UNCHANGED <<conn, tag, seen, ap, left, torn>>

(* The host's own disconnect; the latch keeps the frozen reason. *)
cc3501e_hw_wifi_disconnect ==
    /\ Run("disconnect")
    /\ IF radio.started
       THEN /\ nwp' \in Disconnected
            /\ radio' = [radio EXCEPT !.own = TRUE]
            /\ Goto(IF nwp' = nwp THEN "drain" ELSE "disconnected")
       ELSE UNCHANGED <<nwp, radio>> /\ Goto("drain")
    /\ UNCHANGED <<conn, tag, seen, ap, left, torn>>

DisconnectPublish ==
    /\ At("disconnected")
    /\ ConnDetail("DISCONNECTED", "NONE", conn.reason)
    /\ UNCHANGED <<seen, radio, ap, left, torn, nwp>>

(* The access point: the latch is set pending and published by the drain.  *)
(* Variant for mutation: published at once. *)
LatchStartedUp(l) == [l EXCEPT !.up = TRUE]

ap_role_latch_started(l) == [l EXCEPT !.pending = TRUE]

cc3501e_hw_wifi_ap_start ==
    /\ Run("ap_start")
    /\ radio' \in Started
    /\ \/ /\ radio'.started
          /\ nwp' = [nwp EXCEPT !.ap = TRUE]
          /\ ap' = ap_role_latch_started(ap)
       \/ UNCHANGED <<nwp, ap>>
    /\ torn' \in BOOLEAN
    /\ Goto("drain")
    /\ UNCHANGED <<conn, tag, seen, left>>

cc3501e_hw_wifi_ap_stop ==
    /\ Run("ap_stop")
    /\ \/ /\ radio.started
          /\ nwp' = [nwp EXCEPT !.ap = FALSE]
          /\ ap' = [pending |-> FALSE, up |-> FALSE]
          /\ torn' \in BOOLEAN
       \/ UNCHANGED <<nwp, ap, torn>>
    /\ Goto("drain")
    /\ UNCHANGED <<conn, tag, seen, radio, left>>

(* The signal strength: it skips the re-init if the radio was up already.  *)
cc3501e_hw_wifi_get_rssi ==
    /\ Run("rssi")
    /\ left' = [left EXCEPT !.rssi = TRUE, !.rssiOk = radio.started]
    /\ radio' \in Started
    /\ torn' = (torn /\ radio.started)
    /\ Goto("drain")
    /\ UNCHANGED <<conn, tag, seen, ap, nwp>>

-------------------------------------------------------------------------------
(* The drain's part: it takes the flags of the job it ran and re-inits the *)
(* slave unless they say that this is done or not needed.                  *)

IsConnect == task.job \in {"connect", "connect_bad"}

BodyReinit == IsConnect /\ left.reinit
FailSkip == IsConnect /\ left.skip /\ left.skipOk
RssiSkip == task.job = "rssi" /\ left.rssi /\ left.rssiOk

DrainReinit ==
    /\ At("drain")
    /\ torn' = (torn /\ (BodyReinit \/ FailSkip \/ RssiSkip \/ task.job = "disconnect"))
    /\ left' = [left EXCEPT !.reinit = @ /\ ~IsConnect, !.skip = @ /\ ~IsConnect,
                            !.rssi = @ /\ task.job # "rssi"]
    /\ Goto("finish")
    /\ UNCHANGED <<conn, tag, seen, radio, ap, nwp>>

DrainFinish ==
    /\ At("finish")
    /\ ap' = IF task.job = "ap_start" /\ ap.pending THEN [pending |-> FALSE, up |-> TRUE] ELSE ap
    /\ task' = Idle
    /\ UNCHANGED <<conn, tag, seen, radio, left, torn, nwp>>

-------------------------------------------------------------------------------
Task ==
    \/ ScanStart \/ ScanEnd \/ ConnectBad \/ ConnectRole
    \/ PassClearSync \/ PassClearStatus \/ PassClearTag \/ PassKick
    \/ WaitSignalled \/ WaitUnstarted \/ WaitTimesOut \/ ReadStatus \/ VerdictRetry \/ VerdictFail
    \/ RetryCleanup \/ RetrySettle \/ RetryDelay
    \/ Dhcp \/ WonReinit \/ WonPublish
    \/ ConnState \/ wifi_connect_fail_mark_skip \/ FailPublish \/ FailClean
    \/ cc3501e_hw_wifi_disconnect \/ DisconnectPublish
    \/ cc3501e_hw_wifi_ap_start \/ cc3501e_hw_wifi_ap_stop \/ cc3501e_hw_wifi_get_rssi
    \/ DrainReinit \/ DrainFinish

Next ==
    \/ \E job \in Jobs : Submit(job)
    \/ Report
    \/ wifi_event_cb
    \/ Task

Spec == Init /\ [][Next]_vars

(* The drain task runs, and every wait of a job is bounded (each timeout   *)
(* is a step of the task).  Nothing is assumed of the NWP.                 *)
FairSpec == Spec /\ WF_vars(Task)

-------------------------------------------------------------------------------
(* A host that reads a terminal state reads the detail that belongs to it, *)
(* although the two are written apart: a cause with FAILED, none and no    *)
(* reason with CONNECTED (wifi_conn_set writes the state last).  The one   *)
(* exception is the disconnect of a failed station, which takes the cause  *)
(* away before the state.                                                  *)
StatusWhole ==
    LET read == handle_wifi_status IN
    /\ read.state = "CONNECTED" => read.reason = "none" /\ read.fail = "NONE"
    /\ read.state = "FAILED" => read.fail # "NONE" \/ (At("state") /\ task.job = "disconnect")

(* The reason the host reads is never the echo of a Wlan_Disconnect of the *)
(* firmware's own: not in the attempt that made it, not in a later one     *)
(* that inherits the driver's deauthReason or a late event                 *)
(* (wifi_retry_sanitize_reason and wifi_own_disconnect_issued).            *)
OwnLeaveUnreported == conn.reason # "leaveOwn"

(* A connect that retried and failed to associate publishes a refusal and  *)
(* a code of the AP's: whatever ends the retry pass -- a refused call, the *)
(* timeout, an event without a code, a late one -- the code of the first   *)
(* pass is not lost (the first_pass_... locals of connect_sta).            *)
RetryKeepsVerdict ==
    [][(task.retried /\ task.clean /\ At("publish") /\ ~At("publish")')
          => conn'.fail = "REJECTED" /\ conn'.reason \in {"temp", "real"}]_vars

(* CONNECTED is published only of an attempt whose own Wlan_Connect has    *)
(* led to an association: no late event of a scan or of an earlier         *)
(* attempt, and no wait that ends before it starts, can stand in for it    *)
(* (the address check before wifi_conn_set(CONNECTED)).                    *)
ConnectedJoined == conn.state = "CONNECTED" => nwp.joined

(* Between two jobs the SPI slave is not deaf: what a radio call of a job  *)
(* did to it has been cured by the body or by the drain, and when the      *)
(* drain's re-init is skipped there was no need of it (the three skip      *)
(* reports of the Wi-Fi file and worker_run_pending's condition).          *)
LinkRearmed == At("idle") => ~torn

(* The AP role becomes visible only when the AP is up and the slave can    *)
(* serve the host that has been waiting to see it (ap_role_latch.h).       *)
ApVisibleWhenServed == [][(~ap.up /\ ap'.up) => (nwp.ap /\ ~torn)]_vars

(* The retry does not run into the deny list its own first pass caused     *)
(* (wifi_retry_delay_ms on the event half of the tag), in an attempt that  *)
(* no event of an earlier one can reach.                                   *)
RetryAfterDenyList ==
    [][(task.retried /\ task.quiet /\ At("kick") /\ ~At("kick")') => ~nwp.denied]_vars

(* A connect settles, whatever the NWP reports or fails to report (every   *)
(* wait of connect_sta is bounded, and it retries once).                   *)
ConnectEnds == (conn.state = "CONNECTING") ~> (conn.state # "CONNECTING")

(* What wifi_clear_stale_assoc is documented to establish: a failed        *)
(* connect leaves no association behind, so that the NWP is ready for the  *)
(* next one.                                                               *)
FailedConnectCleared ==
    (At("finish") /\ task.job = "connect" /\ conn.state = "FAILED") => nwp.sta # "joined"
===============================================================================
