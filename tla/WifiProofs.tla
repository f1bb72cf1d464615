------------------------------- MODULE WifiProofs ------------------------------
(***************************************************************************)
(* Proofs about Wifi, for any number of jobs, any length of the NWP's FIFO *)
(* and any time at which the association wait may be woken.                *)
(*                                                                         *)
(* The types say which code can be where: "leaveOwn" is nowhere before the *)
(* firmware has asked for a disconnect of its own, a disconnect never      *)
(* carries "temp", the tag never "user".                                   *)
(***************************************************************************)
EXTENDS Wifi, TLAPS

States == {"DISCONNECTED", "CONNECTING", "CONNECTED", "FAILED"}
Fails == {"NONE", "KICK", "REJECTED", "TIMEOUT"}
ConnectJobs == {"connect", "connect_bad"}

Passing == {"clear", "clear2", "clear3", "kick", "wait", "status", "verdict", "cleanup", "settle",
            "delay", "dhcp", "won", "connected"}
Failing == {"fail", "publish"}
Places == Passing \cup Failing \cup
          {"idle", "queued", "scanning", "disconnected", "state", "clean", "drain", "finish"}

(* The codes there can be before (own = FALSE) and after the first         *)
(* Wlan_Disconnect of the firmware's own.                                  *)
CodesWhen(own) == {c \in Codes : c = "leaveOwn" => own}

TagsWhen(own) == {t \in [ev : Events \cup {"NONE"}, code : CodesWhen(own)] : t.code # "user"}

EventsWhen(own) ==
    {e \in [ev : Events, code : CodesWhen(own), ok : BOOLEAN] :
        /\ e.ev \in {"ASSOC", "AUTH"} => e.code \in {"temp", "real"}
        /\ e.ev = "DISCONNECT" => e.code # "temp"}

(* The parts of the state that hold codes, and the rest of the types. *)
CodeInv ==
    /\ tag \in TagsWhen(radio.own)
    /\ nwp.q \in Seq(EventsWhen(radio.own))
    /\ nwp.deauth \in CodesWhen(radio.own) \ {"temp"}
    /\ task.first \in TagsWhen(radio.own)
    /\ task.code \in CodesWhen(radio.own)

Conns == [state : States, fail : Fails, reason : Codes \ {"leaveOwn"}]

Flags == [reinit : BOOLEAN, skip : BOOLEAN, skipOk : BOOLEAN, rssi : BOOLEAN, rssiOk : BOOLEAN]

Tasks == [pc : Places, job : AllJobs \cup {"none"}, retried : BOOLEAN, first : TagsWhen(TRUE),
          fail : Fails, code : Codes, target : States \cup {"none"}, clean : BOOLEAN,
          quiet : BOOLEAN, spent : Nat]

Nwps == [sta : {"idle", "joining", "comeback", "joined"}, scan : BOOLEAN,
         q : Seq(EventsWhen(TRUE)), leaving : BOOLEAN, denied : BOOLEAN, deauth : Codes,
         ap : BOOLEAN, joined : BOOLEAN, jobs : Nat]

Radios == [started : BOOLEAN, sta : BOOLEAN, own : BOOLEAN]

TypeInv ==
    /\ conn \in Conns
    /\ seen \in [ok : BOOLEAN, sync : BOOLEAN]
    /\ radio \in Radios
    /\ ap \in [pending : BOOLEAN, up : BOOLEAN]
    /\ left \in Flags
    /\ task \in Tasks
    /\ torn \in BOOLEAN
    /\ nwp \in Nwps

(* Which job is where, and what the latch says meanwhile. *)
ControlInv ==
    /\ task.pc \in Passing \cup Failing \cup {"clean"} => task.job = "connect"
    /\ task.pc = "disconnected" => task.job = "disconnect"
    /\ task.pc = "scanning" => task.job = "scan"
    /\ task.pc = "state" =>
          task.job \in (IF task.target = "DISCONNECTED" THEN {"disconnect"} ELSE ConnectJobs)
    /\ task.job \in ConnectJobs /\ task.pc \notin {"clean", "drain", "finish"}
          => conn.state = "CONNECTING"

(* The detail is written before the state it belongs to. *)
StatusInv ==
    /\ StatusWhole
    /\ task.pc = "state" => /\ task.target \in {"CONNECTED", "FAILED", "DISCONNECTED"}
                            /\ task.target = "CONNECTED" => conn.reason = "none" /\ conn.fail = "NONE"
                            /\ task.target = "FAILED" => conn.fail # "NONE"
    /\ task.pc \in Failing => task.fail # "NONE"

(* A station that is up was asked for by the latest Wlan_Connect. *)
JoinInv ==
    /\ ConnectedJoined
    /\ nwp.sta = "joined" => nwp.joined
    /\ task.pc \in {"won", "connected"} => nwp.joined
    /\ task.pc = "state" /\ task.target = "CONNECTED" => nwp.joined

(* A deaf slave and a flag that would keep the drain from curing it never  *)
(* meet.                                                                   *)
TornInv ==
    /\ task.pc \in {"idle", "queued", "finish"} => ~torn
    /\ task.job \in {"disconnect", "rssi"} => ~torn
    /\ left.reinit => /\ task.job = "connect" /\ ~torn
                      /\ task.pc \in {"connected", "state", "clean", "drain"}
    /\ left.skip => /\ task.job = "connect" /\ (left.skipOk => ~torn)
                    /\ task.pc \in {"publish", "state", "clean", "drain"}

(* An AP that waits to be published is up. *)
ApInv == ap.pending => nwp.ap

(* The retry keeps the code that led to it. *)
RetryInv ==
    /\ task.retried => task.first.code = "temp"
    /\ task.pc \in {"cleanup", "settle", "delay"} => task.retried
    /\ task.pc = "queued" => ~task.retried
    /\ task.clean => /\ task.job = "connect"
                     /\ task.pc \in Failing \cup {"state", "clean", "drain", "finish"}
    /\ task.clean /\ task.retried => task.fail = "REJECTED" /\ task.code \in {"temp", "real"}

(* In an attempt without leftovers nothing but scans is reported before    *)
(* the kick, the NWP answers it once, and a deny list and a comeback       *)
(* exclude each other.                                                     *)
ScanEvents == {e \in EventsWhen(TRUE) : e.ev = "SCAN"}
NoComeback == {e \in EventsWhen(TRUE) : e.ev # "ASSOC"}

DenyInv ==
    /\ radio.sta => radio.started
    /\ task.pc \in Passing => radio.sta
    /\ task.quiet /\ ~task.retried =>
          /\ task.pc \in {"clear", "clear2", "clear3", "kick"} =>
                nwp.sta = "idle" /\ nwp.q \in Seq(ScanEvents)
          /\ task.pc = "kick" => tag = NoTag
          /\ task.pc \in {"wait", "status", "verdict"} =>
                /\ nwp.sta = "joining" => nwp.q \in Seq(ScanEvents) /\ tag = NoTag
                /\ nwp.denied => nwp.q \in Seq(NoComeback) /\ tag.ev # "ASSOC"
    /\ task.quiet /\ task.retried =>
          /\ task.pc = "cleanup" => nwp.sta # "joining"
          /\ task.pc \in {"settle", "delay", "clear", "clear2", "clear3", "kick"} => nwp.sta = "idle"
          /\ task.pc \in {"cleanup", "settle", "delay"} => (nwp.denied => task.first.ev # "ASSOC")
          /\ task.pc \in {"clear", "clear2", "clear3", "kick"} => ~nwp.denied

IInv == /\ TypeInv /\ CodeInv /\ ControlInv /\ StatusInv /\ JoinInv /\ TornInv /\ ApInv
        /\ RetryInv /\ DenyInv

-------------------------------------------------------------------------------
(* Queues and the sets of codes.                                           *)

(* A queue with one more event ... *)
LEMMA Sent ==
    ASSUME NEW S, NEW q \in Seq(S), NEW e \in S
    PROVE  Append(q, e) \in Seq(S)
OBVIOUS

(* ... and with one less. *)
LEMMA Taken ==
    ASSUME NEW S, NEW q \in Seq(S), q # <<>>
    PROVE  Head(q) \in S /\ Tail(q) \in Seq(S)
OBVIOUS

(* A queue of some events is a queue of more. *)
LEMMA SeqOfMore ==
    ASSUME NEW S, NEW T, S \subseteq T, NEW q \in Seq(S)
    PROVE  q \in Seq(T)
OBVIOUS

(* The firmware's own disconnect only adds to what there can be. *)
LEMMA OwnAdds ==
    ASSUME NEW a \in BOOLEAN, NEW b \in BOOLEAN, a => b
    PROVE  /\ CodesWhen(a) \subseteq CodesWhen(b)
           /\ TagsWhen(a) \subseteq TagsWhen(b)
           /\ EventsWhen(a) \subseteq EventsWhen(b)
<1>1. CodesWhen(a) \subseteq CodesWhen(b)
  BY DEF CodesWhen
<1>2. TagsWhen(a) \subseteq TagsWhen(b)
  BY <1>1 DEF TagsWhen
<1>3. EventsWhen(a) \subseteq EventsWhen(b)
  BY <1>1 DEF EventsWhen
<1> QED
  BY <1>1, <1>2, <1>3

(* What the NWP may have become, n, when it reports the event e. *)
Reported(n, e) ==
    /\ n \in Nwps
    /\ n.q = Append(nwp.q, e)
    /\ n.deauth \in {nwp.deauth, "leaveAir", "real"}
    /\ n.ap = nwp.ap
    /\ nwp.joined => n.joined
    /\ n.sta = "joined" => nwp.sta = "joined" \/ n.joined
    /\ n.sta = "joining" => nwp.sta = "joining" /\ e.ev = "SCAN"
    /\ nwp.sta = "idle" => n.sta = "idle" /\ e.ev = "SCAN"
    /\ e.ev = "ASSOC" => nwp.sta = "joining" /\ ~n.denied
    /\ n.denied # nwp.denied => nwp.sta = "joining" /\ n.sta = "idle" /\ e.ev = "AUTH"

(* The events the NWP can make of what it knows. *)
LEMMA EventsFit ==
    ASSUME NEW own \in BOOLEAN, NEW d \in CodesWhen(own) \ {"temp"}
    PROVE  /\ \A ok \in BOOLEAN : /\ Event("CONNECT", "none", ok) \in EventsWhen(own)
                                 /\ Event("SCAN", "none", ok) \in EventsWhen(own)
           /\ \A c \in {"temp", "real"} : /\ Event("ASSOC", c, FALSE) \in EventsWhen(own)
                                         /\ Event("AUTH", c, FALSE) \in EventsWhen(own)
           /\ \A c \in {"leaveAir", "real", "user", d} : Event("DISCONNECT", c, FALSE) \in EventsWhen(own)
<1>1. {"none", "temp", "real", "user", "leaveAir"} \subseteq CodesWhen(own)
  BY DEF CodesWhen, Codes, Leave
<1> QED
  BY <1>1 DEF Event, EventsWhen, Events

(* What the NWP reports fits the state of the station. *)
LEMMA ReportIs ==
    ASSUME nwp \in Nwps, radio.own \in BOOLEAN, nwp.deauth \in CodesWhen(radio.own) \ {"temp"},
           NEW n \in Reports
    PROVE  \E e \in EventsWhen(radio.own) : Reported(n, e)
<1> DEFINE own == radio.own
<1>1. EventsWhen(own) \subseteq EventsWhen(TRUE)
  BY OwnAdds
<1>2. \A e \in EventsWhen(own) : Append(nwp.q, e) \in Seq(EventsWhen(TRUE))
  BY <1>1, Sent DEF Nwps
<1>3. {"leaveAir", "real"} \subseteq Codes
  BY DEF Codes, Leave
<1>4. \A ev, code, ok : Event(ev, code, ok).ev = ev
  BY DEF Event
<1>5. /\ \A ok \in BOOLEAN : /\ Event("CONNECT", "none", ok) \in EventsWhen(own)
                             /\ Event("SCAN", "none", ok) \in EventsWhen(own)
      /\ \A c \in {"temp", "real"} : /\ Event("ASSOC", c, FALSE) \in EventsWhen(own)
                                    /\ Event("AUTH", c, FALSE) \in EventsWhen(own)
      /\ \A c \in {"leaveAir", "real", "user", nwp.deauth} :
            Event("DISCONNECT", c, FALSE) \in EventsWhen(own)
  BY EventsFit
<1> SUFFICES \E e \in EventsWhen(own) : Reported(n, e)
  OBVIOUS
<1> HIDE DEF own
<1>6. CASE nwp.sta \in {"joining", "comeback"} /\ n = Send([nwp EXCEPT !.sta = "joined", !.joined = TRUE], Event("CONNECT", "none", TRUE))
  <2>1. Event("CONNECT", "none", TRUE) \in EventsWhen(own) /\ Event("CONNECT", "none", TRUE).ev = "CONNECT"
    BY <1>4, <1>5
  <2>2. Reported(n, Event("CONNECT", "none", TRUE))
    BY <1>2, <1>3, <1>6, <2>1 DEF Reported, Send, Nwps
  <2> QED
    BY <2>1, <2>2
<1>7. CASE nwp.sta \in {"joining", "comeback"} /\ n = Send([[nwp EXCEPT !.sta = "idle"] EXCEPT !.deauth = "leaveAir"], Event("DISCONNECT", "leaveAir", FALSE))
  <2>1. Event("DISCONNECT", "leaveAir", FALSE) \in EventsWhen(own) /\ Event("DISCONNECT", "leaveAir", FALSE).ev = "DISCONNECT"
    BY <1>4, <1>5
  <2>2. Reported(n, Event("DISCONNECT", "leaveAir", FALSE))
    BY <1>2, <1>3, <1>7, <2>1 DEF Reported, Send, Nwps
  <2> QED
    BY <2>1, <2>2
<1>8. CASE nwp.sta = "joining" /\ ~nwp.denied /\ n = Send([nwp EXCEPT !.sta = "comeback"], Event("ASSOC", "temp", FALSE))
  <2>1. Event("ASSOC", "temp", FALSE) \in EventsWhen(own) /\ Event("ASSOC", "temp", FALSE).ev = "ASSOC"
    BY <1>4, <1>5
  <2>2. Reported(n, Event("ASSOC", "temp", FALSE))
    BY <1>2, <1>3, <1>8, <2>1 DEF Reported, Send, Nwps
  <2> QED
    BY <2>1, <2>2
<1>9. CASE nwp.sta = "joining" /\ ~nwp.denied /\ n = Send([nwp EXCEPT !.sta = "idle"], Event("ASSOC", "real", FALSE))
  <2>1. Event("ASSOC", "real", FALSE) \in EventsWhen(own) /\ Event("ASSOC", "real", FALSE).ev = "ASSOC"
    BY <1>4, <1>5
  <2>2. Reported(n, Event("ASSOC", "real", FALSE))
    BY <1>2, <1>3, <1>9, <2>1 DEF Reported, Send, Nwps
  <2> QED
    BY <2>1, <2>2
<1>10. CASE nwp.sta = "joining" /\ n = Send([[nwp EXCEPT !.sta = "idle"] EXCEPT !.denied = TRUE], Event("AUTH", "temp", FALSE))
  <2>1. Event("AUTH", "temp", FALSE) \in EventsWhen(own) /\ Event("AUTH", "temp", FALSE).ev = "AUTH"
    BY <1>4, <1>5
  <2>2. Reported(n, Event("AUTH", "temp", FALSE))
    BY <1>2, <1>3, <1>10, <2>1 DEF Reported, Send, Nwps
  <2> QED
    BY <2>1, <2>2
<1>11. CASE nwp.sta = "joining" /\ n = Send([nwp EXCEPT !.sta = "idle"], Event("AUTH", "real", FALSE))
  <2>1. Event("AUTH", "real", FALSE) \in EventsWhen(own) /\ Event("AUTH", "real", FALSE).ev = "AUTH"
    BY <1>4, <1>5
  <2>2. Reported(n, Event("AUTH", "real", FALSE))
    BY <1>2, <1>3, <1>11, <2>1 DEF Reported, Send, Nwps
  <2> QED
    BY <2>1, <2>2
<1>12. CASE nwp.sta = "joining" /\ n = Send([nwp EXCEPT !.sta = "idle"], Event("DISCONNECT", nwp.deauth, FALSE))
  <2>1. Event("DISCONNECT", nwp.deauth, FALSE) \in EventsWhen(own) /\ Event("DISCONNECT", nwp.deauth, FALSE).ev = "DISCONNECT"
    BY <1>4, <1>5
  <2>2. Reported(n, Event("DISCONNECT", nwp.deauth, FALSE))
    BY <1>2, <1>3, <1>12, <2>1 DEF Reported, Send, Nwps
  <2> QED
    BY <2>1, <2>2
<1>13. CASE nwp.sta = "joining" /\ n = Send([nwp EXCEPT !.sta = "idle"], Event("CONNECT", "none", FALSE))
  <2>1. Event("CONNECT", "none", FALSE) \in EventsWhen(own) /\ Event("CONNECT", "none", FALSE).ev = "CONNECT"
    BY <1>4, <1>5
  <2>2. Reported(n, Event("CONNECT", "none", FALSE))
    BY <1>2, <1>3, <1>13, <2>1 DEF Reported, Send, Nwps
  <2> QED
    BY <2>1, <2>2
<1>14. CASE nwp.sta = "joined" /\ n = Send([[nwp EXCEPT !.sta = "idle"] EXCEPT !.deauth = "real"], Event("DISCONNECT", "real", FALSE))
  <2>1. Event("DISCONNECT", "real", FALSE) \in EventsWhen(own) /\ Event("DISCONNECT", "real", FALSE).ev = "DISCONNECT"
    BY <1>4, <1>5
  <2>2. Reported(n, Event("DISCONNECT", "real", FALSE))
    BY <1>2, <1>3, <1>14, <2>1 DEF Reported, Send, Nwps
  <2> QED
    BY <2>1, <2>2
<1>15. ASSUME NEW ok \in BOOLEAN, n = Send([nwp EXCEPT !.scan = FALSE], Event("SCAN", "none", ok))
       PROVE  \E e \in EventsWhen(own) : Reported(n, e)
  <2>1. Event("SCAN", "none", ok) \in EventsWhen(own) /\ Event("SCAN", "none", ok).ev = "SCAN"
    BY <1>4, <1>5
  <2>2. Reported(n, Event("SCAN", "none", ok))
    BY <1>2, <1>15, <2>1 DEF Reported, Send, Nwps
  <2> QED
    BY <2>1, <2>2
<1> QED
  BY <1>6, <1>7, <1>8, <1>9, <1>10, <1>11, <1>12, <1>13, <1>14, <1>15 DEF Reports

(* A disconnect of the firmware's own leaves the station idle. *)
LEMMA DisconnectIs ==
    ASSUME nwp \in Nwps, nwp.deauth \in CodesWhen(TRUE) \ {"temp"}, NEW n \in Disconnected
    PROVE  /\ n \in Nwps /\ n.sta = "idle" /\ n.deauth \in CodesWhen(TRUE) \ {"temp"}
           /\ n.ap = nwp.ap /\ n.denied = nwp.denied /\ n.joined = nwp.joined
<1>1. "leaveOwn" \in CodesWhen(TRUE) \ {"temp"} /\ "leaveOwn" \in Codes
  BY DEF CodesWhen, Codes, Leave
<1>2. \A c \in {"user", "leaveOwn"} : Event("DISCONNECT", c, FALSE) \in EventsWhen(TRUE)
  BY <1>1, EventsFit
<1>3. \A e \in EventsWhen(TRUE) : Append(nwp.q, e) \in Seq(EventsWhen(TRUE))
  BY Sent DEF Nwps
<1>4. CASE /\ nwp.sta # "idle"
           /\ n = Send([nwp EXCEPT !.sta = "idle", !.deauth = "leaveOwn", !.leaving = TRUE],
                       Event("DISCONNECT", "leaveOwn", FALSE))
  BY <1>1, <1>2, <1>3, <1>4 DEF Send, Nwps
<1>5. CASE nwp.sta = "idle" /\ n = nwp
  BY <1>5
<1>6. CASE /\ nwp.sta = "idle"
           /\ n = Send([nwp EXCEPT !.leaving = TRUE], Event("DISCONNECT", "user", FALSE))
  BY <1>2, <1>3, <1>6 DEF Send, Nwps
<1> QED
  BY <1>4, <1>5, <1>6 DEF Disconnected

(* Starting the radio and bringing the station role up only adds to what   *)
(* there is, and the role needs the radio.                                 *)
LEMMA RadioIs ==
    ASSUME radio \in Radios, radio.sta => radio.started, NEW r \in RoleUp \cup Started
    PROVE  /\ r \in Radios /\ r.own = radio.own
           /\ (radio.started => r.started) /\ (radio.sta => r.sta) /\ (r.sta => r.started)
<1>1. \A x \in Started : /\ x \in Radios /\ x.own = radio.own /\ x.sta = radio.sta
                        /\ (radio.started => x.started)
  BY DEF Started, Radios
<1>2. CASE r \in Started
  BY <1>1, <1>2
<1>3. CASE r \in RoleUp
  <2>1. PICK x \in Started : r \in IF x.started /\ ~x.sta THEN {x, [x EXCEPT !.sta = TRUE]} ELSE {x}
    BY <1>3 DEF RoleUp
  <2> QED
    BY <1>1, <2>1 DEF Radios
<1> QED
  BY <1>2, <1>3

(* What a step of the task keeps: the job, the decision, the retry. *)
SameJob(t, u) == u.job = t.job /\ u.quiet = t.quiet
SameVerdict(t, u) == u.fail = t.fail /\ u.code = t.code /\ u.clean = t.clean
SameRetry(t, u) == u.retried = t.retried /\ u.first = t.first

Moved(t, u, pc) ==
    u \in Tasks /\ u.pc = pc /\ SameJob(t, u) /\ SameVerdict(t, u) /\ SameRetry(t, u)
                /\ u.target = t.target

(* A step to another place. *)
LEMMA GotoIs ==
    ASSUME NEW t \in Tasks, NEW pc \in Places
    PROVE  Moved(t, [t EXCEPT !.pc = pc], pc)
BY DEF Tasks, Moved, SameJob, SameVerdict, SameRetry

(* A step to another place that takes time. *)
LEMMA SpentIs ==
    ASSUME NEW t \in Tasks, NEW pc \in Places, NEW n \in Nat
    PROVE  Moved(t, [t EXCEPT !.pc = pc, !.spent = n], pc)
BY DEF Tasks, Moved, SameJob, SameVerdict, SameRetry

(* The steps of a pass that decide nothing. *)
LEMMA PassMoves ==
    ASSUME IInv,
           \/ PassClearSync \/ PassClearStatus \/ PassClearTag \/ WaitSignalled
           \/ WaitUnstarted \/ ReadStatus \/ VerdictRetry \/ RetrySettle
    PROVE  IInv'
<1>1. task \in Tasks /\ Passing \subseteq Places /\ task.spent \in Nat
  BY DEF IInv, TypeInv, Places, Tasks
<1>2. /\ UNCHANGED <<conn, radio, ap, left, torn, nwp>>
      /\ tag' = tag \/ (tag' = NoTag /\ task.pc = "clear3")
  BY DEF PassClearSync, PassClearStatus, PassClearTag, WaitSignalled, WaitUnstarted, ReadStatus,
         VerdictRetry, RetrySettle, At
<1>3. seen' \in [ok : BOOLEAN, sync : BOOLEAN]
  BY DEF PassClearSync, PassClearStatus, PassClearTag, WaitSignalled, WaitUnstarted, ReadStatus,
         VerdictRetry, RetrySettle, IInv, TypeInv
<1>4. \/ \E pc \in Passing :
            /\ Moved(task, task', pc)
            /\ <<task.pc, pc>> \in {<<"clear", "clear2">>, <<"clear2", "clear3">>,
                  <<"clear3", "kick">>, <<"wait", "status">>, <<"status", "dhcp">>,
                  <<"status", "verdict">>, <<"settle", "delay">>}
            /\ task.pc = "clear3" => tag' = NoTag
      \/ /\ task' \in Tasks /\ task.pc = "verdict" /\ task'.pc = "cleanup" /\ tag' = tag
         /\ SameJob(task, task') /\ SameVerdict(task, task') /\ task'.target = task.target
         /\ ~task.retried /\ task'.retried /\ task'.first = tag /\ tag.code = "temp"
  <2> USE DEF At, Goto
  <2>0. \A pc \in {"clear2", "clear3", "kick", "status", "dhcp", "verdict", "delay", "cleanup"} :
           pc \in Passing /\ pc \in Places
    BY DEF Passing, Places
  <2>1. CASE PassClearSync \/ PassClearStatus \/ PassClearTag
    BY <2>0, <2>1, <1>1, GotoIs DEF PassClearSync, PassClearStatus, PassClearTag
  <2>2. CASE WaitSignalled
    <3>1. PICK n \in IF task.retried THEN {0} ELSE Wakes : task' = [task EXCEPT !.pc = "status", !.spent = n]
      BY <2>2 DEF WaitSignalled
    <3>2. n \in Nat
      BY WifiAssumption DEF AssocWait
    <3>3. Moved(task, task', "status")
      BY <2>0, <1>1, <3>1, <3>2, SpentIs
    <3> QED
      BY <2>0, <2>2, <3>3 DEF WaitSignalled
  <2>3. CASE WaitUnstarted
    BY <2>0, <2>3, <1>1, SpentIs DEF WaitUnstarted
  <2>4. CASE ReadStatus
    BY <2>0, <2>4, <1>1, GotoIs, SpentIs DEF ReadStatus
  <2>5. CASE RetrySettle
    <3> DEFINE n == task.spent + IF seen.sync THEN 0 ELSE DisconnectWait
    <3>1. n \in Nat /\ task' = [task EXCEPT !.pc = "delay", !.spent = n]
      BY <2>5, <1>1 DEF RetrySettle, DisconnectWait
    <3> HIDE DEF n
    <3>2. Moved(task, task', "delay")
      BY <2>0, <1>1, <3>1, SpentIs
    <3> QED
      BY <2>0, <2>5, <3>2 DEF RetrySettle
  <2>6. CASE VerdictRetry
    <3>1. /\ task' = [task EXCEPT !.pc = "cleanup", !.retried = TRUE, !.first = tag]
          /\ task.pc = "verdict" /\ ~task.retried /\ tag.code = "temp" /\ tag' = tag
      BY <2>6 DEF VerdictRetry, RetryEligible
    <3>2. tag \in TagsWhen(TRUE)
      BY OwnAdds DEF IInv, CodeInv, TypeInv, Radios
    <3> QED
      BY <2>0, <1>1, <3>1, <3>2 DEF Tasks, SameJob, SameVerdict
  <2> QED
    BY <2>1, <2>2, <2>3, <2>4, <2>5, <2>6
<1>5. TypeInv'
  BY <1>2, <1>3, <1>4 DEF Moved, IInv, TypeInv
<1>6. CodeInv'
  BY <1>2, <1>4 DEF Moved, SameVerdict, SameRetry, IInv, CodeInv, TagsWhen, NoTag, CodesWhen, Codes
<1>7. ControlInv'
  BY <1>2, <1>4 DEF Moved, SameJob, IInv, ControlInv, Passing, Failing
<1>8. StatusInv'
  BY <1>2, <1>4 DEF IInv, StatusInv, StatusWhole, handle_wifi_status, Passing, Failing, Moved, At
<1>9. JoinInv'
  BY <1>2, <1>4 DEF IInv, JoinInv, ConnectedJoined, Moved, At
<1>10. TornInv' /\ ApInv'
  BY <1>2, <1>4 DEF IInv, TornInv, ApInv, Moved, SameJob
<1>11. RetryInv'
  BY <1>2, <1>4 DEF IInv, RetryInv, Moved, SameVerdict, SameRetry, Failing
<1>12. DenyInv'
  BY <1>2, <1>4 DEF IInv, DenyInv, Moved, SameJob, SameRetry, Passing, NoTag
<1> QED
  BY <1>5, <1>6, <1>7, <1>8, <1>9, <1>10, <1>11, <1>12 DEF IInv

(* A pass that has failed: a cause and a code, and after a retry those of  *)
(* the AP's refusal.                                                       *)
Refused(t, u) ==
    /\ u \in Tasks /\ u.pc = "fail" /\ SameJob(t, u) /\ SameRetry(t, u) /\ u.target = t.target
    /\ u.fail # "NONE" /\ u.code \in CodesWhen(radio.own)
    /\ u.clean /\ u.retried => u.fail = "REJECTED" /\ u.code \in {"temp", "real"}

(* Setting the cause and the code of a failure refuses the pass. *)
LEMMA FailedIs ==
    ASSUME task \in Tasks, NEW f \in Fails \ {"NONE"}, NEW c \in CodesWhen(radio.own), Failed(f, c),
           task.retried => f = "REJECTED" /\ c \in {"temp", "real"}
    PROVE  Refused(task, task')
<1>1. c \in Codes /\ "fail" \in Places /\ f \in Fails
  BY DEF CodesWhen, Places, Failing
<1>2. task' = [task EXCEPT !.pc = "fail", !.clean = TRUE, !.fail = f, !.code = c, !.spent = 0]
  BY DEF Failed
<1>3. task' \in Tasks
  BY <1>1, <1>2 DEF Tasks
<1>4. SameJob(task, task') /\ SameRetry(task, task') /\ task'.target = task.target
  BY <1>2 DEF Tasks, SameJob, SameRetry
<1>5. task'.pc = "fail" /\ task'.fail = f /\ task'.code = c /\ task'.retried = task.retried
  BY <1>2 DEF Tasks
<1> QED
  BY <1>3, <1>4, <1>5 DEF Refused

(* A connect that comes to fail keeps the invariant. *)
LEMMA RefusedKeeps ==
    ASSUME IInv, task.job = "connect", task.pc \in {"queued", "kick", "wait", "verdict", "dhcp"},
           Refused(task, task'), UNCHANGED <<conn, tag, seen, ap, left, nwp>>,
           radio' \in Radios, radio'.own = radio.own, radio'.sta => radio'.started,
           torn' \in BOOLEAN, torn' => torn
    PROVE  IInv'
<1>1. TypeInv'
  BY DEF Refused, IInv, TypeInv
<1>2. CodeInv'
  BY DEF Refused, SameRetry, IInv, CodeInv
<1>3. ControlInv'
  BY DEF Refused, SameJob, IInv, ControlInv, Passing, Failing
<1>4. StatusInv'
  BY DEF Refused, IInv, StatusInv, StatusWhole, handle_wifi_status, Failing, At
<1>5. JoinInv'
  BY DEF Refused, IInv, JoinInv, ConnectedJoined
<1>6. TornInv' /\ ApInv'
  BY DEF Refused, SameJob, IInv, TornInv, ApInv
<1>7. RetryInv'
  BY DEF Refused, SameRetry, SameJob, IInv, RetryInv, Failing
<1>8. DenyInv'
  BY DEF Refused, IInv, DenyInv, Passing
<1> QED
  BY <1>1, <1>2, <1>3, <1>4, <1>5, <1>6, <1>7, <1>8 DEF IInv

(* The ways a pass fails. *)
LEMMA PassFails ==
    ASSUME IInv,
           \/ WaitTimesOut \/ VerdictFail
           \/ At("kick") /\ FirstOr("KICK", "none")
              /\ UNCHANGED <<conn, tag, seen, radio, ap, left, torn, nwp>>
           \/ At("dhcp") /\ task' = [task EXCEPT !.pc = "fail", !.fail = "TIMEOUT", !.code = tag.code]
              /\ UNCHANGED <<conn, tag, seen, radio, ap, left, torn, nwp>>
    PROVE  IInv'
<1>1. /\ task \in Tasks /\ radio \in Radios /\ torn \in BOOLEAN /\ radio.own \in BOOLEAN
      /\ task.pc \in {"wait", "verdict", "kick", "dhcp"} => task.job = "connect"
      /\ radio.sta => radio.started
  BY DEF IInv, TypeInv, Radios, ControlInv, Passing, DenyInv
<1>2. /\ task.retried => task.first.code = "temp"
      /\ task.pc \in {"wait", "verdict", "kick", "dhcp"} => ~task.clean
  BY DEF IInv, RetryInv, Failing
<1>3. /\ tag.code \in CodesWhen(radio.own) /\ tag.code # "user"
      /\ task.first.code \in CodesWhen(radio.own) /\ "none" \in CodesWhen(radio.own)
  BY DEF IInv, CodeInv, TagsWhen, CodesWhen, Codes
<1>4. {"KICK", "REJECTED", "TIMEOUT"} \subseteq Fails \ {"NONE"}
  BY DEF Fails
<1>5. Refused(task, task')
  <2>1. ASSUME NEW f \in Fails \ {"NONE"}, NEW c \in CodesWhen(radio.own), FirstOr(f, c)
        PROVE  Refused(task, task')
    BY <2>1, <1>1, <1>2, <1>3, <1>4, FailedIs DEF FirstOr
  <2>2. CASE WaitTimesOut
    BY <2>1, <2>2, <1>3, <1>4 DEF WaitTimesOut
  <2>3. CASE VerdictFail
    <3>1. CASE task.retried /\ wifi_retry_should_restore_first_pass(tag.code)
      BY <2>3, <3>1, <1>1, <1>2, <1>3, <1>4, FailedIs DEF VerdictFail
    <3>2. CASE ~(task.retried /\ wifi_retry_should_restore_first_pass(tag.code))
      <4>1. task.retried => tag.code \in {"temp", "real"}
        BY <3>2, <1>3 DEF wifi_retry_should_restore_first_pass, CodesWhen, Codes
      <4> QED
        BY <2>3, <3>2, <4>1, <1>1, <1>3, <1>4, FailedIs DEF VerdictFail
    <3> QED
      BY <3>1, <3>2
  <2>4. CASE At("kick") /\ FirstOr("KICK", "none")
    BY <2>1, <2>4, <1>3, <1>4
  <2>5. CASE At("dhcp") /\ task' = [task EXCEPT !.pc = "fail", !.fail = "TIMEOUT", !.code = tag.code]
    <3>1. tag.code \in Codes /\ "fail" \in Places /\ "TIMEOUT" \in Fails
      BY <1>3 DEF CodesWhen, Places, Failing, Fails
    <3> QED
      BY <2>5, <3>1, <1>1, <1>2, <1>3 DEF Tasks, Refused, SameJob, SameRetry, At
  <2> QED
    BY <2>2, <2>3, <2>4, <2>5
<1>6. task.pc \in {"wait", "verdict", "kick", "dhcp"}
  BY DEF WaitTimesOut, VerdictFail, At
<1>7. UNCHANGED <<conn, tag, seen, radio, ap, left, torn, nwp>>
  BY DEF WaitTimesOut, VerdictFail
<1> QED
  BY <1>1, <1>5, <1>6, <1>7, RefusedKeeps

(* The NWP takes the connect: a new association, and perhaps a deaf slave. *)
LEMMA KickKeeps ==
    ASSUME IInv, At("kick"), Goto("wait"), torn' \in {torn, TRUE},
           nwp' = [nwp EXCEPT !.sta = "joining", !.joined = FALSE],
           UNCHANGED <<conn, tag, seen, radio, ap, left>>
    PROVE  IInv'
<1>1. Moved(task, task', "wait")
  BY GotoIs DEF Goto, IInv, TypeInv, Places, Passing
<1>2. /\ nwp' \in Nwps /\ nwp'.sta = "joining" /\ nwp'.q = nwp.q /\ nwp'.deauth = nwp.deauth
      /\ nwp'.ap = nwp.ap /\ nwp'.denied = nwp.denied
  BY DEF IInv, TypeInv, Nwps
<1>3. task.job = "connect" /\ conn.state = "CONNECTING"
  BY DEF At, IInv, ControlInv, Passing, ConnectJobs
<1>4. ScanEvents \subseteq NoComeback
  BY DEF ScanEvents, NoComeback
<1>5. nwp.q \in Seq(ScanEvents) => nwp.q \in Seq(NoComeback)
  BY <1>4, SeqOfMore
<1>6. TypeInv'
  BY <1>1, <1>2 DEF Moved, IInv, TypeInv
<1>7. CodeInv'
  BY <1>1, <1>2 DEF Moved, SameRetry, SameVerdict, IInv, CodeInv
<1>8. ControlInv' /\ StatusInv'
  BY <1>1, <1>3 DEF Moved, SameJob, IInv, ControlInv, Passing, Failing, StatusInv, StatusWhole,
                    handle_wifi_status, At
<1>9. JoinInv' /\ ApInv'
  BY <1>1, <1>2, <1>3 DEF Moved, IInv, JoinInv, ConnectedJoined, ApInv
<1>10. TornInv'
  BY <1>1, <1>3 DEF Moved, SameJob, IInv, TornInv, At
<1>11. RetryInv'
  BY <1>1 DEF Moved, SameRetry, SameVerdict, SameJob, IInv, RetryInv, Failing, At
<1>12. DenyInv'
  BY <1>1, <1>2, <1>5 DEF Moved, SameJob, SameRetry, IInv, DenyInv, Passing, At, NoTag
<1> QED
  BY <1>6, <1>7, <1>8, <1>9, <1>10, <1>11, <1>12 DEF IInv

(* An address: the station is up, so this attempt has associated. *)
LEMMA WonKeeps ==
    ASSUME IInv, At("dhcp"), nwp.sta = "joined", Goto("won"),
           UNCHANGED <<conn, tag, seen, radio, ap, left, torn, nwp>>
    PROVE  IInv'
<1>1. Moved(task, task', "won")
  BY GotoIs DEF Goto, IInv, TypeInv, Places, Passing
<1>2. TypeInv' /\ CodeInv'
  BY <1>1 DEF Moved, SameRetry, SameVerdict, IInv, TypeInv, CodeInv
<1>3. ControlInv' /\ StatusInv'
  BY <1>1 DEF Moved, SameJob, IInv, ControlInv, Passing, Failing, StatusInv, StatusWhole,
                    handle_wifi_status, At
<1>4. JoinInv' /\ ApInv' /\ TornInv'
  BY <1>1 DEF Moved, SameJob, IInv, JoinInv, ConnectedJoined, ApInv, TornInv, At
<1>5. RetryInv'
  BY <1>1 DEF Moved, SameRetry, SameVerdict, SameJob, IInv, RetryInv, Failing, At
<1>6. DenyInv'
  BY <1>1 DEF Moved, SameJob, SameRetry, IInv, DenyInv, Passing, At
<1> QED
  BY <1>2, <1>3, <1>4, <1>5, <1>6 DEF IInv

(* The sleep before the retry outlasts a deny list of the first pass. *)
LEMMA DelayKeeps == ASSUME IInv, RetryDelay PROVE IInv'
<1> DEFINE delay == wifi_retry_delay_ms(task.first.ev)
<1>0. delay \in Nat /\ (task.first.ev # "ASSOC" => ~(delay < DenylistDelay))
  BY DEF wifi_retry_delay_ms, ComebackDelay, DenylistDelay
<1>1. /\ task.pc = "delay" /\ nwp' = [nwp EXCEPT !.denied = @ /\ delay < DenylistDelay]
      /\ task' = [task EXCEPT !.pc = "clear", !.spent = task.spent + delay]
      /\ UNCHANGED <<conn, tag, seen, radio, ap, left, torn>>
  BY DEF RetryDelay, At
<1> HIDE DEF delay
<1>a. task.spent \in Nat /\ task \in Tasks /\ "clear" \in Places
  BY DEF IInv, TypeInv, Tasks, Places, Passing
<1>2. task.spent + delay \in Nat
  BY <1>0, <1>a
<1>3. Moved(task, task', "clear")
  BY <1>1, <1>2, <1>a, SpentIs
<1>4. (nwp.denied /\ delay < DenylistDelay) \in BOOLEAN
  OBVIOUS
<1>5. /\ nwp' \in Nwps /\ nwp'.sta = nwp.sta /\ nwp'.q = nwp.q /\ nwp'.deauth = nwp.deauth
      /\ nwp'.ap = nwp.ap /\ nwp'.joined = nwp.joined
      /\ nwp'.denied = (nwp.denied /\ delay < DenylistDelay)
  BY <1>1, <1>4 DEF IInv, TypeInv, Nwps
<1>6. TypeInv'
  BY <1>1, <1>3, <1>5 DEF Moved, IInv, TypeInv
<1>7. CodeInv'
  BY <1>1, <1>3, <1>5 DEF Moved, SameRetry, SameVerdict, IInv, CodeInv
<1>8. ControlInv' /\ StatusInv'
  BY <1>1, <1>3 DEF Moved, SameJob, IInv, ControlInv, Passing, Failing, StatusInv, StatusWhole,
                    handle_wifi_status, At
<1>9. JoinInv' /\ ApInv' /\ TornInv'
  BY <1>1, <1>3, <1>5 DEF Moved, SameJob, IInv, JoinInv, ConnectedJoined, ApInv, TornInv
<1>10. RetryInv'
  BY <1>1, <1>3 DEF Moved, SameRetry, SameVerdict, SameJob, IInv, RetryInv, Failing
<1>11. DenyInv'
  BY <1>0, <1>1, <1>3, <1>5 DEF Moved, SameJob, SameRetry, IInv, DenyInv, RetryInv, Passing
<1> QED
  BY <1>6, <1>7, <1>8, <1>9, <1>10, <1>11 DEF IInv

(* The firmware's own disconnects: before the retry, after a failed        *)
(* connect, for the host.                                                  *)
LEMMA OwnDisconnects ==
    ASSUME IInv, RetryCleanup \/ FailClean \/ cc3501e_hw_wifi_disconnect
    PROVE  IInv'
<1>0. /\ task \in Tasks /\ nwp \in Nwps /\ radio \in Radios /\ radio.own \in BOOLEAN
      /\ radio.started \in BOOLEAN
      /\ {"settle", "drain", "disconnected"} \subseteq Places
  BY DEF IInv, TypeInv, Radios, Places, Passing
<1>1. UNCHANGED <<conn, tag, seen, ap, left, torn>>
  BY DEF RetryCleanup, FailClean, cc3501e_hw_wifi_disconnect
<1>2. \E pc \in {"settle", "drain", "disconnected"} :
         /\ Moved(task, task', pc)
         /\ \/ task.pc = "cleanup" /\ pc = "settle"
            \/ task.pc = "clean" /\ pc = "drain"
            \/ task.pc = "queued" /\ task.job = "disconnect" /\ pc # "settle"
  BY <1>0, GotoIs DEF RetryCleanup, FailClean, cc3501e_hw_wifi_disconnect, Goto, At, Run
<1>3. /\ tag \in TagsWhen(TRUE) /\ task.first \in TagsWhen(TRUE) /\ task.code \in CodesWhen(TRUE)
      /\ nwp.deauth \in CodesWhen(TRUE) \ {"temp"}
  BY <1>0, OwnAdds DEF IInv, CodeInv
<1>4. \/ ~radio.started /\ nwp' = nwp /\ radio' = radio
      \/ radio.started /\ nwp' \in Disconnected /\ radio' = [radio EXCEPT !.own = TRUE]
  BY DEF RetryCleanup, FailClean, cc3501e_hw_wifi_disconnect, wifi_clear_stale_assoc
<1>5. /\ nwp' \in Nwps /\ nwp'.ap = nwp.ap /\ nwp'.denied = nwp.denied /\ nwp'.joined = nwp.joined
      /\ nwp'.sta \in {"idle", nwp.sta} /\ (radio.started => nwp'.sta = "idle")
      /\ nwp'.deauth \in CodesWhen(TRUE) \ {"temp"}
  BY <1>0, <1>3, <1>4, DisconnectIs
<1>6. /\ radio' \in Radios /\ radio'.sta = radio.sta /\ radio'.started = radio.started
      /\ \/ radio'.own = TRUE
         \/ radio' = radio /\ nwp' = nwp
  BY <1>0, <1>4 DEF Radios
<1>7. TypeInv'
  BY <1>1, <1>2, <1>5, <1>6 DEF Moved, IInv, TypeInv
<1>8. CodeInv'
  BY <1>1, <1>2, <1>3, <1>5, <1>6 DEF Moved, SameRetry, SameVerdict, IInv, CodeInv, Nwps
<1>9. ControlInv' /\ StatusInv'
  BY <1>1, <1>2 DEF Moved, SameJob, IInv, ControlInv, Passing, Failing, StatusInv, StatusWhole,
                    handle_wifi_status, At, ConnectJobs
<1>10. JoinInv' /\ ApInv'
  BY <1>1, <1>2, <1>5 DEF Moved, IInv, JoinInv, ConnectedJoined, ApInv
<1>11. TornInv'
  BY <1>1, <1>2 DEF Moved, SameJob, IInv, TornInv
<1>12. RetryInv'
  BY <1>1, <1>2 DEF Moved, SameRetry, SameVerdict, SameJob, IInv, RetryInv, Failing
<1>13. DenyInv'
  BY <1>1, <1>2, <1>5, <1>6 DEF Moved, SameJob, SameRetry, IInv, DenyInv, RetryInv, Passing
<1> QED
  BY <1>7, <1>8, <1>9, <1>10, <1>11, <1>12, <1>13 DEF IInv

(* The flags a connect leaves for the drain. *)
LEMMA FlagsKeep == ASSUME IInv, WonReinit \/ wifi_connect_fail_mark_skip PROVE IInv'
<1>0. task \in Tasks /\ left \in Flags /\ {"connected", "publish"} \subseteq Places
  BY DEF IInv, TypeInv, Places, Passing, Failing
<1>1. UNCHANGED <<conn, tag, seen, radio, ap, nwp>>
  BY DEF WonReinit, wifi_connect_fail_mark_skip
<1>2. \/ /\ task.pc = "won" /\ Moved(task, task', "connected") /\ torn' = FALSE
         /\ left' \in Flags /\ left'.skip = left.skip /\ left'.skipOk = left.skipOk
      \/ /\ task.pc = "fail" /\ Moved(task, task', "publish") /\ torn' = torn
         /\ left' \in Flags /\ left'.reinit = left.reinit /\ (left'.skipOk => ~torn)
  <2>1. CASE WonReinit
    BY <2>1, <1>0, GotoIs DEF WonReinit, Goto, At, Flags
  <2>2. CASE wifi_connect_fail_mark_skip
    <3>1. PICK f \in BOOLEAN : (f => ~torn) /\ left' = [left EXCEPT !.skip = TRUE, !.skipOk = f]
      BY <2>2 DEF wifi_connect_fail_mark_skip
    <3>2. left' \in Flags /\ left'.reinit = left.reinit /\ left'.skipOk = f
      BY <1>0, <3>1 DEF Flags
    <3> QED
      BY <2>2, <3>1, <3>2, <1>0, GotoIs DEF wifi_connect_fail_mark_skip, Goto, At
  <2> QED
    BY <2>1, <2>2
<1>3. TypeInv' /\ CodeInv'
  BY <1>1, <1>2 DEF Moved, SameRetry, SameVerdict, IInv, TypeInv, CodeInv
<1>4. ControlInv' /\ StatusInv'
  BY <1>1, <1>2 DEF Moved, SameJob, SameVerdict, IInv, ControlInv, Passing, Failing, StatusInv,
                    StatusWhole, handle_wifi_status, At
<1>5. JoinInv' /\ ApInv'
  BY <1>1, <1>2 DEF Moved, IInv, JoinInv, ConnectedJoined, ApInv
<1>6. TornInv'
  BY <1>1, <1>2 DEF Moved, SameJob, IInv, TornInv, ControlInv, Passing, Failing
<1>7. RetryInv'
  BY <1>1, <1>2 DEF Moved, SameRetry, SameVerdict, SameJob, IInv, RetryInv, Failing
<1>8. DenyInv'
  BY <1>1, <1>2 DEF Moved, SameJob, SameRetry, IInv, DenyInv, Passing
<1> QED
  BY <1>3, <1>4, <1>5, <1>6, <1>7, <1>8 DEF IInv

(* The detail a job writes into the latch. *)
LEMMA DetailIs ==
    ASSUME task \in Tasks, conn \in Conns, radio.own \in BOOLEAN,
           NEW st \in {"CONNECTED", "FAILED", "DISCONNECTED"}, NEW f \in Fails,
           NEW c \in CodesWhen(radio.own), ConnDetail(st, f, c)
    PROVE  /\ conn' \in Conns /\ conn'.state = conn.state /\ conn'.fail = f
           /\ st = "CONNECTED" \/ c = "none" => conn'.reason = "none"
           /\ st # "CONNECTED" /\ c \notin Leave => conn'.reason = c
           /\ tag' = tag \/ tag' = NoTag
           /\ task' \in Tasks /\ task'.pc = "state" /\ task'.target = st
           /\ SameJob(task, task') /\ SameVerdict(task, task') /\ SameRetry(task, task')
<1> DEFINE r == IF st = "CONNECTED" THEN "none" ELSE wifi_retry_sanitize_reason(c, radio.own)
<1>1. /\ r \in Codes \ {"leaveOwn"} /\ (st = "CONNECTED" \/ c = "none" => r = "none")
      /\ (st # "CONNECTED" /\ c \notin Leave => r = c)
  BY DEF wifi_retry_sanitize_reason, CodesWhen, Codes, Leave
<1>2. conn' = [conn EXCEPT !.fail = f, !.reason = r]
  BY DEF ConnDetail
<1> HIDE DEF r
<1>3. /\ conn' \in Conns /\ conn'.state = conn.state /\ conn'.fail = f /\ conn'.reason = r
  BY <1>1, <1>2 DEF Conns
<1>4. tag' = tag \/ tag' = NoTag
  BY DEF ConnDetail
<1>5. st \in States \cup {"none"} /\ "state" \in Places
  BY DEF States, Places
<1>6. task' = [task EXCEPT !.pc = "state", !.target = st]
  BY DEF ConnDetail
<1>7. /\ task' \in Tasks /\ task'.pc = "state" /\ task'.target = st
      /\ SameJob(task, task') /\ SameVerdict(task, task') /\ SameRetry(task, task')
  BY <1>5, <1>6 DEF Tasks, SameJob, SameVerdict, SameRetry
<1> QED
  BY <1>1, <1>3, <1>4, <1>7

(* A job writes the detail of its result. *)
LEMMA PublishKeeps ==
    ASSUME IInv, ConnectBad \/ WonPublish \/ FailPublish \/ DisconnectPublish
    PROVE  IInv'
<1>0. /\ task \in Tasks /\ conn \in Conns /\ radio.own \in BOOLEAN
      /\ task.fail \in Fails /\ {"NONE", "KICK"} \subseteq Fails
      /\ task.code \in CodesWhen(radio.own) /\ conn.reason \in CodesWhen(radio.own)
      /\ "none" \in CodesWhen(radio.own)
  BY DEF IInv, TypeInv, Radios, Conns, Tasks, Fails, CodeInv, CodesWhen, Codes
<1>1. UNCHANGED <<seen, radio, ap, left, torn, nwp>>
  BY DEF ConnectBad, WonPublish, FailPublish, DisconnectPublish
<1>2. /\ conn' \in Conns /\ conn'.state = conn.state /\ (tag' = tag \/ tag' = NoTag)
      /\ task' \in Tasks /\ task'.pc = "state"
      /\ SameJob(task, task') /\ SameVerdict(task, task') /\ SameRetry(task, task')
      /\ \/ /\ task.pc = "queued" /\ task.job = "connect_bad"
            /\ task'.target = "FAILED" /\ conn'.fail = "KICK"
         \/ /\ task.pc = "connected"
            /\ task'.target = "CONNECTED" /\ conn'.fail = "NONE" /\ conn'.reason = "none"
         \/ /\ task.pc = "publish" /\ task'.target = "FAILED" /\ conn'.fail = task.fail
         \/ /\ task.pc = "disconnected" /\ task'.target = "DISCONNECTED" /\ conn'.fail = "NONE"
            /\ conn.reason = "none" => conn'.reason = "none"
  <2>1. CASE ConnectBad
    BY <2>1, <1>0, DetailIs DEF ConnectBad, Run, At
  <2>2. CASE WonPublish
    BY <2>2, <1>0, DetailIs DEF WonPublish, At
  <2>3. CASE FailPublish
    BY <2>3, <1>0, DetailIs DEF FailPublish, At
  <2>4. CASE DisconnectPublish
    BY <2>4, <1>0, DetailIs DEF DisconnectPublish, At
  <2> QED
    BY <2>1, <2>2, <2>3, <2>4
<1>3. /\ task.pc \in {"connected", "publish"} => task.job = "connect"
      /\ task.pc = "disconnected" => task.job = "disconnect"
      /\ task.pc \in {"queued", "connected", "publish"} /\ task.job \in ConnectJobs
            => conn.state = "CONNECTING"
  BY DEF IInv, ControlInv, Passing, Failing
<1>4. TypeInv'
  BY <1>1, <1>2 DEF IInv, TypeInv
<1>5. CodeInv'
  BY <1>1, <1>2 DEF SameRetry, SameVerdict, IInv, CodeInv, TagsWhen, NoTag, CodesWhen, Codes
<1>6. ControlInv'
  BY <1>1, <1>2, <1>3 DEF SameJob, ControlInv, Passing, Failing, ConnectJobs
<1>7. StatusInv'
  BY <1>1, <1>2, <1>3 DEF SameJob, SameVerdict, IInv, Failing, StatusInv, StatusWhole,
                          handle_wifi_status, At, ConnectJobs
<1>8. JoinInv' /\ ApInv'
  BY <1>1, <1>2 DEF IInv, JoinInv, ConnectedJoined, ApInv
<1>9. TornInv'
  BY <1>1, <1>2, <1>3 DEF SameJob, IInv, TornInv
<1>10. RetryInv'
  BY <1>1, <1>2 DEF SameRetry, SameVerdict, SameJob, IInv, RetryInv, Failing
<1>11. DenyInv'
  BY <1>1, <1>2 DEF IInv, DenyInv, Passing
<1> QED
  BY <1>4, <1>5, <1>6, <1>7, <1>8, <1>9, <1>10, <1>11 DEF IInv

(* ... and then the state. *)
LEMMA StateKeeps == ASSUME IInv, ConnState PROVE IInv'
<1>0. /\ task \in Tasks /\ conn \in Conns /\ {"clean", "drain"} \subseteq Places
      /\ task.pc = "state" /\ task.target \in {"CONNECTED", "FAILED", "DISCONNECTED"}
  BY DEF IInv, TypeInv, Places, ConnState, StatusInv
<1>1. UNCHANGED <<tag, seen, radio, ap, left, torn, nwp>>
  BY DEF ConnState
<1>2. Moved(task, task', IF task.clean THEN "clean" ELSE "drain")
  BY <1>0, GotoIs DEF ConnState
<1>3. /\ conn' \in Conns /\ conn'.state = task.target /\ conn'.fail = conn.fail
      /\ conn'.reason = conn.reason
  BY <1>0 DEF ConnState, Conns, States
<1>a. task.clean => task.job = "connect"
  BY DEF IInv, RetryInv
<1>4. TypeInv' /\ CodeInv'
  BY <1>1, <1>2, <1>3 DEF Moved, SameRetry, SameVerdict, IInv, TypeInv, CodeInv
<1>5. ControlInv'
  BY <1>0, <1>1, <1>2, <1>3, <1>a DEF Moved, SameJob, IInv, ControlInv, Passing, Failing
<1>6. StatusInv'
  BY <1>0, <1>1, <1>2, <1>3 DEF Moved, SameVerdict, IInv, Failing, StatusInv, StatusWhole,
                          handle_wifi_status, At
<1>7. JoinInv' /\ ApInv'
  BY <1>0, <1>1, <1>2, <1>3 DEF Moved, IInv, JoinInv, ConnectedJoined, ApInv
<1>8. TornInv'
  BY <1>0, <1>1, <1>2 DEF Moved, SameJob, IInv, TornInv
<1>9. RetryInv'
  BY <1>0, <1>1, <1>2 DEF Moved, SameRetry, SameVerdict, SameJob, IInv, RetryInv, Failing
<1>10. DenyInv'
  BY <1>0, <1>1, <1>2 DEF Moved, IInv, DenyInv, Passing
<1> QED
  BY <1>4, <1>5, <1>6, <1>7, <1>8, <1>9, <1>10 DEF IInv

(* A connect begins; an attempt is quiet only when the NWP is.             *)
LEMMA RoleKeeps == ASSUME IInv, ConnectRole PROVE IInv'
<1>0. /\ task \in Tasks /\ radio \in Radios /\ torn \in BOOLEAN /\ radio.own \in BOOLEAN
      /\ task.pc = "queued" /\ task.job = "connect" /\ ~torn /\ ~task.clean
      /\ (radio.sta => radio.started) /\ "clear" \in Places
  BY DEF IInv, TypeInv, Radios, ConnectRole, Run, At, TornInv, RetryInv, Failing, DenyInv, Places,
         Passing
<1>1. UNCHANGED <<conn, tag, seen, ap, left, nwp>> /\ torn' = FALSE
  BY <1>0 DEF ConnectRole
<1>2. radio' \in Radios /\ radio'.own = radio.own /\ (radio'.sta => radio'.started)
  BY <1>0, RadioIs DEF ConnectRole
<1>3. CASE ~radio'.sta
  <2>1. task' = [task EXCEPT !.pc = "fail", !.fail = "KICK", !.code = "none"]
    BY <1>3 DEF ConnectRole
  <2>2. "fail" \in Places /\ "KICK" \in Fails /\ "none" \in Codes /\ "none" \in CodesWhen(radio.own)
    BY DEF Places, Failing, Fails, CodesWhen, Codes
  <2>3. Refused(task, task')
    BY <2>1, <2>2, <1>0 DEF Tasks, Refused, SameJob, SameRetry
  <2> QED
    BY <1>0, <1>1, <1>2, <2>3, RefusedKeeps
<1>4. CASE radio'.sta
  <2> DEFINE quiet == (nwp.q = <<>> /\ nwp.sta = "idle")
  <2>1. quiet \in BOOLEAN /\ task' = [task EXCEPT !.pc = "clear", !.quiet = quiet]
    BY <1>4 DEF ConnectRole
  <2>2. quiet => nwp.q \in Seq(ScanEvents) /\ nwp.sta = "idle"
    OBVIOUS
  <2> HIDE DEF quiet
  <2>3. /\ task' \in Tasks /\ task'.pc = "clear" /\ task'.job = "connect" /\ task'.quiet = quiet
        /\ SameVerdict(task, task') /\ SameRetry(task, task') /\ task'.target = task.target
    BY <2>1, <1>0 DEF Tasks, SameVerdict, SameRetry
  <2>4. TypeInv' /\ CodeInv'
    BY <1>1, <1>2, <2>3 DEF SameRetry, SameVerdict, IInv, TypeInv, CodeInv
  <2>5. ControlInv' /\ StatusInv'
    BY <1>0, <1>1, <2>3 DEF IInv, ControlInv, Passing, Failing, ConnectJobs, StatusInv, StatusWhole,
                            handle_wifi_status, At
  <2>6. JoinInv' /\ ApInv' /\ TornInv'
    BY <1>0, <1>1, <2>3 DEF IInv, JoinInv, ConnectedJoined, ApInv, TornInv
  <2>7. RetryInv'
    BY <1>0, <2>3 DEF SameRetry, SameVerdict, IInv, RetryInv, Failing
  <2>8. ~task.retried
    BY <1>0 DEF IInv, RetryInv
  <2>9. DenyInv'
    BY <1>1, <1>2, <1>4, <2>2, <2>3, <2>8 DEF SameRetry, IInv, DenyInv, Passing
  <2> QED
    BY <2>4, <2>5, <2>6, <2>7, <2>9 DEF IInv
<1> QED
  BY <1>2, <1>3, <1>4 DEF Radios

(* The jobs that are not about an association. *)
LEMMA OtherJobsKeep ==
    ASSUME IInv,
           \/ ScanStart \/ ScanEnd \/ cc3501e_hw_wifi_ap_start \/ cc3501e_hw_wifi_ap_stop
           \/ cc3501e_hw_wifi_get_rssi
    PROVE  IInv'
<1>0. /\ task \in Tasks /\ radio \in Radios /\ nwp \in Nwps /\ left \in Flags
      /\ {"scanning", "drain"} \subseteq Places /\ (radio.sta => radio.started)
  BY DEF IInv, TypeInv, Places, DenyInv
<1>1. UNCHANGED <<conn, tag>>
  BY DEF ScanStart, ScanEnd, cc3501e_hw_wifi_ap_start, cc3501e_hw_wifi_ap_stop,
         cc3501e_hw_wifi_get_rssi
<1>2. \E pc \in {"scanning", "drain"} : Moved(task, task', pc) /\ (pc = "scanning" => task.job = "scan")
  BY <1>0, GotoIs DEF ScanStart, ScanEnd, cc3501e_hw_wifi_ap_start, cc3501e_hw_wifi_ap_stop,
         cc3501e_hw_wifi_get_rssi, Goto, Run
<1>3. /\ \/ task.pc = "queued" /\ task.job \in {"scan", "ap_start", "ap_stop", "rssi"}
         \/ task.pc = "scanning"
      /\ task.job = "rssi" /\ task.pc = "queued" => torn' = FALSE
  BY DEF ScanStart, ScanEnd, cc3501e_hw_wifi_ap_start, cc3501e_hw_wifi_ap_stop,
         cc3501e_hw_wifi_get_rssi, Run, At, IInv, TornInv
<1>4. radio' \in Radios /\ radio'.own = radio.own /\ (radio'.sta => radio'.started)
  BY <1>0, RadioIs DEF ScanStart, ScanEnd, cc3501e_hw_wifi_ap_start, cc3501e_hw_wifi_ap_stop,
         cc3501e_hw_wifi_get_rssi
<1>5. torn' \in BOOLEAN /\ seen' \in [ok : BOOLEAN, sync : BOOLEAN]
  BY DEF ScanStart, ScanEnd, cc3501e_hw_wifi_ap_start, cc3501e_hw_wifi_ap_stop,
         cc3501e_hw_wifi_get_rssi, IInv, TypeInv
<1>6. left' \in Flags /\ left'.reinit = left.reinit /\ left'.skip = left.skip
  BY <1>0 DEF ScanStart, ScanEnd, cc3501e_hw_wifi_ap_start, cc3501e_hw_wifi_ap_stop,
         cc3501e_hw_wifi_get_rssi, Flags, Radios
<1>7. /\ nwp' \in Nwps /\ nwp'.q = nwp.q /\ nwp'.deauth = nwp.deauth /\ nwp'.sta = nwp.sta
      /\ nwp'.joined = nwp.joined
  BY <1>0 DEF ScanStart, ScanEnd, cc3501e_hw_wifi_ap_start, cc3501e_hw_wifi_ap_stop,
         cc3501e_hw_wifi_get_rssi, Nwps
<1>8. ap' \in [pending : BOOLEAN, up : BOOLEAN] /\ ApInv'
  <2>1. CASE ScanStart \/ ScanEnd \/ cc3501e_hw_wifi_get_rssi
    BY <2>1, <1>0 DEF ScanStart, ScanEnd, cc3501e_hw_wifi_get_rssi, Nwps, IInv, TypeInv, ApInv
  <2>2. CASE cc3501e_hw_wifi_ap_start
    BY <2>2, <1>0 DEF cc3501e_hw_wifi_ap_start, ap_role_latch_started, Nwps, IInv, TypeInv, ApInv
  <2>3. CASE cc3501e_hw_wifi_ap_stop
    <3>1. CASE ap' = [pending |-> FALSE, up |-> FALSE]
      BY <3>1 DEF ApInv
    <3>2. CASE UNCHANGED <<nwp, ap>>
      BY <3>2 DEF IInv, TypeInv, ApInv
    <3> QED
      BY <2>3, <3>1, <3>2 DEF cc3501e_hw_wifi_ap_stop
  <2> QED
    BY <2>1, <2>2, <2>3
<1>9. TypeInv' /\ CodeInv'
  BY <1>1, <1>2, <1>4, <1>5, <1>6, <1>7, <1>8 DEF Moved, SameRetry, SameVerdict, IInv, TypeInv, CodeInv
<1>10. ControlInv' /\ StatusInv'
  BY <1>1, <1>2, <1>3 DEF Moved, SameJob, IInv, ControlInv, Passing, Failing, ConnectJobs, StatusInv,
                          StatusWhole, handle_wifi_status, At
<1>11. JoinInv'
  BY <1>1, <1>2, <1>7 DEF Moved, IInv, JoinInv, ConnectedJoined
<1>12. TornInv'
  BY <1>2, <1>3, <1>5, <1>6 DEF Moved, SameJob, IInv, TornInv, ControlInv
<1>13. RetryInv'
  BY <1>2, <1>3 DEF Moved, SameJob, SameRetry, SameVerdict, IInv, RetryInv, Failing
<1>14. DenyInv'
  BY <1>1, <1>2, <1>4 DEF Moved, IInv, DenyInv, Passing
<1> QED
  BY <1>8, <1>9, <1>10, <1>11, <1>12, <1>13, <1>14 DEF IInv

(* The drain: what the flags say of the slave is true, so it is not deaf   *)
(* afterwards.                                                             *)
LEMMA DrainKeeps == ASSUME IInv, DrainReinit PROVE IInv'
<1>0. task \in Tasks /\ left \in Flags /\ "finish" \in Places /\ task.pc = "drain" /\ torn \in BOOLEAN
  BY DEF IInv, TypeInv, Places, DrainReinit, At
<1>1. UNCHANGED <<conn, tag, seen, radio, ap, nwp>>
  BY DEF DrainReinit
<1>2. Moved(task, task', "finish")
  BY <1>0, GotoIs DEF DrainReinit, Goto
<1>3. torn' = FALSE
  <2>1. BodyReinit \/ FailSkip \/ RssiSkip \/ task.job = "disconnect" => ~torn
    BY DEF IInv, TornInv, BodyReinit, FailSkip, RssiSkip
  <2> QED
    BY <1>0, <2>1 DEF DrainReinit
<1>4. left' \in Flags /\ ~left'.reinit /\ ~left'.skip
  <2>1. left' = [left EXCEPT !.reinit = @ /\ ~IsConnect, !.skip = @ /\ ~IsConnect,
                             !.rssi = @ /\ task.job # "rssi"]
    BY DEF DrainReinit
  <2>2. left.reinit \/ left.skip => IsConnect
    BY DEF IInv, TornInv, IsConnect
  <2>3. /\ (left.reinit /\ ~IsConnect) \in BOOLEAN /\ (left.skip /\ ~IsConnect) \in BOOLEAN
        /\ (left.rssi /\ task.job # "rssi") \in BOOLEAN
    OBVIOUS
  <2>4. /\ left' \in Flags /\ left'.reinit = (left.reinit /\ ~IsConnect)
        /\ left'.skip = (left.skip /\ ~IsConnect)
    BY <1>0, <2>1, <2>3 DEF Flags
  <2> QED
    BY <2>2, <2>4
<1>5. TypeInv' /\ CodeInv'
  BY <1>1, <1>2, <1>3, <1>4 DEF Moved, SameRetry, SameVerdict, IInv, TypeInv, CodeInv
<1>6. ControlInv' /\ StatusInv'
  BY <1>0, <1>1, <1>2 DEF Moved, SameJob, IInv, ControlInv, Passing, Failing, ConnectJobs, StatusInv,
                          StatusWhole, handle_wifi_status, At
<1>7. JoinInv' /\ ApInv'
  BY <1>1, <1>2 DEF Moved, IInv, JoinInv, ConnectedJoined, ApInv
<1>8. TornInv'
  BY <1>3, <1>4 DEF TornInv
<1>9. RetryInv'
  BY <1>0, <1>2 DEF Moved, SameJob, SameRetry, SameVerdict, IInv, RetryInv, Failing
<1>10. DenyInv'
  BY <1>1, <1>2 DEF Moved, IInv, DenyInv, Passing
<1> QED
  BY <1>5, <1>6, <1>7, <1>8, <1>9, <1>10 DEF IInv

(* An idle task, and one with a new job. *)
Fresh(t, pc, job) ==
    /\ t \in Tasks /\ t.pc = pc /\ t.job = job /\ ~t.retried /\ ~t.clean /\ ~t.quiet
    /\ t.first \in TagsWhen(radio.own) /\ t.code \in CodesWhen(radio.own)

(* The task between two jobs is fresh. *)
LEMMA IdleIs == Fresh(Idle, "idle", "none")
<1>1. /\ "none" \in CodesWhen(radio.own) /\ NoTag \in TagsWhen(radio.own) /\ NoTag \in TagsWhen(TRUE)
      /\ "none" \in Codes /\ "NONE" \in Fails /\ "idle" \in Places
  BY DEF CodesWhen, Codes, TagsWhen, NoTag, Fails, Places
<1> HIDE DEF NoTag
<1>2. Idle \in Tasks
  BY <1>1 DEF Idle, Tasks
<1> QED
  BY <1>1, <1>2 DEF Idle, Fresh

(* So is the task that a submit has given a job. *)
LEMMA QueuedIs ==
    ASSUME NEW job \in AllJobs
    PROVE  Fresh([Idle EXCEPT !.pc = "queued", !.job = job], "queued", job)
<1>1. "queued" \in Places /\ job \in AllJobs \cup {"none"}
  BY DEF Places
<1> QED
  BY <1>1, IdleIs DEF Fresh, Tasks

(* The job is over; a pending AP is published. *)
LEMMA FinishKeeps == ASSUME IInv, DrainFinish PROVE IInv'
<1>0. task.pc = "finish" /\ UNCHANGED <<conn, tag, seen, radio, left, torn, nwp>> /\ task' = Idle
  BY DEF DrainFinish, At
<1>1. Fresh(task', "idle", "none")
  BY <1>0, IdleIs
<1>2. ap' \in [pending : BOOLEAN, up : BOOLEAN] /\ (ap'.pending => ap.pending)
  BY DEF DrainFinish, IInv, TypeInv
<1>3. TypeInv' /\ CodeInv'
  BY <1>0, <1>1, <1>2 DEF Fresh, IInv, TypeInv, CodeInv
<1>4. ControlInv' /\ StatusInv'
  BY <1>0, <1>1 DEF Fresh, IInv, ControlInv, Passing, Failing, ConnectJobs, StatusInv, StatusWhole,
                    handle_wifi_status, At
<1>5. JoinInv' /\ ApInv' /\ TornInv'
  BY <1>0, <1>1, <1>2 DEF Fresh, IInv, JoinInv, ConnectedJoined, ApInv, TornInv
<1>6. RetryInv' /\ DenyInv'
  BY <1>0, <1>1 DEF Fresh, IInv, RetryInv, DenyInv, Passing
<1> QED
  BY <1>3, <1>4, <1>5, <1>6 DEF IInv

(* A new job; a connect marks the latch. *)
LEMMA SubmitKeeps == ASSUME IInv, NEW job \in Jobs, Submit(job) PROVE IInv'
<1>0. task.pc = "idle" /\ UNCHANGED <<seen, radio, ap, left, torn>>
  BY DEF Submit, At
<1>1. Fresh(task', "queued", job)
  BY WifiAssumption, QueuedIs DEF Submit
<1>2. /\ nwp' \in Nwps /\ nwp'.q = nwp.q /\ nwp'.deauth = nwp.deauth /\ nwp'.sta = nwp.sta
      /\ nwp'.joined = nwp.joined /\ nwp'.ap = nwp.ap
  <2>1. nwp \in Nwps /\ nwp.jobs \in Nat /\ nwp' = [nwp EXCEPT !.jobs = nwp.jobs + 1]
    BY DEF Submit, IInv, TypeInv, Nwps
  <2>2. nwp.jobs + 1 \in Nat
    BY <2>1
  <2> QED
    BY <2>1, <2>2 DEF Nwps
<1>3. /\ conn' \in Conns /\ tag' \in TagsWhen(radio.own)
      /\ \/ conn' = conn /\ job \notin ConnectJobs
         \/ conn'.state = "CONNECTING"
  <2>1. "none" \in CodesWhen(radio.own) /\ "none" \in Codes \ {"leaveOwn"}
    BY DEF CodesWhen, Codes
  <2> QED
    BY <2>1 DEF Submit, cc3501e_hw_wifi_mark_connecting, IInv, TypeInv, CodeInv, Conns, States, Fails,
                NoTag, TagsWhen, ConnectJobs
<1>4. TypeInv' /\ CodeInv'
  BY <1>0, <1>1, <1>2, <1>3 DEF Fresh, IInv, TypeInv, CodeInv
<1>5. ControlInv' /\ StatusInv'
  BY <1>0, <1>1, <1>3 DEF Fresh, IInv, ControlInv, Passing, Failing, ConnectJobs, StatusInv, StatusWhole,
                    handle_wifi_status, At
<1>6. JoinInv' /\ ApInv' /\ TornInv'
  BY <1>0, <1>1, <1>2, <1>3 DEF Fresh, IInv, JoinInv, ConnectedJoined, ApInv, TornInv
<1>7. RetryInv' /\ DenyInv'
  BY <1>0, <1>1 DEF Fresh, IInv, RetryInv, DenyInv, Passing
<1> QED
  BY <1>4, <1>5, <1>6, <1>7 DEF IInv

(* What the NWP and its callback do not touch. *)
LEMMA FrameKeeps ==
    ASSUME IInv, UNCHANGED <<conn, left, task, torn>>
    PROVE  ControlInv' /\ StatusInv' /\ TornInv' /\ RetryInv'
<1>1. ControlInv'
  BY DEF IInv, ControlInv
<1>2. StatusInv'
  BY DEF IInv, StatusInv, StatusWhole, handle_wifi_status, At
<1>3. TornInv'
  BY DEF IInv, TornInv
<1>4. RetryInv'
  BY DEF IInv, RetryInv
<1> QED
  BY <1>1, <1>2, <1>3, <1>4

(* A report of the NWP. *)
LEMMA ReportKeeps == ASSUME IInv, Report PROVE IInv'
<1>0. /\ nwp \in Nwps /\ radio.own \in BOOLEAN /\ nwp.deauth \in CodesWhen(radio.own) \ {"temp"}
      /\ nwp.q \in Seq(EventsWhen(radio.own))
  BY DEF IInv, TypeInv, Radios, CodeInv
<1>1. UNCHANGED <<conn, tag, seen, radio, ap, left, task, torn>>
  BY DEF Report
<1>2. PICK e \in EventsWhen(radio.own) : Reported(nwp', e)
  BY <1>0, ReportIs DEF Report
<1>3. nwp'.q = Append(nwp.q, e) /\ nwp'.q \in Seq(EventsWhen(radio.own))
  BY <1>0, <1>2, Sent DEF Reported
<1>4. nwp'.deauth \in CodesWhen(radio.own) \ {"temp"}
  BY <1>0, <1>2 DEF Reported, CodesWhen, Codes, Leave
<1>5. TypeInv' /\ CodeInv'
  BY <1>1, <1>2, <1>3, <1>4 DEF Reported, IInv, TypeInv, CodeInv
<1>6. ControlInv' /\ StatusInv' /\ TornInv' /\ RetryInv'
  BY <1>1, FrameKeeps
<1>7. JoinInv' /\ ApInv'
  BY <1>1, <1>2 DEF Reported, IInv, JoinInv, ConnectedJoined, ApInv
<1>8. /\ e.ev = "SCAN" => e \in ScanEvents
      /\ e.ev # "ASSOC" => e \in NoComeback
      /\ ScanEvents \subseteq NoComeback
  BY <1>0, OwnAdds DEF ScanEvents, NoComeback
<1>9. /\ e.ev = "SCAN" /\ nwp.q \in Seq(ScanEvents) => nwp'.q \in Seq(ScanEvents)
      /\ e.ev # "ASSOC" /\ nwp.q \in Seq(NoComeback) => nwp'.q \in Seq(NoComeback)
      /\ nwp.q \in Seq(ScanEvents) => nwp.q \in Seq(NoComeback)
  BY <1>3, <1>8, Sent, SeqOfMore
<1>10. /\ nwp'.sta = "joining" => nwp.sta = "joining" /\ e.ev = "SCAN"
       /\ nwp.sta = "idle" => nwp'.sta = "idle" /\ e.ev = "SCAN"
       /\ e.ev = "ASSOC" => ~nwp'.denied
       /\ nwp'.denied # nwp.denied => nwp.sta = "joining" /\ e.ev = "AUTH"
  BY <1>2 DEF Reported
<1>11. DenyInv'
  <2>1. ASSUME task.quiet, ~task.retried PROVE DenyInv'
    <3>1. task.pc \in {"clear", "clear2", "clear3", "kick"} =>
             nwp'.sta = "idle" /\ nwp'.q \in Seq(ScanEvents)
      BY <1>9, <1>10, <2>1 DEF IInv, DenyInv
    <3>2. task.pc \in {"wait", "status", "verdict"} /\ nwp'.sta = "joining" =>
             nwp'.q \in Seq(ScanEvents) /\ tag = NoTag
      BY <1>9, <1>10, <2>1 DEF IInv, DenyInv
    <3>3. task.pc \in {"wait", "status", "verdict"} /\ nwp'.denied =>
             nwp'.q \in Seq(NoComeback) /\ tag.ev # "ASSOC"
      <4>1. CASE nwp'.denied = nwp.denied
        BY <1>9, <1>10, <2>1, <4>1 DEF IInv, DenyInv
      <4>2. CASE nwp'.denied # nwp.denied
        BY <1>9, <1>10, <2>1, <4>2 DEF IInv, DenyInv, NoTag
      <4> QED
        BY <4>1, <4>2
    <3> QED
      BY <1>1, <2>1, <3>1, <3>2, <3>3 DEF IInv, DenyInv
  <2>2. ASSUME task.quiet, task.retried PROVE DenyInv'
    BY <1>1, <1>10, <2>2 DEF IInv, DenyInv
  <2>3. ASSUME ~task.quiet PROVE DenyInv'
    BY <1>1, <2>3 DEF IInv, DenyInv
  <2> QED
    BY <2>1, <2>2, <2>3
<1> QED
  BY <1>5, <1>6, <1>7, <1>11 DEF IInv

(* The callback: an event is recorded only during an attempt. *)
LEMMA CallbackKeeps == ASSUME IInv, wifi_event_cb PROVE IInv'
<1> DEFINE e == Head(nwp.q)
<1>0. /\ nwp \in Nwps /\ radio.own \in BOOLEAN /\ nwp.q \in Seq(EventsWhen(radio.own))
      /\ nwp.q # <<>> /\ tag \in TagsWhen(radio.own) /\ nwp.q \in Seq(EventsWhen(TRUE))
  BY DEF IInv, TypeInv, Radios, CodeInv, wifi_event_cb, Nwps
<1>1. UNCHANGED <<conn, radio, ap, left, task, torn>>
  BY DEF wifi_event_cb
<1>2. e \in EventsWhen(radio.own) /\ Tail(nwp.q) \in Seq(EventsWhen(radio.own))
      /\ Tail(nwp.q) \in Seq(EventsWhen(TRUE))
  BY <1>0, Taken
<1>3. nwp' = [nwp EXCEPT !.q = Tail(@), !.leaving = @ /\ e.ev # "DISCONNECT"]
  BY DEF wifi_event_cb
<1>4. /\ tag' = tag \/ tag' = [ev |-> e.ev, code |-> e.code]
      /\ e.ev = "SCAN" => tag' = tag
      /\ tag' # tag => e.code # "user" \/ e.ev # "DISCONNECT"
      /\ tag' # tag => e.ev \in {"DISCONNECT", "ASSOC", "AUTH"}
  BY DEF wifi_event_cb, OnScan, OnConnect, OnDisconnect, OnAssocRejected, OnAuthRejected, Record
<1>5. seen' \in [ok : BOOLEAN, sync : BOOLEAN]
  <2>1. e.ok \in BOOLEAN
    BY <1>2 DEF EventsWhen
  <2>2. \/ seen' = seen
        \/ \E ok \in BOOLEAN : seen' = [ok |-> ok, sync |-> TRUE]
    BY <2>1 DEF wifi_event_cb, OnScan, OnConnect, OnDisconnect, OnAssocRejected, OnAuthRejected, Signal
  <2>3. \A ok \in BOOLEAN : [ok |-> ok, sync |-> TRUE] \in [ok : BOOLEAN, sync : BOOLEAN]
    OBVIOUS
  <2> QED
    BY <2>2, <2>3 DEF IInv, TypeInv
<1>6. e \in [ev : Events, code : CodesWhen(radio.own), ok : BOOLEAN]
      /\ (e.ev \in {"ASSOC", "AUTH"} => e.code \in {"temp", "real"})
  BY <1>2 DEF EventsWhen
<1>7. tag' \in TagsWhen(radio.own)
  BY <1>0, <1>4, <1>6 DEF TagsWhen
<1>8. (nwp.leaving /\ e.ev # "DISCONNECT") \in BOOLEAN
  OBVIOUS
<1>9. /\ nwp' \in Nwps /\ nwp'.q = Tail(nwp.q) /\ nwp'.deauth = nwp.deauth /\ nwp'.sta = nwp.sta
      /\ nwp'.joined = nwp.joined /\ nwp'.ap = nwp.ap /\ nwp'.denied = nwp.denied
  BY <1>0, <1>2, <1>3, <1>8 DEF Nwps
<1>10. TypeInv' /\ CodeInv'
  BY <1>1, <1>2, <1>5, <1>7, <1>9 DEF IInv, TypeInv, CodeInv
<1>11. ControlInv' /\ StatusInv' /\ TornInv' /\ RetryInv'
  BY <1>1, FrameKeeps
<1>12. JoinInv' /\ ApInv'
  BY <1>1, <1>9 DEF IInv, JoinInv, ConnectedJoined, ApInv
<1>13. /\ nwp.q \in Seq(ScanEvents) => e.ev = "SCAN" /\ nwp'.q \in Seq(ScanEvents)
       /\ nwp.q \in Seq(NoComeback) => e.ev # "ASSOC" /\ nwp'.q \in Seq(NoComeback)
  <2>1. ASSUME nwp.q \in Seq(ScanEvents) PROVE e.ev = "SCAN" /\ nwp'.q \in Seq(ScanEvents)
    <3>1. e \in ScanEvents /\ nwp'.q \in Seq(ScanEvents)
      BY <1>0, <1>9, <2>1, Taken
    <3> QED
      BY <3>1 DEF ScanEvents
  <2>2. ASSUME nwp.q \in Seq(NoComeback) PROVE e.ev # "ASSOC" /\ nwp'.q \in Seq(NoComeback)
    <3>1. e \in NoComeback /\ nwp'.q \in Seq(NoComeback)
      BY <1>0, <1>9, <2>2, Taken
    <3> QED
      BY <3>1 DEF NoComeback
  <2> QED
    BY <2>1, <2>2
<1>14. DenyInv'
  <2> HIDE DEF e
  <2>1. task.pc = "kick" /\ task.quiet /\ ~task.retried => tag' = tag
    BY <1>4, <1>13 DEF IInv, DenyInv
  <2>2. nwp.q \in Seq(ScanEvents) => tag' = tag
    BY <1>4, <1>13
  <2>3. nwp.q \in Seq(NoComeback) /\ tag.ev # "ASSOC" => tag'.ev # "ASSOC"
    BY <1>4, <1>13
  <2> QED
    BY <1>1, <1>9, <1>13, <2>1, <2>2, <2>3 DEF IInv, DenyInv
<1> QED
  BY <1>10, <1>11, <1>12, <1>14 DEF IInv

(* The first state. *)
LEMMA InitKeeps == Init => IInv
<1> SUFFICES ASSUME Init PROVE IInv
  OBVIOUS
<1>1. Fresh(task, "idle", "none")
  BY IdleIs DEF Init
<1>2. "none" \in CodesWhen(radio.own) /\ "none" \in Codes /\ NoTag \in TagsWhen(radio.own)
  BY DEF CodesWhen, Codes, TagsWhen, NoTag
<1>3. nwp \in Nwps /\ nwp.q \in Seq(EventsWhen(radio.own)) /\ nwp.deauth = "none" /\ nwp.sta = "idle"
  <2>1. <<>> \in Seq(EventsWhen(radio.own)) /\ <<>> \in Seq(EventsWhen(TRUE))
    OBVIOUS
  <2>2. nwp = [sta |-> "idle", scan |-> FALSE, q |-> <<>>, leaving |-> FALSE, denied |-> FALSE,
               deauth |-> "none", ap |-> FALSE, joined |-> FALSE, jobs |-> 0]
    BY DEF Init
  <2>3. nwp.q = <<>> /\ nwp.deauth = "none" /\ nwp.sta = "idle"
    BY <2>2
  <2>4. nwp \in Nwps
    BY <1>2, <2>1, <2>2 DEF Nwps
  <2> QED
    BY <2>1, <2>3, <2>4
<1>4. TypeInv /\ CodeInv
  BY <1>1, <1>2, <1>3 DEF Fresh, Init, TypeInv, CodeInv, Conns, States, Fails, Radios, Flags, NoFlags
<1>5. ControlInv /\ StatusInv /\ RetryInv
  BY <1>1 DEF Init, Fresh, ControlInv, Passing, Failing, ConnectJobs, StatusInv, StatusWhole,
              handle_wifi_status, At, RetryInv
<1>6. JoinInv /\ ApInv /\ TornInv /\ DenyInv
  BY <1>1, <1>3 DEF Init, Fresh, JoinInv, ConnectedJoined, ApInv, TornInv, DenyInv, NoFlags, Passing
<1> QED
  BY <1>4, <1>5, <1>6 DEF IInv

(* Every step keeps the invariant. *)
LEMMA StepKeeps == IInv /\ [Next]_vars => IInv'
<1> SUFFICES ASSUME IInv, [Next]_vars PROVE IInv'
  OBVIOUS
<1>1. CASE \E job \in Jobs : Submit(job)
  BY <1>1, SubmitKeeps
<1>2. CASE Report
  BY <1>2, ReportKeeps
<1>3. CASE wifi_event_cb
  BY <1>3, CallbackKeeps
<1>4. CASE Task
  <2>1. CASE PassKick
    BY <2>1, KickKeeps, PassFails DEF PassKick
  <2>2. CASE Dhcp
    BY <2>2, WonKeeps, PassFails DEF Dhcp
  <2> QED
    BY <1>4, <2>1, <2>2, PassMoves, PassFails, DelayKeeps, OwnDisconnects, FlagsKeep, PublishKeeps,
       StateKeeps, RoleKeeps, OtherJobsKeep, DrainKeeps, FinishKeeps DEF Task
<1>5. CASE UNCHANGED vars
  <2>1. ControlInv' /\ StatusInv' /\ TornInv' /\ RetryInv'
    BY <1>5, FrameKeeps DEF vars
  <2>2. TypeInv' /\ CodeInv' /\ JoinInv' /\ ApInv'
    BY <1>5 DEF vars, IInv, TypeInv, CodeInv, JoinInv, ConnectedJoined, ApInv
  <2>3. DenyInv'
    BY <1>5 DEF vars, IInv, DenyInv
  <2> QED
    BY <2>1, <2>2, <2>3 DEF IInv
<1> QED
  BY <1>1, <1>2, <1>3, <1>4, <1>5 DEF Next

(* The inductive invariant holds. *)
LEMMA Invariant == Spec => []IInv
BY InitKeeps, StepKeeps, PTL DEF Spec

-------------------------------------------------------------------------------
(* The host never reads a terminal state with another state's detail,      *)
(* although wifi_conn_set writes the two apart and a frame may fall        *)
(* between: FAILED comes with a cause, CONNECTED with none.                *)
THEOREM StatusIsWhole == Spec => []StatusWhole
<1>1. IInv => StatusWhole
  BY DEF IInv, StatusInv
<1> QED
  BY <1>1, Invariant, PTL

(* The echo of the firmware's own Wlan_Disconnect is never the reason the  *)
(* host reads, however late the event or the driver's deauthReason comes   *)
(* back (wifi_retry_sanitize_reason).                                      *)
THEOREM OwnLeaveNotReported == Spec => []OwnLeaveUnreported
<1>1. IInv => OwnLeaveUnreported
  BY DEF IInv, TypeInv, Conns, OwnLeaveUnreported
<1> QED
  BY <1>1, Invariant, PTL

(* CONNECTED is published only of an association that this attempt's own   *)
(* Wlan_Connect led to.                                                    *)
THEOREM ConnectedIsJoined == Spec => []ConnectedJoined
<1>1. IInv => ConnectedJoined
  BY DEF IInv, JoinInv
<1> QED
  BY <1>1, Invariant, PTL

(* Between two jobs the SPI slave is not deaf: whenever the drain skips    *)
(* its re-init on a job's word, that job left no need of it.               *)
THEOREM LinkIsRearmed == Spec => []LinkRearmed
<1>1. IInv => LinkRearmed
  BY DEF IInv, TornInv, LinkRearmed, At
<1> QED
  BY <1>1, Invariant, PTL

(* Only DrainFinish makes the AP visible. *)
LEMMA ApUpBy == ASSUME IInv, [Next]_vars, ~ap.up, ap'.up PROVE DrainFinish
<1>1. CASE DrainFinish
  BY <1>1
<1>2. CASE cc3501e_hw_wifi_ap_start
  BY <1>2 DEF cc3501e_hw_wifi_ap_start, ap_role_latch_started, IInv, TypeInv
<1>3. CASE cc3501e_hw_wifi_ap_stop
  BY <1>3 DEF cc3501e_hw_wifi_ap_stop
<1>4. CASE ap' = ap
  BY <1>4
<1>5. DrainFinish \/ cc3501e_hw_wifi_ap_start \/ cc3501e_hw_wifi_ap_stop \/ ap' = ap
  <2>1. CASE UNCHANGED vars
    BY <2>1 DEF vars
  <2>2. CASE (\E job \in Jobs : Submit(job)) \/ Report \/ wifi_event_cb
    BY <2>2 DEF Submit, Report, wifi_event_cb
  <2>3. CASE \/ ScanStart \/ ScanEnd \/ ConnectBad \/ ConnectRole
             \/ PassClearSync \/ PassClearStatus \/ PassClearTag \/ PassKick
             \/ WaitSignalled \/ WaitUnstarted \/ WaitTimesOut \/ ReadStatus \/ VerdictRetry
             \/ VerdictFail
    BY <2>3 DEF ScanStart, ScanEnd, ConnectBad, ConnectRole, PassClearSync, PassClearStatus,
                PassClearTag, PassKick, WaitSignalled, WaitUnstarted, WaitTimesOut, ReadStatus,
                VerdictRetry, VerdictFail
  <2>4. CASE \/ RetryCleanup \/ RetrySettle \/ RetryDelay \/ Dhcp \/ WonReinit \/ WonPublish
             \/ ConnState \/ wifi_connect_fail_mark_skip \/ FailPublish \/ FailClean
             \/ cc3501e_hw_wifi_disconnect \/ DisconnectPublish \/ cc3501e_hw_wifi_get_rssi
             \/ DrainReinit
    BY <2>4 DEF RetryCleanup, RetrySettle, RetryDelay, Dhcp, WonReinit, WonPublish, ConnState,
                wifi_connect_fail_mark_skip, FailPublish, FailClean, cc3501e_hw_wifi_disconnect,
                DisconnectPublish, cc3501e_hw_wifi_get_rssi, DrainReinit
  <2> QED
    BY <2>1, <2>2, <2>3, <2>4 DEF Next, Task
<1> QED
  BY <1>1, <1>2, <1>3, <1>4, <1>5

(* The AP role becomes visible only when the AP is up and the slave can    *)
(* serve the host that waits to see it: the drain publishes the latch      *)
(* after its re-init (ap_role_latch.h).                                    *)
THEOREM ApVisibleIsServed == Spec => ApVisibleWhenServed
<1>1. IInv /\ [Next]_vars => [(~ap.up /\ ap'.up) => (nwp.ap /\ ~torn)]_vars
  <2> SUFFICES ASSUME IInv, [Next]_vars, ~ap.up, ap'.up PROVE nwp.ap /\ ~torn
    OBVIOUS
  <2>1. DrainFinish
    BY ApUpBy
  <2> QED
    BY <2>1 DEF DrainFinish, At, IInv, ApInv, TornInv
<1> QED
  BY <1>1, Invariant, PTL DEF Spec, ApVisibleWhenServed

(* A task leaves the place it publishes a failure from only by publishing. *)
LEMMA LeavesBy ==
    ASSUME [Next]_vars, At("publish"), ~At("publish")'
    PROVE  FailPublish
<1> USE DEF At
<1>1. CASE UNCHANGED vars
  BY <1>1 DEF vars
<1>2. CASE (\E job \in Jobs : Submit(job)) \/ Report \/ wifi_event_cb
  BY <1>2 DEF Submit, Report, wifi_event_cb
<1>3. CASE \/ ScanStart \/ ScanEnd \/ ConnectBad \/ ConnectRole
           \/ PassClearSync \/ PassClearStatus \/ PassClearTag \/ PassKick
           \/ WaitSignalled \/ WaitUnstarted \/ WaitTimesOut \/ ReadStatus \/ VerdictRetry
           \/ VerdictFail
  BY <1>3 DEF ScanStart, ScanEnd, ConnectBad, ConnectRole, PassClearSync, PassClearStatus,
              PassClearTag, PassKick, WaitSignalled, WaitUnstarted, WaitTimesOut, ReadStatus,
              VerdictRetry, VerdictFail, Run
<1>4. CASE \/ RetryCleanup \/ RetrySettle \/ RetryDelay \/ Dhcp \/ WonReinit \/ WonPublish
           \/ ConnState \/ wifi_connect_fail_mark_skip
  BY <1>4 DEF RetryCleanup, RetrySettle, RetryDelay, Dhcp, WonReinit, WonPublish, ConnState,
              wifi_connect_fail_mark_skip
<1>5. CASE \/ FailClean \/ cc3501e_hw_wifi_disconnect \/ DisconnectPublish
           \/ cc3501e_hw_wifi_ap_start \/ cc3501e_hw_wifi_ap_stop \/ cc3501e_hw_wifi_get_rssi
           \/ DrainReinit \/ DrainFinish
  BY <1>5 DEF FailClean, cc3501e_hw_wifi_disconnect, DisconnectPublish, cc3501e_hw_wifi_ap_start,
              cc3501e_hw_wifi_ap_stop, cc3501e_hw_wifi_get_rssi, DrainReinit, DrainFinish, Run
<1> QED
  BY <1>1, <1>2, <1>3, <1>4, <1>5 DEF Next, Task

(* A connect that retried and failed to associate publishes a refusal with *)
(* a code of the AP's: the first pass's, unless the retry pass was given   *)
(* one of its own.                                                         *)
THEOREM RetryVerdictKept == Spec => RetryKeepsVerdict
<1>1. IInv /\ [Next]_vars =>
        [(task.retried /\ task.clean /\ At("publish") /\ ~At("publish")')
            => conn'.fail = "REJECTED" /\ conn'.reason \in {"temp", "real"}]_vars
  <2> SUFFICES ASSUME IInv, [Next]_vars, task.retried, task.clean, At("publish"), ~At("publish")'
               PROVE  conn'.fail = "REJECTED" /\ conn'.reason \in {"temp", "real"}
    OBVIOUS
  <2>1. FailPublish
    BY LeavesBy
  <2>2. task.fail = "REJECTED" /\ task.code \in {"temp", "real"}
    BY DEF IInv, RetryInv
  <2>3. /\ task \in Tasks /\ conn \in Conns /\ radio.own \in BOOLEAN /\ task.fail \in Fails
        /\ task.code \in CodesWhen(radio.own) /\ task.code \notin Leave
    BY <2>2 DEF IInv, TypeInv, Tasks, Radios, CodeInv, Leave
  <2>4. conn'.fail = task.fail /\ conn'.reason = task.code
    BY <2>1, <2>3, DetailIs DEF FailPublish
  <2> QED
    BY <2>2, <2>4
<1> QED
  BY <1>1, Invariant, PTL DEF Spec, RetryKeepsVerdict

(* In an attempt that no event of an earlier one can reach, the retry does *)
(* not run into the deny list its first pass caused: the event half of the *)
(* tag tells a deny-listing reject from a comeback (wifi_retry_delay_ms).  *)
THEOREM RetryIsNotDenied == Spec => RetryAfterDenyList
<1>1. IInv /\ [Next]_vars =>
        [(task.retried /\ task.quiet /\ At("kick") /\ ~At("kick")') => ~nwp.denied]_vars
  BY DEF IInv, DenyInv, At
<1> QED
  BY <1>1, Invariant, PTL DEF Spec, RetryAfterDenyList
===============================================================================
