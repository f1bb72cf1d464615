------------------------------- MODULE TickProofs -----------------------------
(***************************************************************************)
(* Proofs about Tick, for every number of sockets, every size of the       *)
(* listen table and of the event ring, and every traffic.                  *)
(***************************************************************************)
EXTENDS Tick, WellFoundedInduction, TLAPS

-------------------------------------------------------------------------------
(* The power policy. *)

PowerType ==
    /\ apply \in {"none", "core", "radio", "set"}
    /\ pp_host_set_policy \in BOOLEAN /\ pp_core_dirty \in BOOLEAN
    /\ pp_radio_dirty \in BOOLEAN /\ pp_radio_ok \in BOOLEAN
    /\ wifi_sta_role_up \in BOOLEAN

(* The core has the latched policy unless a mark says otherwise or the     *)
(* service has taken the mark and not applied it yet.                      *)
CoreApplied ==
    pp_host_set_policy /\ ~pp_core_dirty /\ ~(apply = "core" /\ todo.core) =>
        pp_constraints_held = ConstraintsOf(pp_policy_latched)

(* The policy the radio is about to be given is the latched one, unless a  *)
(* newer one has left its mark.                                            *)
EffIsLatched ==
    apply = "set" /\ pp_host_set_policy /\ ~pp_radio_dirty => eff = pp_policy_latched

(* The radio has the latched policy unless a mark says otherwise or the    *)
(* task is on its way to apply it.                                         *)
RadioApplied ==
    /\ apply = "none" \/ (apply = "core" /\ ~todo.radio)
    /\ pp_host_set_policy /\ ~pp_radio_dirty /\ wifi_sta_role_up /\ pp_radio_ok
    => /\ ps = PsOf(pp_policy_latched)
       /\ pm \in {PmOf(pp_policy_latched), "always_active"}

PowerInv == PowerType /\ CoreApplied /\ EffIsLatched /\ RadioApplied

(* The initial state satisfies the power invariant. *)
LEMMA PowerInitInv == Init => PowerInv
  <1> SUFFICES ASSUME PowerInit PROVE PowerInv
    BY DEF Init
  <1>1. PowerType
    BY DEF PowerInit, Nothing, PowerType
  <1>2. CoreApplied /\ EffIsLatched /\ RadioApplied
    BY DEF PowerInit, CoreApplied, EffIsLatched, RadioApplied
  <1> QED
    BY <1>1, <1>2 DEF PowerInv

(* A step that leaves the power variables alone preserves the invariant. *)
LEMMA PowerStutter == PowerInv /\ UNCHANGED powerVars => PowerInv'
  BY DEF powerVars, PowerInv, PowerType, CoreApplied, EffIsLatched, RadioApplied

(* POWER_POLICY leaves both marks, so nothing is claimed of what is applied.*)
LEMMA PowerLatchInv ==
    ASSUME PowerInv, NEW p \in Policies, NEW wakes \in BOOLEAN,
           cc3501e_hw_set_power_policy(p, wakes)
    PROVE  PowerInv'
  BY DEF cc3501e_hw_set_power_policy, roles, PowerInv, PowerType, CoreApplied, EffIsLatched,
         RadioApplied

(* The service turns marks into work to do. *)
LEMMA PowerTakeInv == PowerInv /\ apply = "none" /\ PowerTake => PowerInv'
  <1> SUFFICES ASSUME PowerInv, apply = "none", PowerTake PROVE PowerInv'
    OBVIOUS
  <1> USE DEF PowerTake, latches, roles, PowerInv
  <1>1. PowerType'
    BY DEF PowerType
  <1>2. CoreApplied'
    BY DEF PowerType, CoreApplied
  <1>3. EffIsLatched'
    BY DEF EffIsLatched
  <1>4. RadioApplied'
    BY DEF PowerType, RadioApplied
  <1> QED
    BY <1>1, <1>2, <1>3, <1>4

(* Applying the core's half. *)
LEMMA PowerCoreInv == PowerInv /\ pp_apply_core => PowerInv'
  BY DEF pp_apply_core, latches, roles, Nothing, PowerInv, PowerType, CoreApplied,
         EffIsLatched, RadioApplied

(* Choosing the radio's policy. *)
LEMMA PowerEffectiveInv == PowerInv /\ pp_apply_radio_effective => PowerInv'
  <1> SUFFICES ASSUME PowerInv, pp_apply_radio_effective PROVE PowerInv'
    OBVIOUS
  <1> USE DEF pp_apply_radio_effective, latches, roles, PowerInv
  <1>1. PowerType'
    BY DEF PowerType
  <1>2. CoreApplied' /\ EffIsLatched'
    BY DEF CoreApplied, EffIsLatched
  <1>3. RadioApplied'
    BY DEF PowerType, RadioApplied
  <1> QED
    BY <1>1, <1>2, <1>3

(* Setting the radio: a refused call is reported. *)
LEMMA PowerRadioInv == PowerInv /\ pp_apply_radio => PowerInv'
  <1> SUFFICES ASSUME PowerInv, pp_apply_radio PROVE PowerInv'
    OBVIOUS
  <1> USE DEF pp_apply_radio, latches, roles, PowerInv
  <1>1. PowerType'
    BY DEF PowerType
  <1>2. CoreApplied' /\ EffIsLatched'
    BY DEF CoreApplied, EffIsLatched
  <1>3. RadioApplied'
    BY DEF Management, EffIsLatched, RadioApplied
  <1> QED
    BY <1>1, <1>2, <1>3

(* The bodies of the roles either apply the policy afresh or keep awake. *)
LEMMA PowerBodyInv ==
    PowerInv /\ apply = "none" /\ (StaRoleUp \/ ApStart \/ ApStop \/ BleEnable) => PowerInv'
  <1> USE DEF latches, roles, PowerInv, PowerType, CoreApplied, EffIsLatched, RadioApplied
  <1>1. PowerInv /\ apply = "none" /\ StaRoleUp => PowerInv'
    BY DEF StaRoleUp
  <1>2. PowerInv /\ apply = "none" /\ ApStart => PowerInv'
    BY DEF ApStart, KeepAwake
  <1>3. ASSUME PowerInv, apply = "none", ApStop PROVE PowerInv'
    <2>1. CASE apply' = "radio"
      BY <1>3, <2>1 DEF ApStop
    <2>2. CASE UNCHANGED <<ap_up, apply>>
      BY <1>3, <2>2 DEF ApStop
    <2> QED
      BY <1>3, <2>1, <2>2 DEF ApStop
  <1>4. PowerInv /\ apply = "none" /\ BleEnable => PowerInv'
    BY DEF BleEnable, KeepAwake
  <1> QED
    BY <1>1, <1>2, <1>3, <1>4

(* The host's last power policy is the one in force whenever the task is   *)
(* not applying one and no mark is set                                     *)
(* (src/hal/ti/cc3501e_hw_ti_power.c:466-503).                             *)
THEOREM PolicyApplied == Spec => []QuietIsApplied
  <1>1. PowerInv /\ [Next]_vars => PowerInv'
    <2> SUFFICES ASSUME PowerInv, [Next]_vars PROVE PowerInv'
      OBVIOUS
    <2>1. CASE Applying
      BY <2>1, PowerCoreInv, PowerEffectiveInv, PowerRadioInv DEF Applying
    <2>2. CASE RunNothing \/ RunWifiBody \/ RunSocketBody \/ Pump
      BY <2>2, PowerStutter DEF RunNothing, RunWifiBody, RunSocketBody, Pump
    <2>3. CASE RunRadioBody
      BY <2>3, PowerBodyInv DEF RunRadioBody
    <2>4. CASE PowerService
      BY <2>4, PowerTakeInv DEF PowerService
    <2>5. CASE DispatchPowerPolicy
      BY <2>5, PowerLatchInv DEF DispatchPowerPolicy
    <2>6. CASE DispatchGetPendingEvents \/ Outside
      BY <2>6, PowerStutter DEF DispatchGetPendingEvents, Outside
    <2>7. CASE UNCHANGED vars
      BY <2>7, PowerStutter DEF vars
    <2> QED
      BY <2>1, <2>2, <2>3, <2>4, <2>5, <2>6, <2>7 DEF Next, TaskStep
  <1>2. PowerInv => QuietIsApplied
    BY DEF PowerInv, CoreApplied, RadioApplied, QuietIsApplied
  <1> QED
    BY PowerInitInv, <1>1, <1>2, PTL DEF Spec

(* While an AP is up, the last mode the radio took keeps it awake          *)
(* (src/hal/ti/cc3501e_hw_ti_power.c:317-322).                             *)
THEOREM ApAwake == Spec => []ApStaysAwake
  <1> USE DEF ApStaysAwake
  <1>1. Init => ApStaysAwake
    BY DEF Init, PowerInit
  <1>2. ApStaysAwake /\ UNCHANGED powerVars => ApStaysAwake'
    BY DEF powerVars
  <1>3. ApStaysAwake /\ [Next]_vars => ApStaysAwake'
    <2> SUFFICES ASSUME ApStaysAwake, [Next]_vars PROVE ApStaysAwake'
      OBVIOUS
    <2>1. CASE Applying
      BY <2>1 DEF Applying, pp_apply_core, pp_apply_radio_effective, pp_apply_radio, Management,
                  roles
    <2>2. CASE RunNothing \/ RunWifiBody \/ RunSocketBody \/ Pump
      BY <1>2, <2>2 DEF RunNothing, RunWifiBody, RunSocketBody, Pump
    <2>3. CASE RunRadioBody
      <3>1. CASE StaRoleUp \/ ApStop
        BY <3>1 DEF StaRoleUp, ApStop
      <3>2. CASE ApStart \/ BleEnable
        BY <3>2 DEF ApStart, BleEnable, KeepAwake, roles
      <3> QED
        BY <2>3, <3>1, <3>2 DEF RunRadioBody
    <2>4. CASE PowerService
      BY <2>4 DEF PowerService, PowerTake, roles
    <2>5. CASE DispatchPowerPolicy
      BY <2>5 DEF DispatchPowerPolicy, cc3501e_hw_set_power_policy, roles
    <2>6. CASE DispatchGetPendingEvents \/ Outside
      BY <1>2, <2>6 DEF DispatchGetPendingEvents, Outside
    <2>7. CASE UNCHANGED vars
      BY <1>2, <2>7 DEF vars
    <2> QED
      BY <2>1, <2>2, <2>3, <2>4, <2>5, <2>6, <2>7 DEF Next, TaskStep
  <1> QED
    BY <1>1, <1>3, PTL DEF Spec

-------------------------------------------------------------------------------
(* The listen table. *)

Slots == 1 .. ListenMax

TableType ==
    /\ sock \in [Handles -> {"free", "open", "listening", "conn"}]
    /\ listen_handles \in [Slots -> {0} \cup Handles]

(* TableIsListeners, slot by slot. *)
Listed ==
    /\ \A i \in Slots : listen_handles[i] # 0 => sock[listen_handles[i]] = "listening"
    /\ \A h \in Handles : sock[h] = "listening" => \E i \in Slots : listen_handles[i] = h
    /\ \A i, j \in Slots : i # j /\ listen_handles[i] # 0 => listen_handles[i] # listen_handles[j]

TableInv == TableType /\ Listed

(* A set of numbers has a least element. *)
LEMMA LeastElement ==
    ASSUME NEW S \in SUBSET Nat, S # {}
    PROVE  \E x \in S : \A y \in S : x <= y
  <1> DEFINE R == {ss \in Nat \X Nat : ss[1] < ss[2]}
  <1>1. IsWellFoundedOn(R, Nat)
    BY NatLessThanWellFounded DEF OpToRel
  <1> HIDE DEF R
  <1>2. PICK x \in S : \A y \in S : ~ (<<y, x>> \in R)
    BY <1>1, WFMin
  <1>3. ASSUME NEW y \in S PROVE x <= y
    <2>1. <<y, x>> \in Nat \X Nat
      OBVIOUS
    <2>2. ~ (<<y, x>>[1] < <<y, x>>[2])
      BY <1>2, <2>1, Zenon DEF R
    <2> QED
      BY <2>2
  <1> QED
    BY <1>3

(* It is the one Min names. *)
LEMMA MinIsElement ==
    ASSUME NEW S \in SUBSET Nat, S # {}
    PROVE  Min(S) \in S
  BY LeastElement DEF Min

(* A new socket, opened or accepted, is one that was free. *)
LEMMA MinFree ==
    ASSUME Free # {}
    PROVE  Min(Free) \in Handles /\ sock[Min(Free)] = "free"
  <1>1. Free \in SUBSET Nat
    BY RingBounds DEF Free, Handles
  <1>2. Min(Free) \in Free
    BY <1>1, MinIsElement
  <1> QED
    BY <1>2 DEF Free

(* The initial state satisfies the table's invariant. *)
LEMMA TableInitInv == Init => TableInv
  BY RingBounds DEF Init, RingInit, TableInv, TableType, Listed, Handles, Slots

(* A step that leaves sockets and table alone preserves the invariant. *)
LEMMA TableStutter == TableInv /\ UNCHANGED <<sock, listen_handles>> => TableInv'
  BY DEF TableInv, TableType, Listed

(* SOCK_OPEN takes a free socket, which no slot names. *)
LEMMA TableOpenInv == TableInv /\ cc3501e_hw_sock_open => TableInv'
  <1> SUFFICES ASSUME TableInv, cc3501e_hw_sock_open PROVE TableInv'
    OBVIOUS
  <1>1. PICK f \in Handles : sock[f] = "free" /\ sock' = [sock EXCEPT ![f] = "open"]
    BY MinFree DEF cc3501e_hw_sock_open
  <1>2. listen_handles' = listen_handles
    BY DEF cc3501e_hw_sock_open
  <1> QED
    BY <1>1, <1>2, RingBounds DEF TableInv, TableType, Listed, Handles

(* The pump's new socket was free too; accepting touches no slot. *)
LEMMA TablePumpInv == TableInv /\ cc3501e_hw_sock_accept_pump => TableInv'
  <1> SUFFICES ASSUME TableInv, cc3501e_hw_sock_accept_pump PROVE TableInv'
    OBVIOUS
  <1>1. CASE PumpNone \/ PumpRefused
    BY <1>1, TableStutter DEF PumpNone, PumpRefused
  <1>2. CASE PumpAccept
    <2>1. CASE Full
      BY <1>2, <2>1, TableStutter DEF PumpAccept
    <2>2. CASE ~Full
      <3>1. PICK f \in Handles : sock[f] = "free" /\ sock' = [sock EXCEPT ![f] = "conn"]
        BY <1>2, <2>2, MinFree DEF PumpAccept
      <3>2. listen_handles' = listen_handles
        BY <1>2 DEF PumpAccept
      <3> QED
        BY <3>1, <3>2, RingBounds DEF TableInv, TableType, Listed, Handles
    <2> QED
      BY <2>1, <2>2
  <1> QED
    BY <1>1, <1>2 DEF cc3501e_hw_sock_accept_pump

(* SOCK_CLOSE frees the slot with the socket. *)
LEMMA TableCloseInv ==
    ASSUME TableInv, NEW h \in Handles, cc3501e_hw_sock_close(h)
    PROVE  TableInv'
  <1>1. /\ sock' = [sock EXCEPT ![h] = "free"]
        /\ listen_handles' = [i \in Slots |-> IF listen_handles[i] = h THEN 0
                                               ELSE listen_handles[i]]
    BY DEF cc3501e_hw_sock_close, listen_table_remove, Slots
  <1> QED
    BY <1>1, RingBounds DEF TableInv, TableType, Listed, Handles

(* SOCK_LISTEN: taking h out of the table changes nothing unless h is      *)
(* about to be entered again.                                              *)
LEMMA TableListenInv ==
    ASSUME TableInv, NEW h \in Handles, cc3501e_hw_sock_listen(h)
    PROVE  TableInv'
  <1> DEFINE table == listen_table_remove(h)
             empty == {i \in Slots : table[i] = 0}
  <1>1. table = [i \in Slots |-> IF listen_handles[i] = h THEN 0 ELSE listen_handles[i]]
    BY DEF listen_table_remove, Slots
  <1>2. h # 0
    BY RingBounds DEF Handles
  <1>3. sock[h] \in {"open", "listening"}
    BY DEF cc3501e_hw_sock_listen
  <1>4. \/ UNCHANGED <<sock, listen_handles>>
        \/ /\ empty = {} \/ sock[h] = "open"
           /\ listen_handles' = table
           /\ sock' = sock
        \/ /\ empty # {}
           /\ listen_handles' = [table EXCEPT ![Min(empty)] = h]
           /\ sock' = [sock EXCEPT ![h] = "listening"]
    BY DEF cc3501e_hw_sock_listen, Slots
  <1> HIDE DEF table, empty
  <1>5. CASE UNCHANGED <<sock, listen_handles>>
    BY <1>5, TableStutter
  <1>6. CASE /\ empty = {} \/ sock[h] = "open"
             /\ listen_handles' = table
             /\ sock' = sock
    <2>1. \A i \in Slots : listen_handles[i] # h
      BY <1>1, <1>2, <1>6 DEF TableInv, Listed, empty
    <2>2. listen_handles' = listen_handles
      BY <1>1, <1>6, <2>1 DEF TableInv, TableType
    <2> QED
      BY <1>6, <2>2, TableStutter
  <1>7. CASE /\ empty # {}
             /\ listen_handles' = [table EXCEPT ![Min(empty)] = h]
             /\ sock' = [sock EXCEPT ![h] = "listening"]
    <2>1. empty \in SUBSET Nat
      BY RingBounds DEF empty, Slots
    <2>2. PICK e \in Slots : table[e] = 0 /\ listen_handles' = [table EXCEPT ![e] = h]
      BY <1>7, <2>1, MinIsElement DEF empty
    <2>3. listen_handles' = [i \in Slots |-> IF i = e THEN h ELSE table[i]]
      BY <1>1, <2>2
    <2>4. TableType'
      BY <1>1, <1>7, <2>3 DEF TableInv, TableType
    <2>5. /\ sock' \in [Handles -> {"free", "open", "listening", "conn"}] /\ sock'[h] = "listening"
          /\ \A g \in Handles \ {h} : sock'[g] = sock[g]
      BY <1>7 DEF TableInv, TableType
    <2>6. \A i \in Slots : table[i] # 0 => table[i] = listen_handles[i] /\ table[i] # h
      BY <1>1
    <2>7. \A i \in Slots : listen_handles'[i] # 0 => sock'[listen_handles'[i]] = "listening"
      BY <2>3, <2>5, <2>6 DEF TableInv, TableType, Listed
    <2>8. ASSUME NEW g \in Handles, sock'[g] = "listening"
          PROVE  \E i \in Slots : listen_handles'[i] = g
      <3>1. CASE g = h
        BY <3>1, <2>2, <2>3
      <3>2. CASE g # h
        <4>1. PICK i \in Slots : listen_handles[i] = g
          BY <2>5, <2>8, <3>2 DEF TableInv, Listed
        <4>2. g # 0
          BY RingBounds DEF Handles
        <4>3. table[i] = g /\ i # e
          BY <1>1, <2>2, <3>2, <4>1, <4>2
        <4> QED
          BY <2>3, <4>3
      <3> QED
        BY <3>1, <3>2
    <2>9. \A i, j \in Slots :
             i # j /\ listen_handles'[i] # 0 => listen_handles'[i] # listen_handles'[j]
      BY <1>2, <2>3, <2>6 DEF TableInv, Listed
    <2> QED
      BY <2>4, <2>7, <2>8, <2>9 DEF TableInv, Listed
  <1> QED
    BY <1>4, <1>5, <1>6, <1>7

(* Every step of the system preserves the table's invariant. *)
LEMMA TableNextInv == TableInv /\ [Next]_vars => TableInv'
  <1> SUFFICES ASSUME TableInv, [Next]_vars PROVE TableInv'
    OBVIOUS
  <1>1. CASE Applying \/ RunNothing \/ RunRadioBody \/ PowerService \/ DispatchPowerPolicy
    BY <1>1, TableStutter
       DEF Applying, RunNothing, RunRadioBody, PowerService, DispatchPowerPolicy, ringVars
  <1>2. CASE RunWifiBody
    BY <1>2, TableStutter DEF RunWifiBody, WifiPush
  <1>3. CASE RunSocketBody
    BY <1>3, TableOpenInv, TableListenInv, TableCloseInv DEF RunSocketBody
  <1>4. CASE Pump
    BY <1>4, TablePumpInv DEF Pump
  <1>5. CASE DispatchGetPendingEvents
    BY <1>5, TableStutter DEF DispatchGetPendingEvents, event_ring_drain
  <1>6. CASE Outside
    BY <1>6, TableStutter DEF Outside, ReplyArrives, ClientConnects
  <1>7. CASE UNCHANGED vars
    BY <1>7, TableStutter DEF vars, ringVars
  <1> QED
    BY <1>1, <1>2, <1>3, <1>4, <1>5, <1>6, <1>7 DEF Next, TaskStep

(* The slots of the listen table name exactly the listening sockets, each  *)
(* once (src/hal/ti/cc3501e_hw_ti_sock.c:338-376 and 1120-1124).           *)
THEOREM ListenersListed == Spec => []TableIsListeners
  <1>1. TableInv => TableIsListeners
    <2> SUFFICES ASSUME TableInv PROVE TableIsListeners
      OBVIOUS
    <2>1. {listen_handles[i] : i \in Slots} \ {0} \subseteq {h \in Handles : sock[h] = "listening"}
      BY DEF TableInv, TableType, Listed
    <2>2. {h \in Handles : sock[h] = "listening"} \subseteq {listen_handles[i] : i \in Slots} \ {0}
      BY RingBounds DEF TableInv, Listed, Handles
    <2> QED
      BY <2>1, <2>2 DEF TableIsListeners, TableInv, Listed, Slots
  <1> QED
    BY TableInitInv, TableNextInv, <1>1, PTL DEF Spec

-------------------------------------------------------------------------------
(* The holders of an accepted connection. *)

EventType == [evt : {"EVT_SOCK_ACCEPTED", "EVT_WIFI"}, handle : {0} \cup Handles]

HolderType ==
    /\ ring \in Seq(EventType) /\ reply \in Seq(EventType)
    /\ known \in SUBSET Handles /\ lost \in SUBSET Handles

(* The events the host has not read, the ones on their way first. *)
Pending == reply \o ring

(* Entry i of the pending events announces h. *)
Announces(events, i, h) == i \in 1 .. Len(events) /\ events[i].handle = h

(* AcceptedIsHeld without the counting: an announced handle is an accepted *)
(* connection's, announced once and with nobody else; a lost one is an     *)
(* accepted connection's and not the host's; and every accepted one is     *)
(* announced, known or lost.  The host holds no free handle.               *)
HeldOnce(events) ==
    \A h \in Handles :
        /\ \A i \in Nat : Announces(events, i, h) => sock[h] = "conn" /\ h \notin known \cup lost
        /\ \A i, j \in Nat : Announces(events, i, h) /\ Announces(events, j, h) => i = j
        /\ h \in lost => sock[h] = "conn" /\ h \notin known
        /\ h \in known => sock[h] # "free"
        /\ sock[h] = "conn" => h \in known \cup lost \/ \E i \in Nat : Announces(events, i, h)

HolderInv == TableInv /\ HolderType /\ HeldOnce(Pending)

(* The initial state satisfies the holders' invariant. *)
LEMMA HolderInitInv == Init => HolderInv
  <1> SUFFICES ASSUME Init PROVE HolderInv
    OBVIOUS
  <1>1. TableInv
    BY TableInitInv
  <1>2. ring = << >> /\ reply = << >> /\ known = {} /\ lost = {} /\ sock = [h \in Handles |-> "free"]
    BY DEF Init, RingInit
  <1>3. Pending = << >>
    BY <1>2 DEF Pending
  <1>4. HolderType
    BY <1>2 DEF HolderType
  <1>5. HeldOnce(<< >>)
    BY <1>2 DEF HeldOnce, Announces
  <1> QED
    BY <1>1, <1>3, <1>4, <1>5 DEF HolderInv

(* A step that changes neither events nor holders, and makes no accepted   *)
(* connection or free handle, preserves the invariant.                     *)
LEMMA HolderStutter ==
    ASSUME HolderInv, TableInv', UNCHANGED <<ring, reply, known, lost>>,
           \A h \in Handles : (sock'[h] = "conn" <=> sock[h] = "conn")
                              /\ (sock'[h] = "free" <=> sock[h] = "free")
    PROVE  HolderInv'
  BY DEF HolderInv, HolderType, HeldOnce, Announces, Pending

(* One more event at the end of a sequence of events. *)
LEMMA AppendAnnounces ==
    ASSUME NEW s \in Seq(EventType), NEW e \in EventType, NEW h \in Handles, NEW i \in Nat
    PROVE  Announces(Append(s, e), i, h) <=>
               Announces(s, i, h) \/ (i = Len(s) + 1 /\ e.handle = h)
  BY DEF Announces

(* Pushing to the ring appends to the pending events. *)
LEMMA PushAppends ==
    ASSUME HolderType, NEW e \in EventType, ring' = Append(ring, e), reply' = reply
    PROVE  /\ Pending \in Seq(EventType) /\ Pending' = Append(Pending, e)
           /\ ring' \in Seq(EventType) /\ reply' \in Seq(EventType)
  BY DEF HolderType, Pending

(* wifi_conn_set's event announces no handle. *)
LEMMA HolderWifiInv == HolderInv /\ WifiPush => HolderInv'
  <1> SUFFICES ASSUME HolderInv, WifiPush PROVE HolderInv'
    OBVIOUS
  <1>1. UNCHANGED <<sock, listen_handles, reply, known, lost>>
    BY DEF WifiPush
  <1>2. TableInv'
    BY <1>1, TableStutter DEF HolderInv
  <1>3. CASE ring' = ring
    BY <1>1, <1>2, <1>3, HolderStutter
  <1>4. CASE ring' = Append(ring, WifiEvent)
    <2>1. WifiEvent \in EventType /\ WifiEvent.handle = 0 /\ 0 \notin Handles
      BY RingBounds DEF WifiEvent, EventType, Handles
    <2>2. /\ Pending \in Seq(EventType) /\ Pending' = Append(Pending, WifiEvent)
          /\ ring' \in Seq(EventType) /\ reply' \in Seq(EventType)
      BY <1>1, <1>4, <2>1, PushAppends DEF HolderInv
    <2>3. \A h \in Handles, i \in Nat :
             Announces(Pending', i, h) <=> Announces(Pending, i, h)
      BY <2>1, <2>2, AppendAnnounces
    <2>4. HeldOnce(Pending)'
      BY <1>1, <2>3 DEF HolderInv, HeldOnce
    <2> QED
      BY <1>1, <1>2, <2>2, <2>4 DEF HolderInv, HolderType
  <1> QED
    BY <1>3, <1>4 DEF WifiPush, Pushed

(* The pump's new connection was free, hence nobody's, and is announced    *)
(* by the event at the end of the ring.                                    *)
LEMMA HolderPumpInv == HolderInv /\ cc3501e_hw_sock_accept_pump => HolderInv'
  <1> SUFFICES ASSUME HolderInv, cc3501e_hw_sock_accept_pump PROVE HolderInv'
    OBVIOUS
  <1>1. TableInv'
    BY TablePumpInv DEF HolderInv
  <1>2. CASE PumpNone \/ PumpRefused
    BY <1>1, <1>2, HolderStutter DEF PumpNone, PumpRefused
  <1>3. CASE PumpAccept /\ Full
    BY <1>1, <1>3, HolderStutter DEF PumpAccept, Pushed
  <1>4. CASE PumpAccept /\ ~Full
    <2>1. PICK f \in Handles : /\ sock[f] = "free" /\ sock' = [sock EXCEPT ![f] = "conn"]
                               /\ ring' = Append(ring, Accepted(f))
      BY <1>4, MinFree DEF PumpAccept, Pushed
    <2>2. UNCHANGED <<reply, known, lost>>
      BY <1>4 DEF PumpAccept
    <2>3. Accepted(f) \in EventType /\ Accepted(f).handle = f
      BY DEF Accepted, EventType
    <2>4. /\ Pending \in Seq(EventType) /\ Pending' = Append(Pending, Accepted(f))
          /\ ring' \in Seq(EventType) /\ reply' \in Seq(EventType)
      BY <2>1, <2>2, <2>3, PushAppends DEF HolderInv
    <2>5. Len(Pending) + 1 \in Nat
      BY <2>4
    <2>6. \A h \in Handles, i \in Nat :
             Announces(Pending', i, h) <=>
                 Announces(Pending, i, h) \/ (i = Len(Pending) + 1 /\ f = h)
      BY <2>3, <2>4, AppendAnnounces
    <2>7. f \notin known \cup lost /\ \A i \in Nat : ~Announces(Pending, i, f)
      BY <2>1 DEF HolderInv, HeldOnce
    <2>8. \A h \in Handles : sock'[h] = IF h = f THEN "conn" ELSE sock[h]
      BY <2>1 DEF HolderInv, TableInv, TableType
    <2>9. HeldOnce(Pending)'
      <3> SUFFICES ASSUME NEW h \in Handles
                   PROVE  /\ \A i \in Nat : Announces(Pending', i, h) =>
                                sock'[h] = "conn" /\ h \notin known \cup lost
                          /\ \A i, j \in Nat :
                                Announces(Pending', i, h) /\ Announces(Pending', j, h) => i = j
                          /\ h \in lost => sock'[h] = "conn" /\ h \notin known
                          /\ h \in known => sock'[h] # "free"
                          /\ sock'[h] = "conn" => h \in known \cup lost
                                                  \/ \E i \in Nat : Announces(Pending', i, h)
        BY <2>2 DEF HeldOnce
      <3>1. CASE h = f
        BY <2>5, <2>6, <2>7, <2>8, <3>1
      <3>2. CASE h # f
        BY <2>6, <2>8, <3>2 DEF HolderInv, HeldOnce
      <3> QED
        BY <3>1, <3>2
    <2> QED
      BY <1>1, <2>2, <2>4, <2>9 DEF HolderInv, HolderType
  <1> QED
    BY <1>2, <1>3, <1>4 DEF cc3501e_hw_sock_accept_pump

(* SOCK_OPEN hands the host a handle that was free.                        *)
LEMMA HolderOpenInv == HolderInv /\ cc3501e_hw_sock_open => HolderInv'
  <1> SUFFICES ASSUME HolderInv, cc3501e_hw_sock_open PROVE HolderInv'
    OBVIOUS
  <1>1. TableInv'
    BY TableOpenInv DEF HolderInv
  <1>2. PICK f \in Handles : /\ sock[f] = "free" /\ sock' = [sock EXCEPT ![f] = "open"]
                             /\ known' = known \cup {f}
    BY MinFree DEF cc3501e_hw_sock_open
  <1>3. UNCHANGED <<ring, reply, lost>>
    BY DEF cc3501e_hw_sock_open
  <1>4. \A h \in Handles : sock'[h] = IF h = f THEN "open" ELSE sock[h]
    BY <1>2 DEF HolderInv, TableInv, TableType
  <1>5. Pending' = Pending
    BY <1>3 DEF Pending
  <1>6. HeldOnce(Pending)'
    BY <1>2, <1>3, <1>4, <1>5 DEF HolderInv, HeldOnce, Announces
  <1> QED
    BY <1>1, <1>2, <1>3, <1>6 DEF HolderInv, HolderType

(* SOCK_LISTEN makes no connection and frees none. *)
LEMMA HolderListenInv ==
    ASSUME HolderInv, NEW h \in Handles, cc3501e_hw_sock_listen(h)
    PROVE  HolderInv'
  <1>1. TableInv'
    BY TableListenInv DEF HolderInv
  <1>2. /\ UNCHANGED <<ring, reply, known, lost>>
        /\ sock[h] \in {"open", "listening"}
        /\ sock' = sock \/ sock' = [sock EXCEPT ![h] = "listening"]
    BY DEF cc3501e_hw_sock_listen
  <1>3. \A g \in Handles : (sock'[g] = "conn" <=> sock[g] = "conn")
                           /\ (sock'[g] = "free" <=> sock[g] = "free")
    BY <1>2 DEF HolderInv, TableInv, TableType
  <1> QED
    BY <1>1, <1>2, <1>3, HolderStutter

(* SOCK_CLOSE frees a handle that only the host holds. *)
LEMMA HolderCloseInv ==
    ASSUME HolderInv, NEW h \in Handles, cc3501e_hw_sock_close(h)
    PROVE  HolderInv'
  <1>1. TableInv'
    BY TableCloseInv DEF HolderInv
  <1>2. /\ UNCHANGED <<ring, reply, lost>> /\ h \in known
        /\ known' = known \ {h} /\ sock' = [sock EXCEPT ![h] = "free"]
    BY DEF cc3501e_hw_sock_close
  <1>3. \A g \in Handles : sock'[g] = IF g = h THEN "free" ELSE sock[g]
    BY <1>2 DEF HolderInv, TableInv, TableType
  <1>4. Pending' = Pending
    BY <1>2 DEF Pending
  <1>5. HeldOnce(Pending)'
    BY <1>2, <1>3, <1>4 DEF HolderInv, HeldOnce, Announces
  <1> QED
    BY <1>1, <1>2, <1>5 DEF HolderInv, HolderType

(* No entries take no room. *)
LEMMA NoRoom == RoomFor(0) = 0
  <1> DEFINE e == SubSeq(ring, 1, 0)
             G(g) == g = [s \in SUBSET (DOMAIN e) |-> IF s = {} THEN 0
                          ELSE Units(e[CHOOSE x \in s : TRUE]) + g[s \ {CHOOSE x \in s : TRUE}]]
             f == [s \in SUBSET {} |-> 0]
             c == CHOOSE g : G(g)
  <1>1. e = << >> /\ DOMAIN e = {}
    OBVIOUS
  <1>2. RoomFor(0) = c[DOMAIN e]
    BY DEF RoomFor, FoldSeq, FoldFunction, FoldFunctionOnSet, MapThenFoldSet
  <1> HIDE DEF e
  <1>3. G(f)
    BY <1>1
  <1> HIDE DEF G, f
  <1>4. G(c)
    BY <1>3
  <1>5. c[{}] = 0
    BY <1>1, <1>4 DEF G
  <1> QED
    BY <1>1, <1>2, <1>5

(* The greatest element of a set of numbers up to n is one of them. *)
LEMMA MaxIsElement ==
    ASSUME NEW n \in Nat, NEW S \in SUBSET (0 .. n), S # {}
    PROVE  Max(S) \in S
  <1> DEFINE T == {n - k : k \in S}
  <1>1. T \in SUBSET Nat /\ T # {}
    <2>1. \A k \in S : n - k \in Nat
      OBVIOUS
    <2> QED
      BY <2>1
  <1>2. PICK t \in T : \A u \in T : t <= u
    BY <1>1, LeastElement
  <1>3. PICK m \in S : t = n - m
    OBVIOUS
  <1>4. ASSUME NEW k \in S PROVE m >= k
    <2>1. n - m <= n - k
      BY <1>2, <1>3
    <2> QED
      BY <2>1
  <1> QED
    BY <1>4 DEF Max

(* Two sequences put together. *)
LEMMA Appends ==
    ASSUME NEW S, NEW w \in Seq(S), NEW v \in Seq(S)
    PROVE  /\ w \o v \in Seq(S)
           /\ Len(w \o v) = Len(w) + Len(v)
           /\ \A j \in 1 .. Len(w) : (w \o v)[j] = w[j]
           /\ \A j \in 1 .. Len(v) : (w \o v)[Len(w) + j] = v[j]
  OBVIOUS

(* Sequences with the same entries are equal. *)
LEMMA SameSeq ==
    ASSUME NEW S, NEW s \in Seq(S), NEW t \in Seq(S), Len(s) = Len(t),
           \A i \in 1 .. Len(t) : s[i] = t[i]
    PROVE  s = t
  OBVIOUS

(* The first n entries and the rest. *)
LEMMA SplitSeq ==
    ASSUME NEW S, NEW s \in Seq(S), NEW n \in 0 .. Len(s)
    PROVE  /\ SubSeq(s, 1, n) \in Seq(S) /\ SubSeq(s, n + 1, Len(s)) \in Seq(S)
           /\ SubSeq(s, 1, n) \o SubSeq(s, n + 1, Len(s)) = s
  <1>1. PICK l \in Nat : l = Len(s)
    OBVIOUS
  <1>2. n \in Nat /\ n <= l
    BY <1>1
  <1> DEFINE a == SubSeq(s, 1, n)
             b == SubSeq(s, n + 1, Len(s))
  <1>3. a \in Seq(S) /\ Len(a) = n /\ \A i \in 1 .. n : a[i] = s[i]
    OBVIOUS
  <1>4. b \in Seq(S) /\ Len(b) = l - n /\ \A i \in 1 .. l - n : b[i] = s[n + i]
    BY <1>1, <1>2
  <1> HIDE DEF a, b
  <1>5. a \o b \in Seq(S) /\ Len(a \o b) = n + (l - n)
    BY <1>3, <1>4, Appends
  <1>6. Len(a \o b) = Len(s)
    BY <1>1, <1>2, <1>5
  <1>7. ASSUME NEW i \in 1 .. Len(s) PROVE (a \o b)[i] = s[i]
    <2>1. i \in 1 .. l /\ i \in 1 .. Len(a) + Len(b)
      BY <1>1, <1>2, <1>3, <1>4
    <2>2. CASE i <= n
      BY <1>3, <1>4, <2>1, <2>2
    <2>3. CASE i > n
      <3>1. PICK j \in 1 .. l - n : i = n + j
        <4>1. i - n \in 1 .. l - n /\ i = n + (i - n)
          BY <1>2, <2>1, <2>3
        <4> QED BY <4>1
      <3>2. (a \o b)[n + j] = b[j]
        BY <1>3, <1>4
      <3> QED BY <1>4, <3>1, <3>2
    <2> QED BY <1>2, <2>1, <2>2, <2>3
  <1>8. a \o b = s
    BY <1>5, <1>6, <1>7, SameSeq
  <1> QED
    BY <1>3, <1>4, <1>8 DEF a, b

(* GET_PENDING_EVENTS moves entries from the head of the ring to the       *)
(* reply, and what is pending stays what it was, in its order.             *)
LEMMA DrainKeepsPending ==
    ASSUME HolderType, event_ring_drain
    PROVE  Pending' = Pending /\ ring' \in Seq(EventType) /\ reply' \in Seq(EventType)
  <1> DEFINE fits == {k \in 0 .. Len(ring) : RoomFor(k) <= DrainCap}
  <1>1. Len(ring) \in Nat /\ ring \in Seq(EventType) /\ reply = << >>
    BY DEF HolderType, event_ring_drain
  <1>2. 0 \in fits
    BY <1>1, NoRoom, RingBounds
  <1>3. fits \in SUBSET (0 .. Len(ring)) /\ fits # {}
    BY <1>2
  <1>4. reply' = SubSeq(ring, 1, Max(fits)) /\ ring' = SubSeq(ring, Max(fits) + 1, Len(ring))
    BY DEF event_ring_drain
  <1> HIDE DEF fits
  <1>5. Max(fits) \in 0 .. Len(ring)
    BY <1>1, <1>3, MaxIsElement
  <1>6. ASSUME NEW n \in 0 .. Len(ring)
        PROVE  /\ SubSeq(ring, 1, n) \o SubSeq(ring, n + 1, Len(ring)) = ring
               /\ SubSeq(ring, 1, n) \in Seq(EventType)
               /\ SubSeq(ring, n + 1, Len(ring)) \in Seq(EventType)
    BY <1>1, SplitSeq
  <1>7. Pending = ring
    BY <1>1 DEF Pending
  <1> QED
    BY <1>4, <1>5, <1>6, <1>7 DEF Pending

(* A drain changes no holder. *)
LEMMA HolderDrainInv == HolderInv /\ event_ring_drain => HolderInv'
  <1> SUFFICES ASSUME HolderInv, event_ring_drain PROVE HolderInv'
    OBVIOUS
  <1>1. UNCHANGED <<sock, listen_handles, known, lost>>
    BY DEF event_ring_drain
  <1>2. TableInv'
    BY <1>1, TableStutter DEF HolderInv
  <1>3. Pending' = Pending /\ ring' \in Seq(EventType) /\ reply' \in Seq(EventType)
    BY DrainKeepsPending DEF HolderInv
  <1> QED
    BY <1>1, <1>2, <1>3 DEF HolderInv, HolderType, HeldOnce, Announces

(* The handles of a reply that arrives, or is lost, become the host's, or  *)
(* lost ones, and are announced no more.                                   *)
LEMMA HolderReplyInv == HolderInv /\ ReplyArrives => HolderInv'
  <1> SUFFICES ASSUME HolderInv, ReplyArrives PROVE HolderInv'
    OBVIOUS
  <1> DEFINE told == {reply[i].handle : i \in DOMAIN reply} \ {0}
  <1>1. UNCHANGED <<sock, listen_handles, ring>> /\ reply' = << >>
    BY DEF ReplyArrives
  <1>2. TableInv'
    BY <1>1, TableStutter DEF HolderInv
  <1>3. (known' = known \cup told /\ lost' = lost) \/ (lost' = lost \cup told /\ known' = known)
    BY DEF ReplyArrives
  <1>4. reply \in Seq(EventType) /\ ring \in Seq(EventType) /\ Pending \in Seq(EventType)
    BY DEF HolderInv, HolderType, Pending
  <1>5. Pending' = ring
    BY <1>1, <1>4 DEF Pending
  <1>6. told \in SUBSET Handles
    <2>1. \A i \in DOMAIN reply : reply[i] \in EventType
      BY <1>4
    <2>2. \A e \in EventType : e.handle \in {0} \cup Handles
      BY DEF EventType
    <2> QED
      BY <2>1, <2>2
  <1>7. \A h \in Handles : h \in told <=> \E i \in Nat : Announces(reply, i, h)
    BY <1>4, RingBounds DEF Announces, Handles
  <1> HIDE DEF told
  <1>8. /\ \A h \in Handles, i \in Nat : Announces(ring, i, h) => Announces(Pending, Len(reply) + i, h)
        /\ \A h \in Handles, i \in Nat : Announces(reply, i, h) => Announces(Pending, i, h)
        /\ \A h \in Handles, i \in Nat : Announces(Pending, i, h) =>
              Announces(reply, i, h) \/ (i - Len(reply) \in Nat /\ Announces(ring, i - Len(reply), h))
    BY <1>4 DEF Announces, Pending
  <1>9. Len(reply) \in Nat
    BY <1>4
  <1>10. HeldOnce(Pending)'
    <2> SUFFICES ASSUME NEW h \in Handles
                 PROVE  /\ \A i \in Nat : Announces(ring, i, h) =>
                              sock[h] = "conn" /\ h \notin known' \cup lost'
                        /\ \A i, j \in Nat : Announces(ring, i, h) /\ Announces(ring, j, h) => i = j
                        /\ h \in lost' => sock[h] = "conn" /\ h \notin known'
                        /\ h \in known' => sock[h] # "free"
                        /\ sock[h] = "conn" => h \in known' \cup lost'
                                               \/ \E i \in Nat : Announces(ring, i, h)
      BY <1>1, <1>5 DEF HeldOnce
    <2>1. h \in told => sock[h] = "conn" /\ h \notin known \cup lost
      BY <1>7, <1>8 DEF HolderInv, HeldOnce
    <2>2. ASSUME NEW i \in Nat, Announces(ring, i, h)
          PROVE  sock[h] = "conn" /\ h \notin known \cup lost \cup told
      <3>1. Announces(Pending, Len(reply) + i, h) /\ Len(reply) + i \in Nat
        BY <1>8, <1>9, <2>2
      <3>2. sock[h] = "conn" /\ h \notin known \cup lost
        BY <3>1 DEF HolderInv, HeldOnce
      <3>3. ASSUME NEW j \in Nat, Announces(reply, j, h) PROVE FALSE
        <4>1. Announces(Pending, j, h)
          BY <1>8, <3>3
        <4>2. j = Len(reply) + i
          BY <3>1, <4>1 DEF HolderInv, HeldOnce
        <4> QED
          BY <1>9, <2>2, <3>3, <4>2 DEF Announces
      <3> QED
        BY <1>7, <3>2, <3>3
    <2>3. ASSUME NEW i \in Nat, NEW j \in Nat, Announces(ring, i, h), Announces(ring, j, h)
          PROVE  i = j
      <3>1. Len(reply) + i = Len(reply) + j
        <4>1. Len(reply) + i \in Nat /\ Len(reply) + j \in Nat
          BY <1>9
        <4>2. Announces(Pending, Len(reply) + i, h) /\ Announces(Pending, Len(reply) + j, h)
          BY <1>8, <2>3
        <4> QED
          BY <4>1, <4>2 DEF HolderInv, HeldOnce
      <3> QED
        BY <1>9, <3>1
    <2>4. ASSUME sock[h] = "conn", h \notin known \cup lost \cup told
          PROVE  \E i \in Nat : Announces(ring, i, h)
      <3>1. PICK i \in Nat : Announces(Pending, i, h)
        BY <2>4 DEF HolderInv, HeldOnce
      <3> QED
        BY <1>7, <1>8, <2>4, <3>1
    <2>5. known' \cup lost' = known \cup lost \cup told
      BY <1>3
    <2>6. (h \in lost => sock[h] = "conn" /\ h \notin known) /\ (h \in known => sock[h] # "free")
      BY DEF HolderInv, HeldOnce
    <2> QED
      BY <1>3, <2>1, <2>2, <2>3, <2>4, <2>5, <2>6
  <1>11. HolderType'
    BY <1>1, <1>3, <1>4, <1>6 DEF HolderInv, HolderType
  <1> QED
    BY <1>2, <1>10, <1>11 DEF HolderInv

(* Every step of the system preserves the holders' invariant. *)
LEMMA HolderNextInv == HolderInv /\ [Next]_vars => HolderInv'
  <1> SUFFICES ASSUME HolderInv, [Next]_vars PROVE HolderInv'
    OBVIOUS
  <1>1. UNCHANGED <<sock, listen_handles, ring, reply, known, lost>> => HolderInv'
    BY TableStutter, HolderStutter DEF HolderInv
  <1>2. CASE Applying \/ RunNothing \/ RunRadioBody \/ PowerService \/ DispatchPowerPolicy
    BY <1>1, <1>2
       DEF Applying, RunNothing, RunRadioBody, PowerService, DispatchPowerPolicy, ringVars
  <1>3. CASE RunWifiBody
    BY <1>3, HolderWifiInv DEF RunWifiBody
  <1>4. CASE RunSocketBody
    BY <1>4, HolderOpenInv, HolderListenInv, HolderCloseInv DEF RunSocketBody
  <1>5. CASE Pump
    BY <1>5, HolderPumpInv DEF Pump
  <1>6. CASE DispatchGetPendingEvents
    BY <1>6, HolderDrainInv DEF DispatchGetPendingEvents
  <1>7. CASE Outside
    BY <1>1, <1>7, HolderReplyInv DEF Outside, ClientConnects
  <1>8. CASE UNCHANGED vars
    BY <1>1, <1>8 DEF vars, ringVars
  <1> QED
    BY <1>2, <1>3, <1>4, <1>5, <1>6, <1>7, <1>8 DEF Next, TaskStep

(* A set has one element exactly when it is a singleton: here, that a      *)
(* singleton has one, and the empty set none.                              *)
LEMMA CardinalityOfOne == ASSUME NEW x PROVE Cardinality({x}) = 1
  <1> DEFINE G(g) == g = [T \in SUBSET {x} |-> IF T = {} THEN 0 ELSE 1 + g[T \ {CHOOSE y : y \in T}]]
             c == CHOOSE g : G(g)
             f == [T \in SUBSET {x} |-> IF T = {} THEN 0 ELSE 1]
  <1>1. Cardinality({x}) = c[{x}]
    BY DEF Cardinality
  <1>2. (CHOOSE y : y \in {x}) = x /\ {x} \ {x} = {} /\ \A T \in SUBSET {x} : T = {} \/ T = {x}
    OBVIOUS
  <1>3. f[{}] = 0 /\ f[{x}] = 1
    OBVIOUS
  <1>4. \A T \in SUBSET {x} : f[T] = IF T = {} THEN 0 ELSE 1 + f[T \ {CHOOSE y : y \in T}]
    BY <1>2, <1>3
  <1>5. G(f)
    BY <1>4
  <1> HIDE DEF G
  <1>6. G(c)
    BY <1>5
  <1>7. c[{}] = 0 /\ c[{x}] = 1 + c[{x} \ {CHOOSE y : y \in {x}}]
    BY <1>6 DEF G
  <1> QED
    BY <1>1, <1>2, <1>7

(* The empty set has no element. *)
LEMMA CardinalityOfNone == Cardinality({}) = 0
  <1> DEFINE G(g) == g = [T \in SUBSET {} |-> IF T = {} THEN 0 ELSE 1 + g[T \ {CHOOSE y : y \in T}]]
             c == CHOOSE g : G(g)
             f == [T \in SUBSET {} |-> 0]
  <1>1. Cardinality({}) = c[{}]
    BY DEF Cardinality
  <1>2. G(f)
    OBVIOUS
  <1> HIDE DEF G, f
  <1>3. G(c)
    BY <1>2
  <1>4. c[{}] = 0
    BY <1>3 DEF G
  <1> QED
    BY <1>1, <1>4

(* Every accepted connection has exactly one holder: the host, one event   *)
(* in the ring or in the reply on its way, or a reply that was lost        *)
(* (src/hal/ti/cc3501e_hw_ti_sock.c:430-436).                              *)
THEOREM AcceptedHeld == Spec => []AcceptedIsHeld
  <1>1. HolderInv => AcceptedIsHeld
    <2> SUFFICES ASSUME HolderInv, NEW h \in Handles, sock[h] = "conn"
                 PROVE  Cardinality({i \in DOMAIN Pending : Pending[i].handle = h})
                        + Cardinality({h} \cap known) + Cardinality({h} \cap lost) = 1
      BY DEF AcceptedIsHeld, Pending
    <2> DEFINE holders == {i \in DOMAIN Pending : Pending[i].handle = h}
    <2>1. Pending \in Seq(EventType)
      BY DEF HolderInv, HolderType, Pending
    <2>2. \A i \in Nat : i \in holders <=> Announces(Pending, i, h)
      BY <2>1 DEF Announces
    <2>3. holders \subseteq Nat
      BY <2>1
    <2> HIDE DEF holders
    <2>4. \/ holders = {} /\ {h} \cap known = {h} /\ {h} \cap lost = {}
          \/ holders = {} /\ {h} \cap known = {} /\ {h} \cap lost = {h}
          \/ (\E i \in Nat : holders = {i}) /\ {h} \cap known = {} /\ {h} \cap lost = {}
      <3>1. CASE h \in known
        BY <2>2, <2>3, <3>1 DEF HolderInv, HeldOnce
      <3>2. CASE h \in lost
        BY <2>2, <2>3, <3>2 DEF HolderInv, HeldOnce
      <3>3. CASE h \notin known \cup lost
        <4>1. PICK i \in Nat : Announces(Pending, i, h)
          BY <3>3 DEF HolderInv, HeldOnce
        <4>2. \A j \in Nat : Announces(Pending, j, h) => j = i
          BY <4>1 DEF HolderInv, HeldOnce
        <4>3. holders = {i}
          BY <2>2, <2>3, <4>1, <4>2
        <4> QED
          BY <3>3, <4>3
      <3> QED
        BY <3>1, <3>2, <3>3
    <2>5. Cardinality(holders) + Cardinality({h} \cap known) + Cardinality({h} \cap lost) = 1
      <3>1. Cardinality({h}) = 1 /\ \A i \in Nat : Cardinality({i}) = 1
        BY CardinalityOfOne
      <3>2. CASE holders = {} /\ {h} \cap known = {h} /\ {h} \cap lost = {}
        BY <3>1, <3>2, CardinalityOfNone
      <3>3. CASE holders = {} /\ {h} \cap known = {} /\ {h} \cap lost = {h}
        BY <3>1, <3>3, CardinalityOfNone
      <3>4. CASE (\E i \in Nat : holders = {i}) /\ {h} \cap known = {} /\ {h} \cap lost = {}
        <4>1. Cardinality(holders) = 1
          BY <3>1, <3>4
        <4>2. Cardinality({h} \cap known) = 0 /\ Cardinality({h} \cap lost) = 0
          BY <3>4, CardinalityOfNone
        <4> QED
          BY <4>1, <4>2
      <3> QED
        BY <2>4, <3>2, <3>3, <3>4
    <2> QED
      BY <2>5 DEF holders
  <1> QED
    BY HolderInitInv, HolderNextInv, <1>1, PTL DEF Spec
===============================================================================
