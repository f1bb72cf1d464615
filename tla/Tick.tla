---------------------------------- MODULE Tick --------------------------------
(***************************************************************************)
(* The bring-up task's loop (src/src/main.c, cc3501e_hw_tick in            *)
(* src/hal/ti/cc3501e_hw_ti.c) around the parts of the tick that share     *)
(* state with the SPI dispatch and with the worker's bodies: each round    *)
(* the task runs at most one body, then the accept pump, then the power    *)
(* service, and none of the three begins before the one before has ended.  *)
(*                                                                         *)
(* The tick's other parts are in their own modules: the link heals in      *)
(* SpiLink, the OTA pump and the reboots in Ota, the RX pump in SockRecv.  *)
(***************************************************************************)
EXTENDS EventRing, Power

CONSTANT Traffics    \* the families a host may use in a behaviour

ASSUME TickTraffic == Traffics \subseteq SUBSET {"events", "power"}

VARIABLES
    traffic,  \* which of the two families the host uses: never changes
    task      \* where the task is in its round: worker, pump, power

vars == <<traffic, task, ringVars, powerVars>>

Init ==
    /\ traffic \in Traffics
    /\ task = "worker"
    /\ RingInit /\ PowerInit

-------------------------------------------------------------------------------
(* The task.  A policy being applied is applied to the end first. *)

Applying ==
    /\ pp_apply_core \/ pp_apply_radio_effective \/ pp_apply_radio
    /\ UNCHANGED <<traffic, task, ringVars>>

(* worker_run_pending with no job, a Wi-Fi body that publishes a state, a  *)
(* socket body, or a body that sets the radio's power.                     *)
RunNothing ==
    /\ task = "worker" /\ apply = "none"
    /\ task' = "pump"
    /\ UNCHANGED <<traffic, ringVars, powerVars>>

RunWifiBody ==
    /\ task = "worker" /\ apply = "none" /\ "events" \in traffic
    /\ WifiPush
    /\ task' = "pump"
    /\ UNCHANGED <<traffic, powerVars>>

RunSocketBody ==
    /\ task = "worker" /\ apply = "none" /\ "events" \in traffic
    /\ \/ cc3501e_hw_sock_open
       \/ \E h \in Handles : cc3501e_hw_sock_listen(h) \/ cc3501e_hw_sock_close(h)
    /\ task' = "pump"
    /\ UNCHANGED <<traffic, powerVars>>

RunRadioBody ==
    /\ task = "worker" /\ apply = "none" /\ "power" \in traffic
    /\ StaRoleUp \/ ApStart \/ ApStop \/ BleEnable
    /\ task' = "pump"
    /\ UNCHANGED <<traffic, ringVars>>

(* The pump goes over the whole table. *)
Pump ==
    /\ task = "pump" /\ apply = "none"
    /\ cc3501e_hw_sock_accept_pump
    /\ task' = IF slot = ListenMax THEN "power" ELSE "pump"
    /\ UNCHANGED <<traffic, powerVars>>

PowerService ==
    /\ task = "power" /\ apply = "none"
    /\ PowerTake
    /\ task' = "worker"
    /\ UNCHANGED <<traffic, ringVars>>

TaskStep ==
    \/ Applying
    \/ RunNothing \/ RunWifiBody \/ RunSocketBody \/ RunRadioBody
    \/ Pump \/ PowerService

-------------------------------------------------------------------------------
(* The SPI dispatch and the network, between any two task steps. *)

DispatchPowerPolicy ==
    /\ "power" \in traffic
    /\ \E p \in Policies, wakes \in BOOLEAN : cc3501e_hw_set_power_policy(p, wakes)
    /\ UNCHANGED <<traffic, task, ringVars>>

DispatchGetPendingEvents ==
    /\ event_ring_drain
    /\ UNCHANGED <<traffic, task, powerVars>>

Outside ==
    /\ "events" \in traffic
    /\ ReplyArrives \/ \E h \in Handles : ClientConnects(h)
    /\ UNCHANGED <<traffic, task, powerVars>>

Next == TaskStep \/ DispatchPowerPolicy \/ DispatchGetPendingEvents \/ Outside

(* The task keeps running.  Host and clients owe nothing. *)
Spec == Init /\ [][Next]_vars /\ WF_vars(TaskStep)

-------------------------------------------------------------------------------

(* A client that waits on a listening socket is taken or turned away,      *)
(* whatever the other listeners do, unless the listener is closed first.   *)
ClientsTaken == \A h \in Handles : backlog[h] ~> ~backlog[h]

(* A policy the host latched reaches the core, with or without a radio     *)
(* role, unless the host replaces it first.                                *)
PolicyLands ==
    \A p \in Policies :
        (pp_host_set_policy /\ pp_policy_latched = p)
            ~> (pp_policy_latched # p \/ pp_constraints_held = ConstraintsOf(p))

(* Every round the task serves both: what a client and what the host's     *)
(* policy wait for happens (src/hal/ti/cc3501e_hw_ti.c:467-475).           *)
TickServes == ClientsTaken /\ PolicyLands
===============================================================================
