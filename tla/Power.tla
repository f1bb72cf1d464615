--------------------------------- MODULE Power --------------------------------
(***************************************************************************)
(* The power policy (src/hal/ti/cc3501e_hw_ti_power.c): POWER_POLICY is    *)
(* latched in the SPI dispatch, which may not call the blocking driver,    *)
(* and applied by the bring-up task, to the core (power constraints) and   *)
(* to the radio (power save and power management).  The radio bodies that  *)
(* run on the same task, STA role-up, AP start and stop, and BLE_ENABLE,   *)
(* set the radio too.  The dispatch may come between any two steps here.   *)
(***************************************************************************)
EXTENDS Naturals

Policies == {"performance", "balanced", "low_power", "deep_sleep"}

VARIABLES
    pp_policy_latched, pp_host_set_policy,
    pp_core_dirty, pp_radio_dirty,
    pp_radio_ok,          \* reported with the next POWER_POLICY reply
    pp_constraints_held,  \* of the core
    ps,                   \* the radio's station power-save mode
    pm,                   \* the radio's device-wide power management mode
    wifi_sta_role_up, ap_up,
    apply,      \* the task's step in applying: none, core, radio, set
    todo,       \* do_core and do_radio of this service
    eff,        \* the policy the radio is being set to
    refused     \* ghost: the radio refused the last power management mode

powerVars == <<pp_policy_latched, pp_host_set_policy, pp_core_dirty, pp_radio_dirty,
               pp_radio_ok, pp_constraints_held, ps, pm, wifi_sta_role_up, ap_up, apply, todo,
               eff, refused>>

latches == <<pp_policy_latched, pp_host_set_policy>>
roles == <<wifi_sta_role_up, ap_up>>

PsOf(p) == CASE p = "performance" -> "active"
             [] p = "balanced" -> "auto"
             [] OTHER -> "power_save"

PmOf(p) == IF p = "performance" THEN "always_active" ELSE "elp"

ConstraintsOf(p) == IF p = "performance" THEN {"sleep", "idle"} ELSE {"sleep"}

Nothing == [core |-> FALSE, radio |-> FALSE]

(* The driver's own defaults are external. *)
PowerInit ==
    /\ pp_policy_latched = "balanced" /\ pp_host_set_policy = FALSE
    /\ pp_core_dirty = FALSE /\ pp_radio_dirty = FALSE
    /\ pp_radio_ok = TRUE
    /\ pp_constraints_held = {}
    /\ ps = "auto" /\ pm = "elp"
    /\ wifi_sta_role_up = FALSE /\ ap_up = FALSE
    /\ apply = "none" /\ todo = Nothing /\ eff = "balanced"
    /\ refused = FALSE

-------------------------------------------------------------------------------

(* POWER_POLICY in the dispatch.  A sleeping policy with nothing to wake   *)
(* from is refused and leaves no trace.                                    *)
cc3501e_hw_set_power_policy(p, wakes) ==
    /\ wakes \/ p \notin {"low_power", "deep_sleep"}
    /\ pp_policy_latched' = p
    /\ pp_host_set_policy' = TRUE
    /\ pp_core_dirty' = TRUE /\ pp_radio_dirty' = TRUE
    /\ UNCHANGED <<pp_radio_ok, pp_constraints_held, ps, pm, roles, apply, todo, eff, refused>>

(* cc3501e_hw_power_service: both marks are read and cleared in one        *)
(* critical section, before anything is applied.                           *)
PowerTake ==
    /\ IF pp_core_dirty \/ pp_radio_dirty
       THEN /\ todo' = [core |-> pp_core_dirty, radio |-> pp_radio_dirty]
            /\ apply' = "core"
       ELSE UNCHANGED <<todo, apply>>
    /\ pp_core_dirty' = FALSE /\ pp_radio_dirty' = FALSE
    /\ UNCHANGED <<latches, pp_radio_ok, pp_constraints_held, ps, pm, roles, eff, refused>>

(* Each constraint is set or released once. *)
pp_apply_core ==
    /\ apply = "core"
    /\ pp_constraints_held' = IF todo.core THEN ConstraintsOf(pp_policy_latched)
                              ELSE pp_constraints_held
    /\ apply' = IF todo.radio THEN "radio" ELSE "none"
    /\ todo' = Nothing
    /\ UNCHANGED <<latches, pp_core_dirty, pp_radio_dirty, pp_radio_ok, ps, pm, roles, eff,
                   refused>>

(* Without a STA role there is nothing to set; until the host has chosen,  *)
(* the radio stays awake.                                                  *)
pp_apply_radio_effective ==
    /\ apply = "radio"
    /\ IF wifi_sta_role_up
       THEN /\ eff' = IF pp_host_set_policy THEN pp_policy_latched ELSE "performance"
            /\ apply' = "set" /\ pp_radio_ok' = pp_radio_ok
       ELSE pp_radio_ok' = TRUE /\ apply' = "none" /\ eff' = eff
    /\ UNCHANGED <<latches, pp_core_dirty, pp_radio_dirty, pp_constraints_held, ps, pm, roles,
                   todo, refused>>

(* Variant for mutation: the policy's mode is used although an AP is up. *)
ManagementIgnoresAp(p) == PmOf(p)

(* A device-wide mode that sleeps is not used while an AP is up. *)
Management(p) == IF ap_up THEN "always_active" ELSE PmOf(p)

(* Variant for mutation: the radio's mark is cleared when it has been set. *)
PpApplyRadioClears ==
    /\ apply = "set"
    /\ ps' = PsOf(eff) /\ pm' = Management(eff)
    /\ pp_radio_ok' = (Management(eff) = PmOf(eff))
    /\ pp_radio_dirty' = FALSE
    /\ apply' = "none"
    /\ UNCHANGED <<latches, pp_core_dirty, pp_constraints_held, roles, todo, eff, refused>>

(* Each Wlan_Set may fail: the listen interval's outcome, if it is set at  *)
(* all, only counts for pp_radio_ok.                                       *)
pp_apply_radio ==
    /\ apply = "set"
    /\ \E psOk, pmOk, lsiOk \in BOOLEAN :
          /\ ps' = IF psOk THEN PsOf(eff) ELSE ps
          /\ pm' = IF pmOk THEN Management(eff) ELSE pm
          /\ refused' = ~pmOk
          /\ pp_radio_ok' = (psOk /\ pmOk /\ Management(eff) = PmOf(eff)
                             /\ (eff \in {"low_power", "deep_sleep"} => lsiOk))
    /\ apply' = "none"
    /\ UNCHANGED <<latches, pp_core_dirty, pp_radio_dirty, pp_constraints_held, roles, todo, eff>>

-------------------------------------------------------------------------------
(* The radio bodies, on the task. *)

(* Wlan_Set of the always-active mode, its outcome ignored. *)
KeepAwake ==
    \E ok \in BOOLEAN :
        /\ pm' = IF ok THEN "always_active" ELSE pm
        /\ refused' = ~ok

(* cc3501e_hw_wifi_ensure_sta_role: the role comes up and the policy is    *)
(* applied at once, before the connect that follows in the same body.      *)
StaRoleUp ==
    /\ ~wifi_sta_role_up
    /\ wifi_sta_role_up' = TRUE
    /\ apply' = "radio"
    /\ UNCHANGED <<latches, pp_core_dirty, pp_radio_dirty, pp_radio_ok, pp_constraints_held, ps,
                   pm, ap_up, todo, eff, refused>>

(* cc3501e_hw_wifi_ap_start: the role-up may fail after the mode is set.   *)
(* The worker publishes the role before the task goes on.                  *)
ApStart ==
    /\ KeepAwake
    /\ ap_up' \in {ap_up, TRUE}
    /\ UNCHANGED <<latches, pp_core_dirty, pp_radio_dirty, pp_radio_ok, pp_constraints_held, ps,
                   wifi_sta_role_up, apply, todo, eff>>

(* cc3501e_hw_wifi_ap_stop: a role-down that fails leaves the AP; else the *)
(* policy is applied again without it.                                     *)
ApStop ==
    /\ ap_up
    /\ \/ UNCHANGED <<ap_up, apply>>
       \/ ap_up' = FALSE /\ apply' = "radio"
    /\ UNCHANGED <<latches, pp_core_dirty, pp_radio_dirty, pp_radio_ok, pp_constraints_held, ps,
                   pm, wifi_sta_role_up, todo, eff, refused>>

(* cc3501e_hw_ble_enable keeps the radio awake for its own bring-up. *)
BleEnable ==
    /\ KeepAwake
    /\ UNCHANGED <<latches, pp_core_dirty, pp_radio_dirty, pp_radio_ok, pp_constraints_held, ps,
                   roles, apply, todo, eff>>

-------------------------------------------------------------------------------

(* When the task is not applying and no mark is set, the core holds the    *)
(* constraints of the host's last policy, and, with a STA role and no      *)
(* failure reported, the radio its power-save mode; its management mode is *)
(* that policy's, or awake.  A policy latched while an older one was being *)
(* applied is not lost, and the older one does not win                     *)
(* (src/hal/ti/cc3501e_hw_ti_power.c:466-503).                             *)
QuietIsApplied ==
    apply = "none" /\ pp_host_set_policy =>
        /\ ~pp_core_dirty => pp_constraints_held = ConstraintsOf(pp_policy_latched)
        /\ ~pp_radio_dirty /\ wifi_sta_role_up /\ pp_radio_ok =>
              /\ ps = PsOf(pp_policy_latched)
              /\ pm \in {PmOf(pp_policy_latched), "always_active"}

(* While an AP is up the device-wide mode is not a sleeping one, whatever  *)
(* policy the host sets and in whatever order the roles came up, unless    *)
(* the radio refused the last mode it was given                            *)
(* (src/hal/ti/cc3501e_hw_ti_power.c:317-322).                             *)
ApStaysAwake == ap_up /\ ~refused => pm = "always_active"
===============================================================================
