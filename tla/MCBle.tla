--------------------------------- MODULE MCBle --------------------------------
(* The BLE adapter for TLC. *)
EXTENDS Ble

MCWorkloads ==
    {{"scan", "scan_stop", "adv_start", "disable", "register"},
     {"adv_start", "adv_stop", "connect", "disconnect"},
     {"connect", "read", "write"}}
===============================================================================
