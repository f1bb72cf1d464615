------------------------------- MODULE MCWifi -------------------------------
(* Wifi for TLC: every job, and a first wait that is woken early, at the    *)
(* last second that leaves room for a retry, one second later, at the end.  *)
EXTENDS Wifi

MCAllJobs == AllJobs
MCWakes == {0, 14, 15, 30}
=============================================================================
