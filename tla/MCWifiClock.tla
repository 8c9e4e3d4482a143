---------------------------- MODULE MCWifiClock -----------------------------
(* The Wi-Fi receiver's clock on its own, from just before a wrap.         *)
EXTENDS WifiClock

Spec == ClockInit({0, Wrap - 2}) /\ [][ClockNext]_wvars
=============================================================================
