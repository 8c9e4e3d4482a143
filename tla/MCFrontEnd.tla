----------------------------- MODULE MCFrontEnd -----------------------------
(* Every command, and a value of SET_RADIO that names no radio.            *)
EXTENDS FrontEnd

AllCommands == {"start", "stop", "scan", "energy", "powerCycle"}
NoRadio == {"none"}
=============================================================================
