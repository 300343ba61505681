------------------------------- MODULE MCEvClient -------------------------------
(***************************************************************************)
(* EvClient for TLC.  The seven register blocks of _read_registers in      *)
(* their order, and, for the runs whose question needs no more, the three  *)
(* whose fields the module keeps.                                          *)
(***************************************************************************)
EXTENDS EvClient

AllBlocks == <<"main", "completion", "energy", "car", "plug", "phase", "setpoint">>
KeptBlocks == <<"main", "car", "setpoint">>
OneDemand == {0, 10050}
TwoDemands == {0, 4400, 10050}
AllModes == {"Standby", "Eco"}

===============================================================================
