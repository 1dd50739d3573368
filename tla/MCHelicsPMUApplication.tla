------------------------ MODULE MCHelicsPMUApplication ------------------------
(***************************************************************************)
(* Values for model checking HelicsPMUApplication: four samples (1, 4, 7   *)
(* and 10) before the stop time 11; the application is stopped before, at  *)
(* and after it, the last time late enough for every packet to leave.      *)
(***************************************************************************)
EXTENDS HelicsPMUApplication

MCAppStops == {6, 11, 14}

\* The largest one is as long as the period: a packet may leave after the
\* next sample was taken.
MCJitters == {1, 3}

\* The samples at 1 and 7 are half-way between two time stamps.
MCTiesDown == {7}
===============================================================================
