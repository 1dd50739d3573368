------------------------ MODULE MCHelicsPDCApplication ------------------------
(***************************************************************************)
(* Values for model checking HelicsPDCApplication.                         *)
(***************************************************************************)
EXTENDS HelicsPDCApplication, TLC

MCJitters == {1, 2}

SenderSymmetry == Permutations(Senders)
===============================================================================
