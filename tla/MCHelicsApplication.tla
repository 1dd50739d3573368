-------------------------- MODULE MCHelicsApplication --------------------------
(***************************************************************************)
(* Values for model checking HelicsApplication: a sink that sends to a     *)
(* source, and a filter that sends wherever its messages were bound for.   *)
(***************************************************************************)
EXTENDS HelicsApplication, TLC

CONSTANTS filter, sink, source

MCDestination == [a \in {sink} |-> source]

\* At or after the HELICS time, so that sends at one time may overtake.
MCJitters == {0, 1}

MessageSymmetry == Permutations(Messages)
================================================================================
