------------------------ MODULE MCHelicsSimulatorImpl ------------------------
(***************************************************************************)
(* Values for the constants of HelicsSimulatorImpl under TLC.              *)
(***************************************************************************)
EXTENDS HelicsSimulatorImpl

\* "Now" and a delay longer than the gap between two grants.
MCDelays    == {0, 2}
\* A message may interrupt a request at 1 (before any event) and at 3.
MCInstants  == {1, 3}
\* The double of 2 is one tick short when it comes back.
MCTruncated == {2}

==============================================================================
