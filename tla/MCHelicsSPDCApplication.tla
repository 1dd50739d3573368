------------------------ MODULE MCHelicsSPDCApplication ------------------------
(***************************************************************************)
(* Values for model checking HelicsSPDCApplication: three concentrators    *)
(* with two PMUs each, of which the frame may miss one, and two samples.   *)
(***************************************************************************)
EXTENDS HelicsSPDCApplication

CONSTANTS c1, c2, c3, a, b, c, d, e, f

MCFrames ==
  [s \in {c1, c2, c3} |->
     CASE s = c1 -> {<<a, b>>, <<b>>} [] s = c2 -> {<<c, d>>} [] OTHER -> {<<e, f>>}]

MCTimestamps == {0, 1}

\* The float of the second time stamp is too large.
MCStof == [ts \in MCTimestamps |-> IF ts = 1 THEN 2 ELSE ts]

MCJitters == {0}
================================================================================
