---------------------------- MODULE MCHelicsRouting ----------------------------
(***************************************************************************)
(* Values for model checking HelicsRouting: federate "n" runs ns-3; "f" has *)
(* the endpoints f/a and f/b; there is a global endpoint g; and federate   *)
(* "nb", with endpoint nb/x, has a name that begins with "n".              *)
(***************************************************************************)
EXTENDS HelicsRouting

Request(class, name, configured, destination, local) ==
  [class |-> class, name |-> name, configured |-> configured, is_global |-> FALSE,
   destination |-> destination, local |-> local]

MCAtoms == {"/", "+", "fout", "n", "f", "a", "b", "g", "nb", "x", "s", "d", "e", "t",
            "v", "m", "u", "p"}

MCFedName == <<"n">>

fa == <<"f", "/", "a">>
fb == <<"f", "/", "b">>
g  == <<"g">>
nbx == <<"n", "b", "/", "x">>

MCOutside == {fa, fb, g, nbx}

\* One filter per way of installing one; an endpoint without a filter; the sink
\* and the source of ns3-sndrcv.cc; sinks that send to a sink and to a PMU by
\* mistake; a source without a destination; a PMU and its PDC.  The filters of nb/x
\* and f/b have one address, and the sanitized names of one PDC and of the filter
\* of f/a are equal.
MCRequests ==
  { Request("filter", fa, FALSE, <<>>, 1),
    Request("filter", <<"n", "/">> \o fb, TRUE, <<>>, 2),
    Request("filter", nbx, FALSE, <<>>, 2),
    Request("sink", <<"s">>, FALSE, <<"d">>, 3),
    Request("endpoint", <<"n", "/", "e">>, TRUE, <<>>, 9),
    [Request("sink", <<"t">>, FALSE, <<"s">>, 8) EXCEPT !.is_global = TRUE],
    Request("sink", <<"v">>, FALSE, <<"m">>, 11),
    Request("source", <<"d">>, FALSE, g, 4),
    Request("source", <<"u">>, FALSE, <<>>, 10),
    Request("PMU", <<"m">>, FALSE, <<"p">>, 5),
    Request("PDC", <<"p">>, FALSE, <<"p">>, 6),
    Request("PDC", <<"f", "+", "a">>, FALSE, <<"p">>, 7) }

\* What the theorems suppose of a scenario is true of this one.
ASSUME ScenarioAssumption == Straight /\ Readable
================================================================================
