----------------------------- MODULE MCRestData -----------------------------
(***************************************************************************)
(* RestData for TLC.                                                       *)
(***************************************************************************)
EXTENDS RestData

Full == [condition |-> TRUE, data |-> TRUE, format |-> TRUE]
DataOnly == [condition |-> FALSE, data |-> TRUE, format |-> FALSE]

Rest(name, parsing) == [name |-> name, parsing |-> parsing]

Job(apis, files, scheduled) ==
    [apis |-> apis, files |-> files, scheduled |-> scheduled]

(* Two APIs, all their data and those of one of them; the same with their  *)
(* names swapped; without the parsing of the first; only one API; and two  *)
(* entries of one name, on a schedule.                                     *)
SomeSpecs ==
    {Job(<<Rest("a", Full), Rest("b", DataOnly)>>, <<"", "b">>, FALSE),
     Job(<<Rest("b", DataOnly), Rest("a", Full)>>, <<"a">>, FALSE),
     Job(<<Rest("a", NoParsing), Rest("b", DataOnly)>>, <<"">>, FALSE),
     Job(<<Rest("a", Full)>>, <<"a">>, TRUE),
     Job(<<Rest("a", Full), Rest("a", DataOnly)>>, <<"", "a">>, TRUE)}
=============================================================================
