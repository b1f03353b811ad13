------------------------- MODULE MCConformanceRunner -------------------------
(* ConformanceRunner for TLC: two cases of the categories that loop, one of   *)
(* them a known gap, and the three declared capabilities.                    *)
EXTENDS ConformanceRunner

Vector(id, known_gap) == [id |-> id, known_gap |-> known_gap]

MCVectors ==
    [schema            |-> <<Vector("valid", FALSE), Vector("strict", TRUE)>>,
     decay             |-> <<Vector("fresh", FALSE)>>,
     http_contract     |-> <<Vector("create", FALSE), Vector("oracle", TRUE)>>,
     access_control    |-> <<Vector("private", FALSE), Vector("public", FALSE)>>,
     spec_capabilities |-> <<Vector("limit", FALSE), Vector("manual", TRUE), Vector("version", FALSE)>>]
=============================================================================
