------------------------------ MODULE MCEvidence ------------------------------
(***************************************************************************)
(* Nine records: clean, forbidden and incomplete logs; one error span, its *)
(* identity with another status, and a second error span; three series of  *)
(* one metric, with a limit of one series.                                 *)
(***************************************************************************)
EXTENDS Evidence

Log(f, q) == [signal |-> "logs", forbidden |-> f, required |-> q,
              error |-> FALSE, key |-> "log", series |-> "none"]
Span(id, e, q) == [signal |-> "traces", forbidden |-> FALSE, required |-> q,
                   error |-> e, key |-> id, series |-> "none"]
Metric(s, q) == [signal |-> "metrics", forbidden |-> FALSE, required |-> q,
                 error |-> FALSE, key |-> "m", series |-> s]

MCRecords == {Log(FALSE, TRUE), Log(TRUE, TRUE), Log(FALSE, FALSE),
              Span("e1", TRUE, TRUE), Span("e1", FALSE, TRUE), Span("e2", TRUE, FALSE),
              Metric("s1", TRUE), Metric("s2", TRUE), Metric("none", FALSE)}

MCInputs == {{},
             {Log(FALSE, TRUE), Span("e1", TRUE, TRUE), Span("e2", TRUE, FALSE), Metric("s1", TRUE)},
             {Span("e1", FALSE, TRUE), Metric("none", FALSE)}}

MCPolicies == {Checks, {<<"traces", "preserve">>, <<"metrics", "series">>}}
=============================================================================
