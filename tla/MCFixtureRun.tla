----------------------------- MODULE MCFixtureRun -----------------------------
(***************************************************************************)
(* Two logs pipelines with chains of up to two and of one processor, and a *)
(* pipeline of another signal, or no pipeline at all; two fixtures whose   *)
(* debug logs are half of the logs and fewer.                              *)
(***************************************************************************)
EXTENDS FixtureRun

D(deletes, matches, others, debug) ==
  [deletes |-> deletes, matches |-> matches, others |-> others, debug |-> debug]
plain == D({}, {}, FALSE, FALSE)

kinds == [batch |-> "noop", attrK |-> "attributes", attrL |-> "attributes",
          attrInsert |-> "attributes", filterDebug |-> "filter", filterOther |-> "filter",
          transform |-> "other", ghost |-> "other"]
defs  == [batch |-> plain, attrK |-> D({"k"}, {"include"}, FALSE, FALSE),
          attrL |-> D({"l"}, {}, FALSE, FALSE), attrInsert |-> D({}, {}, TRUE, FALSE),
          filterDebug |-> D({}, {}, FALSE, TRUE), filterOther |-> plain, transform |-> plain]
alphabetical == <<"attrInsert", "attrK", "attrL", "batch", "filterDebug", "filterOther", "transform">>

Chains(n) == UNION {[1..k -> DOMAIN kinds] : k \in 0..n}
P(s, c)   == [signal |-> s, chain |-> c]

Config(pipes, d) == [kind |-> kinds, def |-> d, sorted |-> alphabetical, pipelines |-> pipes]

MCConfigs ==
  {Config([p1 |-> P("logs", a), p2 |-> P("logs", b), p3 |-> P(s, c)], defs) :
     a \in Chains(2), b \in Chains(1), s \in Signals \ {"logs"}, c \in Chains(1) \ {<<"ghost">>, <<"batch">>}}
  \cup {Config(<<>>, defs)}

\* A delete beside an action the runner skips.
MCMixedConfigs ==
  {Config([p1 |-> P(s, <<"attrL", "batch">>)], [defs EXCEPT !.attrL.others = o]) :
     s \in Signals, o \in BOOLEAN}
  \cup {Config([p1 |-> P("logs", a), p2 |-> P("traces", a)], [defs EXCEPT !.attrK.others = TRUE]) :
     a \in Chains(2)}

R(s, res, attrs, debug) == [signal |-> s, debug |-> debug, res |-> res, attrs |-> attrs]

MCFixtures ==
  {<<R("logs", {"k", "l"}, <<{"k", "m"}>>, FALSE), R("logs", {"l"}, <<{"k", "l"}>>, TRUE),
     R("traces", {"k"}, <<{"k", "l"}>>, TRUE), R("metrics", {"l"}, <<{"k"}, {"l", "m"}>>, FALSE)>>,
   <<R("logs", {"k"}, <<{"l"}>>, FALSE), R("logs", {}, <<{"k"}>>, TRUE), R("logs", {"k"}, <<{"l"}>>, FALSE)>>}
=============================================================================
