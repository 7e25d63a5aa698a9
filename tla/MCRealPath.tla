------------------------------ MODULE MCRealPath ------------------------------
(***************************************************************************)
(* Three families of cases: every scalar of up to five of the characters   *)
(* that matter, in a processor that the fixture needs or does not need;    *)
(* two pipelines over every pair of chains, with every way to be rejected; *)
(* and fixtures whose metrics the Collector may split.                     *)
(***************************************************************************)
EXTENDS RealPath

MCRouting   == {"routing"}
MCBuffering == {"tail_sampling", "groupbytrace"}

absent == [kind |-> "absent", ids |-> <<>>]
N(ids) == [kind |-> "sequence", ids |-> ids]
other  == [kind |-> "other", ids |-> <<>>]

Pipe(s, node) == [signal |-> s, explicit |-> TRUE, receivers |-> N(<<"otlp">>),
                   processors |-> node, exporters |-> N(<<"otlp">>)]
Mapping(texts) == [kind |-> "mapping", scalars |-> texts]
Config(processors, pipes) ==
  [wellFormed |-> TRUE, connectors |-> FALSE, receivers |-> {"otlp"}, exporters |-> {"otlp"},
   processors |-> processors, pipelines |-> pipes]

F(l, s, m) == [logs |-> l, spans |-> s, metrics |-> m]
small == F(<<1>>, <<>>, <<>>)
both  == F(<<2>>, <<1>>, <<>>)

Texts == UNION {[1..n -> {"$", "{", "x"}] : n \in 0..5}
TextCases ==
  {<<Config([transform |-> Mapping({t, <<"x">>})], <<Pipe(s, N(<<"transform">>)), Pipe("logs", absent)>>), f>> :
     t \in Texts, s \in {"traces"}, f \in {small, both}}

procs == [batch |-> [kind |-> "null", scalars |-> {}], tail_sampling |-> Mapping({}),
          groupbytrace |-> Mapping({}), routing |-> Mapping({}), custom |-> [kind |-> "other", scalars |-> {}],
          secret |-> Mapping({<<"$", "{">>})]
Ids    == DOMAIN procs \cup {"undefined", "invalid"}
Chains == UNION {[1..n -> Ids] : n \in 0..2}
Nodes  == {N(c) : c \in Chains} \cup {absent, other}

ChainCases ==
  {<<Config(procs, <<Pipe("traces", a), Pipe(s, N(b))>>), f>> :
     a \in Nodes, s \in {"logs", "metrics", "traces", "profiles"},
     b \in {<<>>, <<"batch">>, <<"batch", "tail_sampling">>, <<"secret">>}, f \in {small, both}}

good == Config(procs, <<Pipe("logs", absent), Pipe("metrics", N(<<"batch">>)), Pipe("traces", absent)>>)
FormCases ==
  {<<c, f>> : f \in {small, F(<<>>, <<>>, <<>>)},
     c \in {good, [good EXCEPT !.wellFormed = FALSE], [good EXCEPT !.connectors = TRUE],
            [good EXCEPT !.pipelines = <<>>], [good EXCEPT !.pipelines[1].explicit = FALSE],
            [good EXCEPT !.pipelines[1].receivers = absent], [good EXCEPT !.pipelines[1].exporters = N(<<>>)],
            [good EXCEPT !.pipelines[1].receivers = N(<<"undefined">>)],
            [good EXCEPT !.pipelines[1].exporters = N(<<"otlp", "otlp">>)]}}

M(key, points) == [key |-> key, points |-> points]
SplitCases ==
  {<<good, f>> : f \in {F(<<3, 1, 3>>, <<2, 1>>, <<M(2, <<5, 4>>)>>),
                        F(<<>>, <<1>>, <<M(2, <<5, 4, 5>>), M(1, <<4, 6>>), M(2, <<6>>), M(3, <<>>)>>)}}

MCCases == TextCases \cup ChainCases \cup FormCases \cup SplitCases
=============================================================================
