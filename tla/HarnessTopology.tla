---------------------------- MODULE HarnessTopology ----------------------------
(***************************************************************************)
(* What of the user's Collector configuration the real runner executes     *)
(* (src/internal/runner/topology.go): parseTopology reads the pipelines in *)
(* file order, rejects what it cannot isolate, keeps those whose signal    *)
(* the fixture has, and copies the processors they use; harness puts its   *)
(* own receiver and exporter around them, and the processors that hold     *)
(* telemetry back decide which signals are in doubt.                       *)
(*                                                                         *)
(* A configuration is a record: wellFormed (one YAML document within the   *)
(* size limit, string keys, no duplicate, alias or anchor, known sections  *)
(* that are mappings of valid identifiers), connectors (there are some),   *)
(* the defined receivers, exporters and processors, and the pipelines in   *)
(* file order, of every one its signal, whether its fields are the known   *)
(* ones (explicit), and its three component nodes.  A node is absent (or   *)
(* null), a sequence, or something else.                                   *)
(***************************************************************************)
EXTENDS Naturals, Sequences, FiniteSets

CONSTANTS
  Routing,    \* identifiers of routing processors
  Buffering   \* identifiers of tail_sampling and groupbytrace processors

Signals     == {"logs", "metrics", "traces"}
SignalOrder == <<"logs", "metrics", "traces">>

VARIABLES
  source, populated,     \* the configuration; the signals the fixture has
  pc,                    \* "form", "read", "select", "copy", "accepted", "rejected"
  why,                   \* the reason of a rejection
  next, item,            \* the next pipeline and, in "copy", its next processor
  defined,               \* out.processors: the identifiers it defines
  pipelines,             \* out.pipelines
  selected,              \* the processors section of the harness
  active                 \* the pipelines of the harness

input        == <<source, populated>>
position     == <<next, item>>
topologyVars == <<input, pc, why, position, defined, pipelines, selected, active>>

Els(s)          == {s[i] : i \in DOMAIN s}
NoDuplicates(s) == \A i, j \in DOMAIN s : s[i] = s[j] => i = j

\* What a configuration is made of; every case the constants give is of this form.
IsConfiguration(c) ==
  /\ c.pipelines \in Seq(Els(c.pipelines))
  /\ \A p \in Els(c.pipelines) : p.processors.ids \in Seq(Els(p.processors.ids))
  /\ \A id \in DOMAIN c.processors : \A text \in c.processors[id].scalars : text \in Seq(Els(text))

InitTopology ==
  /\ pc = "form" /\ why = "none" /\ next = 1 /\ item = 1
  /\ defined = {} /\ pipelines = <<>> /\ selected = <<>> /\ active = <<>>

reject(reason) ==
  /\ pc' = "rejected" /\ why' = reason
  /\ UNCHANGED <<input, position, defined, pipelines, selected, active>>

-----------------------------------------------------------------------------
(* Reading the pipelines                                                   *)

formOK == source.wellFormed /\ ~source.connectors /\ source.pipelines # <<>>

CheckForm ==
  /\ pc = "form"
  /\ \/ ~formOK /\ reject("form")
     \/ /\ formOK /\ pc' = "read"
        /\ UNCHANGED <<input, why, position, defined, pipelines, selected, active>>

\* "invalid" stands for an item that is no component identifier.
componentSequence(node, optional) ==
  \/ node.kind = "absent" /\ optional
  \/ /\ node.kind = "sequence"
     /\ optional \/ node.ids # <<>>
     /\ "invalid" \notin Els(node.ids) /\ NoDuplicates(node.ids)

seenSignals     == {pipelines[i].signal : i \in DOMAIN pipelines}
processorIDs(p) == IF p.processors.kind = "absent" THEN <<>> ELSE p.processors.ids

readable(p) ==
  /\ p.signal \in Signals \ seenSignals
  /\ p.explicit
  /\ componentSequence(p.receivers, FALSE) /\ Els(p.receivers.ids) \subseteq source.receivers
  /\ componentSequence(p.exporters, FALSE) /\ Els(p.exporters.ids) \subseteq source.exporters
  /\ componentSequence(p.processors, TRUE)
  /\ \A id \in Els(processorIDs(p)) :
       /\ id \in DOMAIN source.processors \ Routing
       /\ source.processors[id].kind \in {"mapping", "null"}

ReadPipeline ==
  LET p == source.pipelines[next]
  IN /\ pc = "read" /\ next \in DOMAIN source.pipelines
     /\ \/ ~readable(p) /\ reject("pipeline")
        \/ /\ readable(p)
           /\ pipelines' = Append(pipelines, [signal |-> p.signal, processors |-> processorIDs(p)])
           /\ defined' = defined \cup Els(processorIDs(p))
           /\ next' = next + 1
           /\ UNCHANGED <<input, pc, why, item, selected, active>>

allRead == pc = "read" /\ next = Len(source.pipelines) + 1

toSelection ==
  /\ pc' = "select" /\ next' = 1
  /\ UNCHANGED <<input, why, item, defined, pipelines, selected, active>>

CheckRouted ==
  /\ allRead
  /\ IF populated \subseteq seenSignals THEN toSelection ELSE reject("unrouted")

-----------------------------------------------------------------------------
(* The part the fixture needs                                              *)

\* The dollars right before position i of a scalar.
dollars(text, i) ==
  Cardinality({j \in 1..(i - 1) : \A k \in j..(i - 1) : text[k] = "$"})

\* Mutant of hasProviderSubstitution: any dollar before a brace.
hasDollarBrace(scalars) ==
  \E text \in scalars : \E i \in DOMAIN text : text[i] = "{" /\ dollars(text, i) > 0

hasProviderSubstitution(scalars) ==
  \E text \in scalars : \E i \in DOMAIN text : text[i] = "{" /\ dollars(text, i) % 2 = 1

\* sort.Slice by name: there is one pipeline per signal, and the signal leads
\* the name, so that the pipelines come in the order of their signals.
pipelineOf(signal) == CHOOSE p \in Els(pipelines) : p.signal = signal

\* The next signal of the fixture: its pipeline becomes active.
SelectPipeline ==
  /\ pc = "select" /\ next \in DOMAIN SignalOrder
  /\ IF SignalOrder[next] \in populated
     THEN /\ active' = Append(active, pipelineOf(SignalOrder[next]))
          /\ pc' = "copy" /\ item' = 1 /\ UNCHANGED next
     ELSE next' = next + 1 /\ UNCHANGED <<pc, item, active>>
  /\ UNCHANGED <<input, why, defined, pipelines, selected>>

chain == active[Len(active)].processors

\* Mutant of isNew: selectedIDs is not looked at.
alwaysNew(id) == id \in defined

isNew(id) == id \notin Els(selected)

\* The next processor of that pipeline: it is copied unless an earlier pipeline
\* has it too.
SelectProcessor ==
  /\ pc = "copy" /\ item \in DOMAIN chain
  /\ LET id == chain[item]
     IN \/ isNew(id) /\ hasProviderSubstitution(source.processors[id].scalars) /\ reject("provider")
        \/ /\ isNew(id) => ~hasProviderSubstitution(source.processors[id].scalars)
           /\ selected' = IF isNew(id) THEN Append(selected, id) ELSE selected
           /\ item' = item + 1
           /\ UNCHANGED <<input, pc, why, next, defined, pipelines, active>>

NextPipeline ==
  /\ pc = "copy" /\ item = Len(chain) + 1
  /\ pc' = "select" /\ next' = next + 1
  /\ UNCHANGED <<input, why, item, defined, pipelines, selected, active>>

Accept ==
  /\ pc = "select" /\ next = Len(SignalOrder) + 1
  /\ pc' = "accepted"
  /\ UNCHANGED <<input, why, position, defined, pipelines, selected, active>>

ParseTopology ==
  \/ CheckForm \/ ReadPipeline \/ CheckRouted
  \/ SelectPipeline \/ SelectProcessor \/ NextPipeline \/ Accept

-----------------------------------------------------------------------------
(* Which signals the run leaves in doubt.  The reasons are the processors. *)

inconclusive == Els(selected) \cap Buffering

\* Mutant of inconclusiveSignals: every pipeline is charged with every reason.
inconclusiveEverywhere ==
  [s \in {active[i].signal : i \in {j \in DOMAIN active : inconclusive # {}}} |-> inconclusive]

inconclusiveSignals ==
  LET held(i) == Els(active[i].processors) \cap Buffering
      doubted == {i \in DOMAIN active : held(i) # {}}
  IN [s \in {active[i].signal : i \in doubted} |->
        UNION {held(i) : i \in {j \in doubted : active[j].signal = s}}]

\* Run adds a reason of its own if it has nothing to execute.
InconclusiveReasons ==
  inconclusive \cup (IF active = <<>> THEN {"no telemetry"} ELSE {})

\* The command line drops the reasons of the whole run once some are scoped
\* to a signal; EvaluateWithOptions doubts a signal that has either kind.
uncertain == IF DOMAIN inconclusiveSignals # {} THEN {} ELSE InconclusiveReasons
doubted(s) == uncertain # {} \/ s \in DOMAIN inconclusiveSignals

-----------------------------------------------------------------------------
(* Properties                                                              *)

\* The chain the user's configuration has for a signal.
SourceChain(s) ==
  processorIDs(CHOOSE p \in Els(source.pipelines) : p.signal = s)

\* An accepted harness runs, for every signal of the fixture and for no other,
\* one pipeline with the user's processors in the user's order, and defines
\* each processor it uses, once, and none that it does not use.
HarnessIsFaithful ==
  pc = "accepted" =>
    /\ {active[i].signal : i \in DOMAIN active} = populated
    /\ \A i \in DOMAIN active : active[i].processors = SourceChain(active[i].signal)
    /\ NoDuplicates([i \in DOMAIN active |-> active[i].signal])
    /\ NoDuplicates(selected)
    /\ Els(selected) = UNION {Els(SourceChain(s)) : s \in populated}
    /\ Els(selected) \subseteq defined

\* The Collector reads a scalar from the left: two dollars are one escaped
\* dollar, a single one before a brace opens a substitution (whether it is
\* closed is left out, as in the code).
Opens(text) ==
  LET from[i \in 1..(Len(text) + 1)] ==
        IF i >= Len(text) THEN FALSE
        ELSE IF text[i] # "$" THEN from[i + 1]
        ELSE IF text[i + 1] = "$" THEN from[i + 2]
        ELSE text[i + 1] = "{" \/ from[i + 1]
  IN from[1]

substituted(id) == \E text \in source.processors[id].scalars : Opens(text)

\* No value of the harness is substituted from the environment or a file, and
\* only a processor that the fixture needs can be the reason to reject one.
NoProviderInHarness ==
  /\ pc = "accepted" => \A id \in Els(selected) : ~substituted(id)
  /\ why = "provider" => \E s \in populated : \E id \in Els(SourceChain(s)) : substituted(id)

\* A signal is in doubt exactly if a processor of its own pipeline holds
\* telemetry back, or if nothing was executed at all.
DoubtIsScoped ==
  pc = "accepted" =>
    \A s \in Signals : doubted(s) <=>
      \/ populated = {}
      \/ s \in populated /\ Els(SourceChain(s)) \cap Buffering # {}
=============================================================================
