------------------------------ MODULE FixtureRun ------------------------------
(***************************************************************************)
(* The fixture runner (src/internal/runner/runner.go): it simulates a few  *)
(* processors on the fixture itself, with no Collector.  Go walks the map  *)
(* of pipelines in an order of its own, so two pipelines of one signal are *)
(* joined either way round; the result must not depend on it.              *)
(*                                                                         *)
(* A processor name decides its kind.  A definition carries what the       *)
(* runner looks at: for attributes processors the kinds of matching, the   *)
(* keys of the delete actions, and whether there are any other actions     *)
(* (inserts, deletions by pattern); for filters whether the definition is  *)
(* the debug log filter the runner knows.  A record carries the keys of    *)
(* its resource and of each of its attribute maps (a metric has one per    *)
(* datapoint); telemetry is a function from positions in the fixture to    *)
(* records.  The warnings are a set: their order is left out.              *)
(***************************************************************************)
EXTENDS Naturals, Sequences, FiniteSets

CONSTANTS
  Keys,       \* the keys of attributes
  Configs,    \* parsed Collector configurations
  Fixtures    \* normalized fixtures

\* "profiles" stands for any other signal; orderedSignals puts it last.
SignalOrder == <<"logs", "traces", "metrics", "profiles">>
Signals     == {SignalOrder[i] : i \in DOMAIN SignalOrder}
Kinds       == {"noop", "attributes", "filter", "other"}

\* A configuration: kind of every name, definitions, pipelines, and the
\* defined names in alphabetical order.
ASSUME ConfigAssumption ==
  \A c \in Configs :
    /\ \A n \in DOMAIN c.kind : c.kind[n] \in Kinds
    /\ DOMAIN c.def \subseteq DOMAIN c.kind
    /\ \A n \in DOMAIN c.def : c.def[n].matches \subseteq {"include", "exclude"}
    /\ {c.sorted[i] : i \in DOMAIN c.sorted} = DOMAIN c.def
    /\ c.sorted \in Seq(DOMAIN c.def)
    /\ \A p \in DOMAIN c.pipelines :
         /\ c.pipelines[p].signal \in Signals
         /\ c.pipelines[p].chain \in Seq(DOMAIN c.kind)

Records == [signal : Signals \ {"profiles"}, debug : BOOLEAN,
            res : SUBSET Keys, attrs : Seq(SUBSET Keys)]

ASSUME FixtureAssumption ==
  \A f \in Fixtures : IsFiniteSet(DOMAIN f) /\ f \in [DOMAIN f -> Records]

VARIABLES
  config, fixture,
  unread,        \* the pipelines pipelineProcessors has not read yet
  used,          \* per signal, the processors joined so far
  at,            \* the signal being simulated, an index of SignalOrder; 0 before
  queue,         \* the processors still to apply for that signal
  output,        \* the simulated telemetry
  warnings,      \* the warnings: pairs of a kind and a name
  simulated, unsupported

input   == <<config, fixture>>
result  == <<output, warnings, simulated, unsupported>>
vars    == <<input, unread, used, at, queue, result>>

Pipelines == DOMAIN config.pipelines
finished  == at = Len(SignalOrder) + 1

\* used has an entry for every signal some pipeline names, even an empty one.
seenSignals == IF Pipelines = {} THEN Signals \ {"profiles"}
               ELSE {config.pipelines[p].signal : p \in Pipelines}

-----------------------------------------------------------------------------
(* Which processors run: pipelineProcessors                                *)

Init ==
  /\ config \in Configs /\ fixture \in Fixtures
  /\ unread = Pipelines
  /\ used = [s \in Signals |->
               IF Pipelines = {} /\ s \in seenSignals THEN config.sorted ELSE <<>>]
  /\ at = 0 /\ queue = <<>>
  /\ output = fixture
  /\ warnings = {} /\ simulated = {} /\ unsupported = {}

\* Mutant of Join: the last pipeline of a signal replaces the others.
JoinOver(p) ==
  /\ p \in unread
  /\ unread' = unread \ {p}
  /\ used' = [used EXCEPT ![config.pipelines[p].signal] = config.pipelines[p].chain]
  /\ UNCHANGED <<input, at, queue, result>>

Join(p) ==
  /\ p \in unread
  /\ unread' = unread \ {p}
  /\ used' = [used EXCEPT ![config.pipelines[p].signal] = @ \o config.pipelines[p].chain]
  /\ UNCHANGED <<input, at, queue, result>>

\* The next signal of orderedSignals; those no pipeline names are skipped
\* over with an empty queue.
NextSignal ==
  /\ unread = {} /\ queue = <<>> /\ ~finished
  /\ at' = at + 1
  /\ queue' = IF at' \in DOMAIN SignalOrder THEN used[SignalOrder[at']] ELSE <<>>
  /\ warnings' = warnings \cup
       (IF at' = 2 /\ "traces" \in seenSignals THEN {<<"traces local", "none">>} ELSE {})
  /\ UNCHANGED <<input, unread, used, output, simulated, unsupported>>

-----------------------------------------------------------------------------
(* One processor: applyProcessor                                           *)

name      == Head(queue)
signal    == SignalOrder[at]
def       == config.def[name]
applies   == queue # <<>> /\ name \in DOMAIN config.def
isKind(k) == applies /\ config.kind[name] = k
done      == queue' = Tail(queue) /\ UNCHANGED <<input, unread, used, at>>

warn(W)   == warnings' = warnings \cup (W \X {name})
supports  == simulated' = simulated \cup {name} /\ UNCHANGED unsupported
rejects   == unsupported' = unsupported \cup {name} /\ UNCHANGED simulated

Undefined ==
  /\ queue # <<>> /\ name \notin DOMAIN config.def
  /\ warn({"undefined"}) /\ rejects /\ UNCHANGED output
  /\ done

NoContentEffect == isKind("noop") /\ supports /\ UNCHANGED <<output, warnings>> /\ done

withoutKeys(r, keys) ==
  [signal |-> r.signal, debug |-> r.debug, res |-> r.res \ keys,
   attrs |-> [i \in DOMAIN r.attrs |-> r.attrs[i] \ keys]]

removeAttributesForSignal(f, keys) ==
  [i \in DOMAIN f |-> IF f[i].signal = signal THEN withoutKeys(f[i], keys) ELSE f[i]]

DeleteAttributes ==
  /\ isKind("attributes") /\ def.deletes # {}
  /\ output' = removeAttributesForSignal(output, def.deletes)
  /\ warn(def.matches) /\ supports
  /\ done

\* Mutant of NoDeletes: nothing to delete, nothing to warn of.
NoDeletesQuiet ==
  /\ isKind("attributes") /\ def.deletes = {}
  /\ warn(def.matches) /\ rejects /\ UNCHANGED output
  /\ done

NoDeletes ==
  /\ isKind("attributes") /\ def.deletes = {}
  /\ warn(def.matches \cup {"only deletes"}) /\ rejects /\ UNCHANGED output
  /\ done

isDebug(r) == r.signal = "logs" /\ r.debug

filterDebugLogs(f) == [i \in {j \in DOMAIN f : ~isDebug(f[j])} |-> f[i]]

\* before > 0 and a reduction of at least 50 %.
overFiltered(f) ==
  LET before  == Cardinality({i \in DOMAIN f : f[i].signal = "logs"})
      removed == Cardinality({i \in DOMAIN f : isDebug(f[i])})
  IN before > 0 /\ 2 * removed >= before

FilterDebugLogs ==
  /\ isKind("filter") /\ signal = "logs" /\ def.debug
  /\ output' = filterDebugLogs(output)
  /\ warnings' = warnings \cup {<<"partial filter", name>>}
       \cup (IF overFiltered(output) THEN {<<"log volume", "none">>} ELSE {})
  /\ supports
  /\ done

FilterOther ==
  /\ isKind("filter") /\ ~(signal = "logs" /\ def.debug)
  /\ warn({"not simulated"}) /\ rejects /\ UNCHANGED output
  /\ done

Other ==
  /\ isKind("other")
  /\ warn({"not simulated"}) /\ rejects /\ UNCHANGED output
  /\ done

Processor ==
  \/ Undefined \/ NoContentEffect \/ DeleteAttributes \/ NoDeletes
  \/ FilterDebugLogs \/ FilterOther \/ Other

Next == (\E p \in unread : Join(p)) \/ NextSignal \/ Processor

Spec == Init /\ [][Next]_vars

-----------------------------------------------------------------------------
(* Properties *)

\* Each processor with each signal it is used for, in no order.
Uses(c) ==
  {u \in Signals \X DOMAIN c.kind :
     IF DOMAIN c.pipelines = {} THEN u[1] # "profiles" /\ u[2] \in DOMAIN c.def
     ELSE \E p \in DOMAIN c.pipelines :
            /\ c.pipelines[p].signal = u[1]
            /\ \E i \in DOMAIN c.pipelines[p].chain : c.pipelines[p].chain[i] = u[2]}

DefinedUses(c, U, k) == {u \in U : u[2] \in DOMAIN c.def /\ c.kind[u[2]] = k}

\* Every key some attributes processor of the signal deletes.
DeletedKeys(c, U, s) ==
  UNION {c.def[u[2]].deletes : u \in {v \in DefinedUses(c, U, "attributes") : v[1] = s}}

DropsDebug(c, U) == \E u \in DefinedUses(c, U, "filter") : u[1] = "logs" /\ c.def[u[2]].debug

\* What a set of uses makes of f, all at once.
Simulation(c, U, f) ==
  [i \in {j \in DOMAIN f : ~(DropsDebug(c, U) /\ isDebug(f[j]))} |->
     withoutKeys(f[i], DeletedKeys(c, U, f[i].signal))]

\* The output a policy is evaluated on, and the warning about the log volume,
\* are a function of the configuration and the fixture: no order of the
\* pipelines changes them ("returns deterministic output").
OutputDetermined ==
  finished => /\ output = Simulation(config, Uses(config), fixture)
              /\ <<"log volume", "none">> \in warnings <=> DropsDebug(config, Uses(config)) /\ overFiltered(fixture)

\* Every processor in use is counted as simulated or as unsupported.  A warning
\* names each unsupported one, each filter, and each attributes processor that
\* matches.  A no-op, or a delete that finds nothing to delete in its
\* pipeline, is simulated and goes unnamed.
UnsupportedIsWarned ==
  finished => /\ {u[2] : u \in Uses(config)} = simulated \cup unsupported
              /\ \A n \in unsupported : \E w \in warnings : w[2] = n
              /\ \A u \in DefinedUses(config, Uses(config), "attributes") :
                   config.def[u[2]].matches # {} => \E w \in warnings : w[2] = u[2]
              /\ \A u \in DefinedUses(config, Uses(config), "filter") : \E w \in warnings : w[2] = u[2]

\* README.md: "The runner emits warnings when processors are unsupported or
\* only partially simulated."  A processor with actions the runner skips is
\* simulated in part.
PartialIsWarned ==
  finished => \A n \in simulated :
    (config.kind[n] = "attributes" /\ config.def[n].others) => \E w \in warnings : w[2] = n
=============================================================================
