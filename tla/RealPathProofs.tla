---------------------------- MODULE RealPathProofs ----------------------------
(***************************************************************************)
(* The data path of a real run, for every configuration, every fixture,    *)
(* every way to split and reorder the exports: the harness is the part of  *)
(* the configuration that the fixture needs, and the canonical form forgets*)
(* exactly what the Collector may change.                                  *)
(***************************************************************************)
EXTENDS RealPath, FiniteSetTheorems, TLAPS

-----------------------------------------------------------------------------
(* The inductive invariant of the parser.  While the pipelines are read,   *)
(* out.pipelines mirrors the part of the file that was read; while they    *)
(* are selected, the active ones are those of the signals visited, and     *)
(* selected holds what their chains, as far as they are copied, consist of.*)

AsRead(p) == [signal |-> p.signal, processors |-> processorIDs(p)]

readCount ==
  IF pc = "form" THEN 0 ELSE IF pc = "read" THEN next - 1 ELSE Len(source.pipelines)

InputInv ==
  /\ IsConfiguration(source) /\ IsFixture(fixture)
  /\ populated = (IF fixture.logs # <<>> THEN {"logs"} ELSE {})
                   \cup (IF fixture.spans # <<>> THEN {"traces"} ELSE {})
                   \cup (IF fixture.metrics # <<>> THEN {"metrics"} ELSE {})

ReadInv ==
  /\ next \in Nat \ {0}
  /\ pc = "read" => next <= Len(source.pipelines) + 1
  /\ pipelines \in Seq({AsRead(p) : p \in Els(source.pipelines)})
  /\ Len(pipelines) = readCount
  /\ \A i \in 1..readCount : pipelines[i] = AsRead(source.pipelines[i])
  /\ \A i, j \in 1..readCount : pipelines[i].signal = pipelines[j].signal => i = j
  /\ \A i \in 1..readCount : pipelines[i].signal \in Signals
  /\ defined = UNION {Els(pipelines[i].processors) : i \in 1..readCount}
  /\ defined \subseteq DOMAIN source.processors \ Routing
  /\ pc = "form" => next = 1
  /\ pc \in {"form", "read"} => active = <<>> /\ selected = <<>>

visited  == IF pc = "copy" THEN next ELSE next - 1
finished == IF pc = "copy" THEN Len(active) - 1 ELSE Len(active)

SelectInv ==
  /\ populated \subseteq seenSignals
  /\ next \in 1..4 /\ (pc = "accepted" => next = 4)
  /\ active \in Seq(Els(pipelines))
  /\ {active[i].signal : i \in DOMAIN active} = {SignalOrder[j] : j \in 1..visited} \cap populated
  /\ \A i, j \in DOMAIN active : active[i].signal = active[j].signal => i = j
  /\ pc = "copy" => /\ next <= 3 /\ active # <<>>
                    /\ active[Len(active)].signal = SignalOrder[next]
                    /\ item \in 1..(Len(chain) + 1)
  /\ selected \in Seq(defined) /\ NoDuplicates(selected)
  /\ Els(selected) = (UNION {Els(active[i].processors) : i \in 1..finished})
                       \cup (IF pc = "copy" THEN {chain[k] : k \in 1..(item - 1)} ELSE {})
  /\ \A id \in Els(selected) : ~hasProviderSubstitution(source.processors[id].scalars)

HarnessInv ==
  /\ pc \in {"form", "read", "select", "copy", "accepted", "rejected"}
  /\ pc # "rejected" => ReadInv /\ why = "none"
  /\ pc \in {"select", "copy", "accepted"} => SelectInv

\* A chain that was read is a sequence, and so is every chain of the harness.
LEMMA ChainsAreSequences ==
  ASSUME IsConfiguration(source)
  PROVE  \A p \in Els(source.pipelines) : processorIDs(p) \in Seq(Els(processorIDs(p)))
<1> SUFFICES ASSUME NEW p \in Els(source.pipelines)
             PROVE  processorIDs(p) \in Seq(Els(processorIDs(p)))
  OBVIOUS
<1>1. CASE p.processors.kind = "absent"
  <2>1. processorIDs(p) = <<>>
    BY <1>1 DEF processorIDs
  <2> QED BY <2>1
<1>2. CASE p.processors.kind # "absent"
  <2>1. processorIDs(p) = p.processors.ids
    BY <1>2 DEF processorIDs
  <2> QED BY <2>1 DEF IsConfiguration
<1> QED BY <1>1, <1>2

LEMMA InputInvariant == Spec => []InputInv
<1>1. Init => InputInv
  BY CasesAssumption DEF Init, InputInv
<1>2. InputInv /\ [Next]_vars => InputInv'
  <2> SUFFICES ASSUME InputInv, [Next]_vars PROVE InputInv'
    OBVIOUS
  <2> SUFFICES UNCHANGED <<input, fixture>>
    BY DEF InputInv, input
  <2>1. CASE Parse
    BY <2>1 DEF Parse, ParseTopology, CheckForm, ReadPipeline, CheckRouted, toSelection,
       SelectPipeline, SelectProcessor, NextPipeline, Accept, reject, telemetryVars
  <2>2. CASE Deliver
    BY <2>2 DEF Deliver, Export, ExportLog, ExportSpan, ExportMetric, topologyVars
  <2>3. CASE UNCHANGED vars
    BY <2>3 DEF vars, topologyVars, telemetryVars
  <2> QED BY <2>1, <2>2, <2>3 DEF Next
<1> QED BY <1>1, <1>2, PTL DEF Spec

LEMMA FormStep ==
  ASSUME InputInv, HarnessInv, CheckForm
  PROVE  HarnessInv'
<1> USE DEF HarnessInv, CheckForm
<1>1. CASE reject("form")
  BY <1>1 DEF reject
<1>2. CASE formOK /\ pc' = "read" /\ UNCHANGED <<input, why, position, defined, pipelines, selected, active>>
  <2>1. IsConfiguration(source) /\ Len(source.pipelines) \in Nat
    BY DEF InputInv, IsConfiguration
  <2>2. next' = 1 /\ readCount' = 0 /\ readCount = 0
    BY <1>2 DEF readCount, position, ReadInv
  <2> QED BY <1>2, <2>1, <2>2 DEF ReadInv, input, position
<1> QED BY <1>1, <1>2
LEMMA ReadStep ==
  ASSUME InputInv, HarnessInv, ReadPipeline
  PROVE  HarnessInv'
<1> DEFINE p == source.pipelines[next]
<1>1. CASE reject("pipeline")
  BY <1>1 DEF reject, HarnessInv
<1>2. CASE /\ readable(p)
           /\ pipelines' = Append(pipelines, AsRead(p))
           /\ defined' = defined \cup Els(processorIDs(p))
           /\ next' = next + 1
           /\ UNCHANGED <<input, pc, why, item, selected, active>>
  <2>1. pc = "read" /\ pc' = "read" /\ next \in DOMAIN source.pipelines /\ UNCHANGED source
    BY <1>2 DEF ReadPipeline, input
  <2>2. source.pipelines \in Seq(Els(source.pipelines))
    BY DEF InputInv, IsConfiguration
  <2>3. next \in 1..Len(source.pipelines) /\ p \in Els(source.pipelines)
    BY <2>1, <2>2 DEF Els
  <2>4. ReadInv /\ readCount = next - 1 /\ readCount' = next
    BY <1>2, <2>1, <2>3 DEF HarnessInv, readCount
  <2> DEFINE A == {AsRead(q) : q \in Els(source.pipelines)}
  <2>5. pipelines \in Seq(A) /\ Len(pipelines) = next - 1 /\ AsRead(p) \in A
    BY <2>3, <2>4 DEF ReadInv
  <2> HIDE DEF A
  <2>6. /\ pipelines' \in Seq(A) /\ Len(pipelines') = next
        /\ \A i \in 1..(next - 1) : pipelines'[i] = pipelines[i]
        /\ pipelines'[next] = AsRead(p)
    BY <1>2, <2>3, <2>5
  <2>7. \A i \in 1..next : pipelines'[i] = AsRead(source.pipelines[i])
    <3> TAKE i \in 1..next
    <3>1. CASE i = next
      BY <2>6, <3>1
    <3>2. CASE i \in 1..(next - 1)
      BY <2>4, <2>6, <3>2 DEF ReadInv
    <3> QED BY <2>3, <3>1, <3>2
  <2>8. p.signal \in Signals /\ \A i \in 1..(next - 1) : pipelines[i].signal # p.signal
    <3>1. DOMAIN pipelines = 1..(next - 1)
      BY <2>5
    <3> QED BY <1>2, <3>1 DEF readable, seenSignals
  <2>9. pipelines'[next].signal = p.signal /\ pipelines'[next].processors = processorIDs(p)
    BY <2>6 DEF AsRead
  <2>10. \A i, j \in 1..next : pipelines'[i].signal = pipelines'[j].signal => i = j
    <3> SUFFICES ASSUME NEW i \in 1..next, NEW j \in 1..next,
                        pipelines'[i].signal = pipelines'[j].signal
                 PROVE  i = j
      OBVIOUS
    <3>1. CASE i = next \/ j = next
      BY <2>3, <2>6, <2>8, <2>9, <3>1
    <3>2. CASE i \in 1..(next - 1) /\ j \in 1..(next - 1)
      BY <2>4, <2>6, <3>2 DEF ReadInv
    <3> QED BY <2>3, <3>1, <3>2
  <2>11. \A i \in 1..next : pipelines'[i].signal \in Signals
    <3> TAKE i \in 1..next
    <3>1. CASE i = next
      BY <2>8, <2>9, <3>1
    <3>2. CASE i \in 1..(next - 1)
      BY <2>4, <2>6, <3>2 DEF ReadInv
    <3> QED BY <2>3, <3>1, <3>2
  <2>12. defined' = UNION {Els(pipelines'[i].processors) : i \in 1..next}
    <3>1. defined = UNION {Els(pipelines[i].processors) : i \in 1..(next - 1)}
      BY <2>4 DEF ReadInv
    <3>2. 1..next = 1..(next - 1) \cup {next}
      BY <2>3
    <3>3. {Els(pipelines'[i].processors) : i \in 1..next} =
            {Els(pipelines[i].processors) : i \in 1..(next - 1)} \cup {Els(processorIDs(p))}
      BY <2>6, <2>9, <3>2
    <3> QED BY <1>2, <3>1, <3>3
  <2>13. defined' \subseteq DOMAIN source.processors \ Routing
    BY <1>2, <2>4 DEF readable, ReadInv
  <2>14. ReadInv'
    BY <1>2, <2>1, <2>3, <2>4, <2>6, <2>7, <2>10, <2>11, <2>12, <2>13 DEF ReadInv, A
  <2> QED BY <1>2, <2>1, <2>14 DEF HarnessInv
<1> QED BY <1>1, <1>2 DEF ReadPipeline, AsRead

LEMMA RouteStep ==
  ASSUME InputInv, HarnessInv, CheckRouted
  PROVE  HarnessInv'
<1>1. CASE reject("unrouted")
  BY <1>1 DEF reject, HarnessInv
<1>2. CASE populated \subseteq seenSignals /\ toSelection
  <2>1. pc = "read" /\ next = Len(source.pipelines) + 1 /\ pc' = "select" /\ next' = 1
    BY <1>2 DEF CheckRouted, allRead, toSelection
  <2>2. UNCHANGED <<source, populated, why, defined, pipelines, selected, active>>
    BY <1>2 DEF toSelection, input
  <2>3. ReadInv /\ Len(source.pipelines) \in Nat /\ active = <<>> /\ selected = <<>>
    BY <2>1 DEF HarnessInv, ReadInv, InputInv, IsConfiguration
  <2>4. readCount = Len(source.pipelines) /\ readCount' = Len(source.pipelines)
    BY <2>1, <2>2, <2>3 DEF readCount
  <2>5. ReadInv'
    BY <2>1, <2>2, <2>3, <2>4 DEF ReadInv
  <2>6. visited' = 0 /\ finished' = 0
    BY <2>1, <2>2, <2>3 DEF visited, finished
  <2>7. SelectInv'
    BY <1>2, <2>1, <2>2, <2>3, <2>6 DEF SelectInv, seenSignals, Els, NoDuplicates
  <2> QED BY <2>1, <2>2, <2>5, <2>7 DEF HarnessInv
<1> QED BY <1>1, <1>2 DEF CheckRouted
\* What the chains and the pipelines are once everything is read.
LEMMA PipelinesRead ==
  ASSUME InputInv, HarnessInv, pc \in {"select", "copy", "accepted"}
  PROVE  /\ \A q \in Els(pipelines) : q.processors \in Seq(defined)
         /\ \A s \in seenSignals : pipelineOf(s) \in Els(pipelines) /\ pipelineOf(s).signal = s
         /\ populated \subseteq Signals
<1>1. ReadInv /\ readCount = Len(source.pipelines)
  BY DEF HarnessInv, readCount
<1>2. pipelines \in Seq({AsRead(p) : p \in Els(source.pipelines)}) /\ DOMAIN pipelines = 1..readCount
  BY <1>1 DEF ReadInv
<1>3. ASSUME NEW q \in Els(pipelines) PROVE q.processors \in Seq(defined)
  <2>1. PICK i \in 1..readCount : q = pipelines[i]
    BY <1>2 DEF Els
  <2>2. source.pipelines[i] \in Els(source.pipelines) /\ q = AsRead(source.pipelines[i])
    BY <1>1, <2>1 DEF ReadInv, InputInv, IsConfiguration, Els
  <2>3. q.processors \in Seq(Els(q.processors))
    BY <2>2, ChainsAreSequences DEF AsRead, InputInv
  <2>4. Els(q.processors) \subseteq defined
    BY <1>1, <2>1 DEF ReadInv
  <2> QED BY <2>3, <2>4
<1>4. ASSUME NEW s \in seenSignals
      PROVE  pipelineOf(s) \in Els(pipelines) /\ pipelineOf(s).signal = s
  <2>1. \E q \in Els(pipelines) : q.signal = s
    BY DEF seenSignals, Els
  <2> QED BY <2>1 DEF pipelineOf
<1>5. populated \subseteq Signals
  BY DEF InputInv, Signals
<1> QED BY <1>3, <1>4, <1>5

LEMMA SelectStep ==
  ASSUME InputInv, HarnessInv, SelectPipeline
  PROVE  HarnessInv'
<1> DEFINE sig == SignalOrder[next]
           q   == pipelineOf(sig)
<1>1. /\ pc = "select" /\ ReadInv /\ SelectInv /\ next \in 1..3
      /\ UNCHANGED <<source, populated, why, defined, pipelines, selected>>
  BY DEF SelectPipeline, HarnessInv, SignalOrder, input
<1>2. visited = next - 1 /\ finished = Len(active)
  BY <1>1 DEF visited, finished
<1>3. 1..next = 1..(next - 1) \cup {next}
  BY <1>1
<1>4. readCount' = readCount /\ pc' \in {"select", "copy"} /\ next' \in {next, next + 1}
  BY <1>1 DEF SelectPipeline, readCount
<1>5. ReadInv'
  BY <1>1, <1>4 DEF ReadInv
<1>8. /\ {active[i].signal : i \in DOMAIN active} = {SignalOrder[j] : j \in 1..(next - 1)} \cap populated
      /\ Els(selected) = UNION {Els(active[i].processors) : i \in 1..Len(active)}
  BY <1>1, <1>2 DEF SelectInv
<1>6. CASE sig \notin populated
  <2>1. pc' = "select" /\ next' = next + 1 /\ UNCHANGED active
    BY <1>1, <1>6 DEF SelectPipeline
  <2>2. visited' = next /\ finished' = finished /\ next' \in 1..4
    BY <1>1, <1>2, <2>1 DEF visited, finished
  <2>3. {SignalOrder[j] : j \in 1..next} \cap populated = {SignalOrder[j] : j \in 1..(next - 1)} \cap populated
    BY <1>3, <1>6
  <2>4. {active'[i].signal : i \in DOMAIN active'} = {SignalOrder[j] : j \in 1..visited'} \cap populated'
    BY <1>1, <1>8, <2>1, <2>2, <2>3
  <2>5. Els(selected)' = (UNION {Els(active'[i].processors) : i \in 1..finished'})
                           \cup (IF pc' = "copy" THEN {chain'[k] : k \in 1..(item' - 1)} ELSE {})
    <3>1. Els(selected)' = Els(selected)
      BY <1>1 DEF Els
    <3>2. {Els(active'[i].processors) : i \in 1..finished'} = {Els(active[i].processors) : i \in 1..Len(active)}
      BY <1>2, <2>1, <2>2
    <3> QED BY <1>8, <2>1, <3>1, <3>2
  <2>6. SelectInv'
    <3>1. populated' \subseteq seenSignals' /\ active' \in Seq(Els(pipelines)')
      BY <1>1, <2>1 DEF SelectInv, seenSignals, Els
    <3>2. selected' \in Seq(defined') /\ NoDuplicates(selected)'
      BY <1>1 DEF SelectInv
    <3>3. \A i, j \in DOMAIN active' : active'[i].signal = active'[j].signal => i = j
      BY <1>1, <2>1 DEF SelectInv
    <3>4. \A id \in Els(selected)' : ~hasProviderSubstitution(source.processors[id].scalars)'
      BY <1>1 DEF SelectInv
    <3> QED BY <2>1, <2>2, <2>4, <2>5, <3>1, <3>2, <3>3, <3>4 DEF SelectInv
  <2> QED BY <1>1, <1>5, <2>1, <2>6 DEF HarnessInv
<1>7. CASE sig \in populated
  <2>1. pc' = "copy" /\ next' = next /\ item' = 1 /\ active' = Append(active, q)
    BY <1>1, <1>7 DEF SelectPipeline
  <2>2. q \in Els(pipelines) /\ q.signal = sig /\ q.processors \in Seq(defined)
    BY <1>1, <1>7, PipelinesRead DEF SelectInv
  <2>3. active \in Seq(Els(pipelines)) /\ Len(active) \in Nat
    BY <1>1 DEF SelectInv
  <2> HIDE DEF q
  <2>4. /\ active' \in Seq(Els(pipelines)) /\ Len(active') = Len(active) + 1
        /\ DOMAIN active' = DOMAIN active \cup {Len(active) + 1}
        /\ \A i \in DOMAIN active : active'[i] = active[i]
        /\ active'[Len(active) + 1] = q
    BY <2>1, <2>2, <2>3
  <2>5. visited' = next /\ finished' = Len(active)
    BY <2>1, <2>3, <2>4 DEF visited, finished
  <2>6. {active'[i].signal : i \in DOMAIN active'} = {active[i].signal : i \in DOMAIN active} \cup {sig}
    BY <2>2, <2>4
  <2>7. {active'[i].signal : i \in DOMAIN active'} = {SignalOrder[j] : j \in 1..next} \cap populated
    <3>1. {SignalOrder[j] : j \in 1..next} = {SignalOrder[j] : j \in 1..(next - 1)} \cup {sig}
      BY <1>3
    <3> HIDE DEF sig
    <3> QED BY <1>7, <1>8, <2>6, <3>1
  <2>8. sig \notin {active[i].signal : i \in DOMAIN active}
    <3>1. \A j \in 1..(next - 1) : SignalOrder[j] # sig
      BY <1>1 DEF SignalOrder
    <3> QED BY <1>1, <1>2, <3>1 DEF SelectInv
  <2>9. \A i, j \in DOMAIN active' : active'[i].signal = active'[j].signal => i = j
    BY <1>1, <2>2, <2>4, <2>8 DEF SelectInv
  <2>10. chain' = q.processors
    BY <2>3, <2>4 DEF chain
  <2>11. item' \in 1..(Len(chain') + 1) /\ item' - 1 = 0 /\ active' # <<>> /\ active'[Len(active')].signal = sig
    BY <2>1, <2>2, <2>3, <2>4, <2>10
  <2>12. /\ {active'[i].processors : i \in 1..Len(active)} = {active[i].processors : i \in 1..Len(active)}
         /\ {Els(active'[i].processors) : i \in 1..finished'} = {Els(active[i].processors) : i \in 1..finished}
    BY <1>2, <2>3, <2>4, <2>5
  <2>14. {chain'[k] : k \in 1..(item' - 1)} = {}
    BY <2>11
  <2>15. SelectInv'
    <3>1. populated' \subseteq seenSignals' /\ next' \in 1..4 /\ pc' # "accepted"
      BY <1>1, <2>1 DEF SelectInv, seenSignals
    <3>2. active' \in Seq(Els(pipelines)')
      BY <1>1, <2>4
    <3>3. {active'[i].signal : i \in DOMAIN active'} = {SignalOrder[j] : j \in 1..visited'} \cap populated'
      BY <1>1, <2>5, <2>7
    <3>4. selected' \in Seq(defined') /\ NoDuplicates(selected)'
      BY <1>1 DEF SelectInv
    <3>5. Els(selected)' = (UNION {Els(active'[i].processors) : i \in 1..finished'})
                             \cup (IF pc' = "copy" THEN {chain'[k] : k \in 1..(item' - 1)} ELSE {})
      <4>1. Els(selected)' = Els(selected)
        BY <1>1 DEF Els
      <4>2. Els(selected) = UNION {Els(active'[i].processors) : i \in 1..finished'}
        BY <1>2, <1>8, <2>12
      <4> QED BY <2>1, <2>14, <4>1, <4>2
    <3>6. \A id \in Els(selected)' : ~hasProviderSubstitution(source.processors[id].scalars)'
      BY <1>1 DEF SelectInv
    <3>7. next' <= 3 /\ active'[Len(active')].signal = SignalOrder[next']
      BY <1>1, <2>1, <2>11
    <3> QED BY <2>9, <2>11, <3>1, <3>2, <3>3, <3>4, <3>5, <3>6, <3>7 DEF SelectInv
  <2> QED BY <1>1, <1>5, <2>1, <2>15 DEF HarnessInv
<1> QED BY <1>6, <1>7
LEMMA ProcessorStep ==
  ASSUME InputInv, HarnessInv, SelectProcessor
  PROVE  HarnessInv'
<1> DEFINE id == chain[item]
<1>1. CASE reject("provider")
  BY <1>1 DEF reject, HarnessInv
<1>2. CASE /\ isNew(id) => ~hasProviderSubstitution(source.processors[id].scalars)
           /\ selected' = IF isNew(id) THEN Append(selected, id) ELSE selected
           /\ item' = item + 1
           /\ UNCHANGED <<input, pc, why, next, defined, pipelines, active>>
  <2>1. pc = "copy" /\ ReadInv /\ SelectInv /\ item \in DOMAIN chain /\ UNCHANGED source
    BY <1>2 DEF SelectProcessor, HarnessInv, input
  <2>2. active \in Seq(Els(pipelines)) /\ active # <<>> /\ chain \in Seq(defined)
    <3>1. active[Len(active)] \in Els(pipelines)
      BY <2>1 DEF SelectInv
    <3> QED BY <2>1, <3>1, PipelinesRead DEF SelectInv, chain
  <2>3. id \in defined /\ item \in 1..Len(chain) /\ chain' = chain
    BY <1>2, <2>1, <2>2 DEF chain
  <2>4. selected \in Seq(defined) /\ NoDuplicates(selected)
    BY <2>1 DEF SelectInv
  <2>5. /\ selected' \in Seq(defined) /\ NoDuplicates(selected') /\ Els(selected') = Els(selected) \cup {id}
    <3>1. CASE isNew(id)
      <4>1. selected' = Append(selected, id) /\ id \notin Els(selected)
        BY <1>2, <3>1 DEF isNew
      <4> HIDE DEF id
      <4>2. /\ selected' \in Seq(defined) /\ DOMAIN selected' = DOMAIN selected \cup {Len(selected) + 1}
            /\ \A i \in DOMAIN selected : selected'[i] = selected[i]
            /\ selected'[Len(selected) + 1] = id
        BY <2>3, <2>4, <4>1
      <4> QED BY <2>4, <4>1, <4>2 DEF NoDuplicates, Els
    <3>2. CASE ~isNew(id)
      BY <1>2, <2>4, <3>2 DEF isNew
    <3> QED BY <3>1, <3>2
  <2>6. \A x \in Els(selected') : ~hasProviderSubstitution(source.processors[x].scalars)
    BY <1>2, <2>1, <2>5 DEF SelectInv, isNew
  <2>7. {chain'[k] : k \in 1..(item' - 1)} = {chain[k] : k \in 1..(item - 1)} \cup {id}
    <3>1. 1..(item' - 1) = 1..(item - 1) \cup {item}
      BY <1>2, <2>3
    <3> QED BY <2>3, <3>1
  <2>8. Els(selected') = (UNION {Els(active[i].processors) : i \in 1..finished}) \cup {chain'[k] : k \in 1..(item' - 1)}
    <3>1. Els(selected) = (UNION {Els(active[i].processors) : i \in 1..finished}) \cup {chain[k] : k \in 1..(item - 1)}
      BY <2>1 DEF SelectInv
    <3> QED BY <2>5, <2>7, <3>1
  <2>9. finished' = finished /\ visited' = visited /\ readCount' = readCount
    BY <1>2, <2>1 DEF finished, visited, readCount
  <2>10. ReadInv'
    BY <1>2, <2>1, <2>9 DEF ReadInv
  <2>11. SelectInv'
    <3>1. populated' \subseteq seenSignals' /\ next' \in 1..4 /\ active' \in Seq(Els(pipelines)')
      BY <1>2, <2>1 DEF SelectInv, seenSignals, Els, input
    <3>2. {active'[i].signal : i \in DOMAIN active'} = {SignalOrder[j] : j \in 1..visited'} \cap populated'
      BY <1>2, <2>1, <2>9 DEF SelectInv, input
    <3>3. \A i, j \in DOMAIN active' : active'[i].signal = active'[j].signal => i = j
      BY <1>2, <2>1 DEF SelectInv
    <3>4. next' <= 3 /\ active' # <<>> /\ active'[Len(active')].signal = SignalOrder[next'] /\ item' \in 1..(Len(chain') + 1)
      BY <1>2, <2>1, <2>2, <2>3 DEF SelectInv
    <3>5. {Els(active'[i].processors) : i \in 1..finished'} = {Els(active[i].processors) : i \in 1..finished}
      BY <1>2, <2>9
    <3>6. pc' = "copy" /\ defined' = defined
      BY <1>2, <2>1
    <3>7. Els(selected)' = (UNION {Els(active'[i].processors) : i \in 1..finished'})
                             \cup (IF pc' = "copy" THEN {chain'[k] : k \in 1..(item' - 1)} ELSE {})
      BY <2>8, <3>5, <3>6 DEF Els
    <3>8. \A x \in Els(selected)' : ~hasProviderSubstitution(source.processors[x].scalars)'
      BY <2>1, <2>6 DEF Els
    <3>9. selected' \in Seq(defined') /\ NoDuplicates(selected)'
      BY <2>5, <3>6 DEF NoDuplicates
    <3> QED BY <3>1, <3>2, <3>3, <3>4, <3>6, <3>7, <3>8, <3>9 DEF SelectInv
  <2> QED BY <1>2, <2>1, <2>10, <2>11 DEF HarnessInv
<1> QED BY <1>1, <1>2 DEF SelectProcessor

LEMMA NextStep ==
  ASSUME InputInv, HarnessInv, NextPipeline
  PROVE  HarnessInv'
<1>1. /\ pc = "copy" /\ pc' = "select" /\ next' = next + 1 /\ item = Len(chain) + 1
      /\ ReadInv /\ SelectInv
      /\ UNCHANGED <<source, populated, why, item, defined, pipelines, selected, active>>
  BY DEF NextPipeline, HarnessInv, input
<1>2. active \in Seq(Els(pipelines)) /\ active # <<>> /\ chain \in Seq(defined)
  <2>1. active[Len(active)] \in Els(pipelines)
    BY <1>1 DEF SelectInv
  <2> QED BY <1>1, <2>1, PipelinesRead DEF SelectInv, chain
<1>3. next \in 1..3 /\ next' \in 1..4 /\ visited' = visited /\ readCount' = readCount
  BY <1>1 DEF SelectInv, visited, readCount
<1>4. finished = Len(active) - 1 /\ finished' = Len(active) /\ Len(active) \in Nat \ {0}
  BY <1>1, <1>2 DEF finished
<1>5. {chain[k] : k \in 1..(item - 1)} = Els(active[Len(active)].processors)
  BY <1>1, <1>2 DEF chain, Els
<1>6. Els(selected) = UNION {Els(active[i].processors) : i \in 1..Len(active)}
  <2>1. Els(selected) = (UNION {Els(active[i].processors) : i \in 1..(Len(active) - 1)}) \cup Els(active[Len(active)].processors)
    BY <1>1, <1>4, <1>5 DEF SelectInv
  <2>2. 1..Len(active) = 1..(Len(active) - 1) \cup {Len(active)}
    BY <1>4
  <2> QED BY <2>1, <2>2
<1>7. ReadInv'
  BY <1>1, <1>3 DEF ReadInv
<1>8. SelectInv'
  <2>1. populated' \subseteq seenSignals' /\ active' \in Seq(Els(pipelines)')
    BY <1>1 DEF SelectInv, seenSignals, Els
  <2>2. {active'[i].signal : i \in DOMAIN active'} = {SignalOrder[j] : j \in 1..visited'} \cap populated'
    BY <1>1, <1>3 DEF SelectInv
  <2>3. \A i, j \in DOMAIN active' : active'[i].signal = active'[j].signal => i = j
    BY <1>1 DEF SelectInv
  <2>4. selected' \in Seq(defined') /\ NoDuplicates(selected)'
    BY <1>1 DEF SelectInv
  <2>5. \A id \in Els(selected)' : ~hasProviderSubstitution(source.processors[id].scalars)'
    BY <1>1 DEF SelectInv
  <2>6. Els(selected)' = (UNION {Els(active'[i].processors) : i \in 1..finished'})
                           \cup (IF pc' = "copy" THEN {chain'[k] : k \in 1..(item' - 1)} ELSE {})
    <3>1. Els(selected)' = Els(selected)
      BY <1>1 DEF Els
    <3>2. {Els(active'[i].processors) : i \in 1..finished'} = {Els(active[i].processors) : i \in 1..Len(active)}
      BY <1>1, <1>4
    <3> QED BY <1>1, <1>6, <3>1, <3>2
  <2> QED BY <1>1, <1>3, <2>1, <2>2, <2>3, <2>4, <2>5, <2>6 DEF SelectInv
<1> QED BY <1>1, <1>7, <1>8 DEF HarnessInv

\* A step that selects nothing keeps what is said of the selection.
LEMMA SelectKept ==
  ASSUME SelectInv, next' \in 1..4, pc' = "accepted" => next' = 4,
         pc = "copy" <=> pc' = "copy", pc' = "copy" => next' = next,
         visited' = visited, finished' = finished,
         UNCHANGED <<source, populated, item, defined, pipelines, selected, active>>
  PROVE  SelectInv'
<1>1. populated' \subseteq seenSignals' /\ active' \in Seq(Els(pipelines)')
  BY DEF SelectInv, seenSignals, Els
<1>2. {active'[i].signal : i \in DOMAIN active'} = {SignalOrder[j] : j \in 1..visited'} \cap populated'
  BY DEF SelectInv
<1>3. \A i, j \in DOMAIN active' : active'[i].signal = active'[j].signal => i = j
  BY DEF SelectInv
<1>4. selected' \in Seq(defined') /\ NoDuplicates(selected)'
  BY DEF SelectInv
<1>5. \A id \in Els(selected)' : ~hasProviderSubstitution(source.processors[id].scalars)'
  BY DEF SelectInv
<1>6. chain' = chain
  BY DEF chain
<1>7. Els(selected)' = (UNION {Els(active'[i].processors) : i \in 1..finished'})
                         \cup (IF pc' = "copy" THEN {chain'[k] : k \in 1..(item' - 1)} ELSE {})
  <2>1. Els(selected)' = Els(selected)
    BY DEF Els
  <2>2. {Els(active'[i].processors) : i \in 1..finished'} = {Els(active[i].processors) : i \in 1..finished}
    OBVIOUS
  <2>3. {chain'[k] : k \in 1..(item' - 1)} = {chain[k] : k \in 1..(item - 1)}
    BY <1>6
  <2>4. Els(selected) = (UNION {Els(active[i].processors) : i \in 1..finished})
                          \cup (IF pc = "copy" THEN {chain[k] : k \in 1..(item - 1)} ELSE {})
    BY DEF SelectInv
  <2> QED BY <2>1, <2>2, <2>3, <2>4
<1>8. pc' = "copy" => /\ next' <= 3 /\ active' # <<>>
                      /\ active'[Len(active')].signal = SignalOrder[next']
                      /\ item' \in 1..(Len(chain') + 1)
  BY <1>6 DEF SelectInv
<1> QED BY <1>1, <1>2, <1>3, <1>4, <1>5, <1>7, <1>8 DEF SelectInv

LEMMA AcceptStep ==
  ASSUME InputInv, HarnessInv, Accept
  PROVE  HarnessInv'
<1>1. /\ pc = "select" /\ pc' = "accepted" /\ next = 4 /\ ReadInv /\ SelectInv
      /\ UNCHANGED <<source, populated, why, position, defined, pipelines, selected, active>>
  BY DEF Accept, HarnessInv, SignalOrder, input
<1>2. visited' = visited /\ finished' = finished /\ readCount' = readCount
  BY <1>1 DEF visited, finished, readCount, position
<1>3. ReadInv'
  BY <1>1, <1>2 DEF ReadInv, position
<1>4. SelectInv'
  BY <1>1, <1>2, SelectKept DEF position
<1> QED BY <1>1, <1>3, <1>4 DEF HarnessInv

LEMMA HarnessInvariant == Spec => [](InputInv /\ HarnessInv)
<1>1. Init => HarnessInv
  <2> SUFFICES ASSUME Init PROVE HarnessInv
    OBVIOUS
  <2>1. pc = "form" /\ pipelines = <<>> /\ defined = {} /\ next = 1 /\ active = <<>> /\ selected = <<>> /\ why = "none"
    BY DEF Init, InitTopology
  <2>2. readCount = 0 /\ Len(pipelines) = 0
    BY <2>1 DEF readCount
  <2> QED BY <2>1, <2>2 DEF ReadInv, HarnessInv
<1>2. InputInv /\ HarnessInv /\ [Next]_vars => HarnessInv'
  <2> SUFFICES ASSUME InputInv, HarnessInv, [Next]_vars PROVE HarnessInv'
    OBVIOUS
  <2>1. CASE Parse
    BY <2>1, FormStep, ReadStep, RouteStep, SelectStep, ProcessorStep, NextStep, AcceptStep
       DEF Parse, ParseTopology
  <2>2. CASE UNCHANGED topologyVars
    <3>1. /\ UNCHANGED <<source, populated, pc, why, next, item>>
          /\ UNCHANGED <<defined, pipelines, selected, active>>
      BY <2>2 DEF topologyVars, input, position
    <3>2. readCount' = readCount /\ visited' = visited /\ finished' = finished /\ chain' = chain
      BY <3>1 DEF readCount, visited, finished, chain
    <3>3. ReadInv' <=> ReadInv
      BY <3>1, <3>2 DEF ReadInv
    <3>4. SelectInv => SelectInv'
      <4> SUFFICES ASSUME SelectInv PROVE SelectInv'
        OBVIOUS
      <4>1. next' \in 1..4 /\ (pc' = "accepted" => next' = 4)
        BY <3>1 DEF SelectInv
      <4> QED BY <3>1, <3>2, <4>1, SelectKept
    <3> QED BY <3>1, <3>3, <3>4 DEF HarnessInv
  <2> QED BY <2>1, <2>2 DEF Next, Deliver, vars
<1> QED BY <1>1, <1>2, InputInvariant, PTL DEF Spec
-----------------------------------------------------------------------------
(* What the harness is                                                     *)

LEMMA ChainOf ==
  ASSUME InputInv, HarnessInv, pc \in {"select", "copy", "accepted"}, NEW q \in Els(pipelines)
  PROVE  q.processors = SourceChain(q.signal)
<1>1. ReadInv /\ readCount = Len(source.pipelines)
  BY DEF HarnessInv, readCount
<1>2. source.pipelines \in Seq(Els(source.pipelines)) /\ DOMAIN pipelines = 1..readCount
  BY <1>1 DEF InputInv, IsConfiguration, ReadInv
<1>3. PICK i \in 1..readCount : q = pipelines[i]
  BY <1>2 DEF Els
<1> DEFINE p == CHOOSE x \in Els(source.pipelines) : x.signal = q.signal
<1>4. \A j \in 1..readCount : /\ pipelines[j].signal = source.pipelines[j].signal
                              /\ pipelines[j].processors = processorIDs(source.pipelines[j])
  <2> TAKE j \in 1..readCount
  <2>1. pipelines[j] = AsRead(source.pipelines[j])
    BY <1>1 DEF ReadInv
  <2> QED BY <2>1 DEF AsRead
<1>5. p \in Els(source.pipelines) /\ p.signal = q.signal
  <2>1. source.pipelines[i] \in Els(source.pipelines) /\ source.pipelines[i].signal = q.signal
    BY <1>1, <1>2, <1>3, <1>4 DEF Els
  <2> QED BY <2>1
<1> HIDE DEF p
<1>6. PICK j \in 1..readCount : p = source.pipelines[j]
  BY <1>1, <1>2, <1>5 DEF Els
<1>7. i = j
  BY <1>1, <1>3, <1>4, <1>5, <1>6 DEF ReadInv
<1>8. q.processors = processorIDs(p)
  BY <1>3, <1>4, <1>6, <1>7
<1> QED BY <1>8 DEF SourceChain, p

LEMMA AcceptedIsFaithful ==
  ASSUME InputInv, HarnessInv
  PROVE  HarnessIsFaithful
<1> SUFFICES ASSUME pc = "accepted" PROVE HarnessIsFaithful
  BY DEF HarnessIsFaithful
<1>1. ReadInv /\ SelectInv /\ visited = 3 /\ finished = Len(active)
  <2>1. ReadInv /\ SelectInv /\ next = 4
    BY DEF HarnessInv, SelectInv
  <2> QED BY <2>1 DEF visited, finished
<1>2. active \in Seq(Els(pipelines)) /\ DOMAIN active = 1..Len(active)
  BY <1>1 DEF SelectInv
<1>3. {active[i].signal : i \in DOMAIN active} = populated
  <2>1. {SignalOrder[j] : j \in 1..3} = Signals
    <3>1. 1..3 = {1, 2, 3}
      OBVIOUS
    <3>2. SignalOrder[1] = "logs" /\ SignalOrder[2] = "metrics" /\ SignalOrder[3] = "traces"
      BY DEF SignalOrder
    <3> QED BY <3>1, <3>2 DEF Signals
  <2>2. {active[i].signal : i \in DOMAIN active} = {SignalOrder[j] : j \in 1..3} \cap populated
    BY <1>1 DEF SelectInv
  <2> QED BY <2>1, <2>2, PipelinesRead
<1>4. \A i \in DOMAIN active : active[i].processors = SourceChain(active[i].signal)
  BY <1>2, ChainOf
<1>5. NoDuplicates([i \in DOMAIN active |-> active[i].signal]) /\ NoDuplicates(selected)
  BY <1>1 DEF SelectInv, NoDuplicates
<1>6. Els(selected) = UNION {Els(SourceChain(s)) : s \in populated}
  <2>1. Els(selected) = UNION {Els(active[i].processors) : i \in DOMAIN active}
    BY <1>1, <1>2 DEF SelectInv
  <2>2. {Els(active[i].processors) : i \in DOMAIN active} = {Els(SourceChain(s)) : s \in populated}
    BY <1>3, <1>4
  <2> QED BY <2>1, <2>2
<1>7. Els(selected) \subseteq defined
  BY <1>1 DEF SelectInv, Els
<1> QED BY <1>3, <1>4, <1>5, <1>6, <1>7 DEF HarnessIsFaithful

\* The harness has, for exactly the signals of the fixture, one pipeline with
\* the chain of the configuration, and defines what those chains use once.
THEOREM HarnessFaithful == Spec => []HarnessIsFaithful
BY AcceptedIsFaithful, HarnessInvariant, PTL

\* A signal is in doubt for its own pipeline's processors and nothing else.
THEOREM DoubtScoped == Spec => []DoubtIsScoped
<1>1. InputInv /\ HarnessInv => DoubtIsScoped
  <2> SUFFICES ASSUME InputInv, HarnessInv, pc = "accepted", NEW s \in Signals
               PROVE  doubted(s) <=> \/ populated = {}
                                     \/ s \in populated /\ Els(SourceChain(s)) \cap Buffering # {}
    BY DEF DoubtIsScoped
  <2> DEFINE held(i) == Els(active[i].processors) \cap Buffering
  <2>1. /\ {active[i].signal : i \in DOMAIN active} = populated
        /\ \A i \in DOMAIN active : active[i].processors = SourceChain(active[i].signal)
        /\ Els(selected) = UNION {Els(SourceChain(t)) : t \in populated}
    BY AcceptedIsFaithful DEF HarnessIsFaithful
  <2>2. DOMAIN inconclusiveSignals = {active[i].signal : i \in {j \in DOMAIN active : held(j) # {}}}
    BY DEF inconclusiveSignals
  <2>3. DOMAIN inconclusiveSignals = {t \in populated : Els(SourceChain(t)) \cap Buffering # {}}
    BY <2>1, <2>2
  <2>4. DOMAIN inconclusiveSignals = {} => inconclusive = {}
    BY <2>1, <2>3 DEF inconclusive
  <2>5. active = <<>> <=> populated = {}
    <3>1. active \in Seq(Els(pipelines))
      BY DEF HarnessInv, SelectInv
    <3>2. active # <<>> <=> DOMAIN active # {}
      BY <3>1
    <3> QED BY <2>1, <3>2
  <2>6. uncertain # {} <=> populated = {}
    <3>1. CASE DOMAIN inconclusiveSignals # {}
      BY <2>3, <3>1 DEF uncertain
    <3>2. CASE DOMAIN inconclusiveSignals = {}
      BY <2>4, <2>5, <3>2 DEF uncertain, InconclusiveReasons
    <3> QED BY <3>1, <3>2
  <2> QED BY <2>3, <2>6 DEF doubted
<1> QED BY <1>1, HarnessInvariant, PTL

-----------------------------------------------------------------------------
(* Provider substitutions                                                  *)

\* Every set of natural numbers has a least one.
LEMMA LeastNumber ==
  ASSUME NEW T, T \subseteq Nat, T # {}
  PROVE  \E x \in T : \A y \in T : x <= y
<1> DEFINE R == OpToRel(<, Nat)
<1>1. IsWellFoundedOn(R, Nat)
  BY NatLessThanWellFounded
<1>2. \A x, y \in Nat : <<x, y>> \in R <=> x < y
  BY DEF OpToRel
<1> HIDE DEF R
<1>3. PICK x \in T : \A y \in T : ~(<<y, x>> \in R)
  BY <1>1, WFMin
<1>4. \A y \in T : x <= y
  <2> TAKE y \in T
  <2>1. x \in Nat /\ y \in Nat /\ ~(y < x)
    BY <1>2, <1>3
  <2> QED BY <2>1
<1> QED BY <1>4

\* The dollars right before position b, none of them before position i.
dollarsFrom(text, i, b) == {j \in i..(b - 1) : \A k \in j..(b - 1) : text[k] = "$"}

opening(text, i) ==
  \E b \in (i + 1)..Len(text) : text[b] = "{" /\ Cardinality(dollarsFrom(text, i, b)) % 2 = 1

LEMMA DollarsFinite ==
  ASSUME NEW text, NEW i \in Int, NEW b \in Int
  PROVE  IsFiniteSet(dollarsFrom(text, i, b)) /\ Cardinality(dollarsFrom(text, i, b)) \in Nat
<1>1. IsFiniteSet(i..(b - 1)) /\ dollarsFrom(text, i, b) \in SUBSET (i..(b - 1))
  BY FS_Interval DEF dollarsFrom
<1>2. IsFiniteSet(dollarsFrom(text, i, b))
  BY <1>1, FS_Subset
<1> QED BY <1>2, FS_CardinalityType

\* What a scan from the left, as the Collector makes it, finds at position i.
LEMMA OpeningStep ==
  ASSUME NEW S, NEW text \in Seq(S), NEW i \in 1..(Len(text) + 1)
  PROVE  /\ i >= Len(text) => ~opening(text, i)
         /\ i < Len(text) /\ text[i] # "$" => (opening(text, i) <=> opening(text, i + 1))
         /\ i < Len(text) /\ text[i] = "$" /\ text[i + 1] = "$" =>
              (opening(text, i) <=> opening(text, i + 2))
         /\ i < Len(text) /\ text[i] = "$" /\ text[i + 1] # "$" =>
              (opening(text, i) <=> text[i + 1] = "{" \/ opening(text, i + 1))
<1> DEFINE L == Len(text)
<1>0. L \in Nat /\ i \in Nat
  OBVIOUS
<1>5. 0 % 2 = 0 /\ 1 % 2 = 1 /\ 2 % 2 = 0
  OBVIOUS
<1>1. ASSUME i >= L PROVE ~opening(text, i)
  <2>1. (i + 1)..L = {}
    BY <1>0, <1>1
  <2> QED BY <2>1 DEF opening
<1>2. ASSUME i < L, text[i] # "$" PROVE opening(text, i) <=> opening(text, i + 1)
  <2>1. Cardinality(dollarsFrom(text, i, i + 1)) = 0
    <3>1. dollarsFrom(text, i, i + 1) = {}
      BY <1>0, <1>2 DEF dollarsFrom
    <3> QED BY <3>1, FS_EmptySet
  <2>2. \A b \in (i + 2)..L : dollarsFrom(text, i, b) = dollarsFrom(text, i + 1, b)
    BY <1>0, <1>2 DEF dollarsFrom
  <2>3. \A b \in (i + 1)..L : b = i + 1 \/ b \in (i + 2)..L
    BY <1>0
  <2>4. \A b \in (i + 2)..L : b \in (i + 1)..L
    BY <1>0
  <2>7. Cardinality(dollarsFrom(text, i, i + 1)) % 2 # 1
    BY <2>1, <1>5
  <2>5. opening(text, i) <=> \E b \in (i + 2)..L : text[b] = "{" /\ Cardinality(dollarsFrom(text, i, b)) % 2 = 1
    BY <2>7, <2>3, <2>4 DEF opening
  <2>6. opening(text, i + 1) <=> \E b \in (i + 2)..L : text[b] = "{" /\ Cardinality(dollarsFrom(text, i + 1, b)) % 2 = 1
    BY <1>0 DEF opening
  <2> QED BY <2>2, <2>5, <2>6
<1>3. ASSUME i < L, text[i] = "$", text[i + 1] = "$" PROVE opening(text, i) <=> opening(text, i + 2)
  <2>1. \A b \in (i + 3)..L :
           Cardinality(dollarsFrom(text, i, b)) % 2 = Cardinality(dollarsFrom(text, i + 2, b)) % 2
    <3> TAKE b \in (i + 3)..L
    <3> DEFINE D == dollarsFrom(text, i + 2, b)
    <3>0. b \in Nat /\ i + 2 <= b - 1
      BY <1>0
    <3>1. IsFiniteSet(D) /\ Cardinality(D) \in Nat
      BY <1>0, <3>0, DollarsFinite
    <3>2. CASE \A k \in (i + 2)..(b - 1) : text[k] = "$"
      <4>1. dollarsFrom(text, i, b) = (D \cup {i + 1}) \cup {i}
        <5>1. \A k \in i..(b - 1) : text[k] = "$"
          BY <1>0, <1>3, <3>2
        <5>2. dollarsFrom(text, i, b) = i..(b - 1)
          BY <1>0, <3>0, <5>1 DEF dollarsFrom
        <5>3. D = (i + 2)..(b - 1)
          BY <1>0, <3>0, <5>1 DEF dollarsFrom
        <5> QED BY <1>0, <3>0, <5>2, <5>3
      <4>2. i + 1 \notin D /\ i \notin D \cup {i + 1}
        BY <1>0 DEF dollarsFrom
      <4> HIDE DEF D
      <4>3. IsFiniteSet(D \cup {i + 1}) /\ Cardinality(D \cup {i + 1}) = Cardinality(D) + 1
        BY <3>1, <4>2, FS_AddElement
      <4>4. Cardinality((D \cup {i + 1}) \cup {i}) = Cardinality(D \cup {i + 1}) + 1
        BY <4>2, <4>3, FS_AddElement
      <4>5. Cardinality((D \cup {i + 1}) \cup {i}) = Cardinality(D) + 2
        BY <3>1, <4>3, <4>4
      <4>6. \A n \in Nat : (n + 2) % 2 = n % 2
        OBVIOUS
      <4> QED BY <3>1, <4>1, <4>5, <4>6 DEF D
    <3>3. CASE ~(\A k \in (i + 2)..(b - 1) : text[k] = "$")
      <4>1. dollarsFrom(text, i, b) = D
        BY <1>0, <3>0, <3>3 DEF dollarsFrom
      <4> QED BY <4>1
    <3> QED BY <3>2, <3>3
  <2>2. i + 2 <= L => Cardinality(dollarsFrom(text, i, i + 2)) % 2 = 0
    <3>1. dollarsFrom(text, i, i + 2) = {i} \cup {i + 1}
      BY <1>0, <1>3 DEF dollarsFrom
    <3>2. IsFiniteSet({i}) /\ Cardinality({i}) = 1
      BY FS_Singleton, Zenon
    <3>3. i + 1 \notin {i}
      BY <1>0
    <3> DEFINE I == {i}
               k == i + 1
    <3> HIDE DEF I, k
    <3>4. IsFiniteSet(I) /\ k \notin I /\ Cardinality(I) = 1
      BY <3>2, <3>3 DEF I, k
    <3>5. Cardinality(I \cup {k}) = 1 + 1
      BY <3>4, FS_AddElement
    <3>6. dollarsFrom(text, i, i + 2) = I \cup {k}
      BY <3>1 DEF I, k
    <3>7. Cardinality(dollarsFrom(text, i, i + 2)) = 1 + 1
      BY <3>5, <3>6, Zenon
    <3> QED BY <3>7, <1>5
  <2>3. \A b \in (i + 1)..L : b = i + 1 \/ b = i + 2 \/ b \in (i + 3)..L
    BY <1>0
  <2>4. \A b \in (i + 3)..L : b \in (i + 1)..L
    BY <1>0
  <2>5. opening(text, i) <=> \E b \in (i + 3)..L : text[b] = "{" /\ Cardinality(dollarsFrom(text, i, b)) % 2 = 1
    <3>1. \A b \in (i + 1)..L : text[b] = "{" /\ Cardinality(dollarsFrom(text, i, b)) % 2 = 1 => b \in (i + 3)..L
      <4> TAKE b \in (i + 1)..L
      <4>1. CASE b = i + 1
        BY <1>3, <4>1
      <4>2. CASE b = i + 2
        <5>1. Cardinality(dollarsFrom(text, i, b)) % 2 = 0
          BY <1>0, <2>2, <4>2
        <5> QED BY <5>1
      <4> QED BY <2>3, <4>1, <4>2
    <3> QED BY <2>4, <3>1 DEF opening
  <2>6. opening(text, i + 2) <=> \E b \in (i + 3)..L : text[b] = "{" /\ Cardinality(dollarsFrom(text, i + 2, b)) % 2 = 1
    BY <1>0 DEF opening
  <2> QED BY <2>1, <2>5, <2>6
<1>4. ASSUME i < L, text[i] = "$", text[i + 1] # "$"
      PROVE  opening(text, i) <=> text[i + 1] = "{" \/ opening(text, i + 1)
  <2>1. Cardinality(dollarsFrom(text, i, i + 1)) % 2 = 1
    <3>1. dollarsFrom(text, i, i + 1) = {i}
      BY <1>0, <1>4 DEF dollarsFrom
    <3>2. Cardinality({i}) = 1
      BY FS_Singleton, Zenon
    <3> QED BY <3>1, <3>2, <1>5
  <2>2. \A b \in (i + 2)..L : dollarsFrom(text, i, b) = dollarsFrom(text, i + 1, b)
    BY <1>0, <1>4 DEF dollarsFrom
  <2>3. \A b \in (i + 1)..L : b = i + 1 \/ b \in (i + 2)..L
    BY <1>0
  <2>4. \A b \in (i + 2)..L : b \in (i + 1)..L
    BY <1>0
  <2>5. i + 1 \in (i + 1)..L
    BY <1>0, <1>4
  <2>6. opening(text, i) <=> text[i + 1] = "{" \/ \E b \in (i + 2)..L : text[b] = "{" /\ Cardinality(dollarsFrom(text, i, b)) % 2 = 1
    BY <2>1, <2>3, <2>4, <2>5 DEF opening
  <2>7. opening(text, i + 1) <=> \E b \in (i + 2)..L : text[b] = "{" /\ Cardinality(dollarsFrom(text, i + 1, b)) % 2 = 1
    BY <1>0 DEF opening
  <2> QED BY <2>2, <2>6, <2>7
<1> QED BY <1>1, <1>2, <1>3, <1>4

\* The scan from the left, which skips escaped dollars in pairs, and the count
\* of the dollars before a brace find the same scalars.  The recursive scan is
\* shown equal to its explicit form from the right end, by a least distance at
\* which the two would differ.
LEMMA OpensIsOddRun ==
  ASSUME NEW S, NEW text \in Seq(S)
  PROVE  Opens(text) <=> \E b \in DOMAIN text : text[b] = "{" /\ dollars(text, b) % 2 = 1
<1> DEFINE L == Len(text)
           Scan(g, i) == IF i >= L THEN FALSE
                         ELSE IF text[i] # "$" THEN g[i + 1]
                         ELSE IF text[i + 1] = "$" THEN g[i + 2]
                         ELSE text[i + 1] = "{" \/ g[i + 1]
           IsScan(g) == g = [i \in 1..(L + 1) |-> Scan(g, i)]
           G == [i \in 1..(L + 1) |-> opening(text, i)]
           from == CHOOSE g : IsScan(g)
<1>0. L \in Nat
  OBVIOUS
<1>1. \A i \in 1..(L + 1) : opening(text, i) = Scan(G, i)
  <2> TAKE i \in 1..(L + 1)
  <2> HIDE DEF G
  <2>0. \A j : opening(text, j) \in BOOLEAN
    BY DEF opening
  <2>1. CASE i >= L
    BY <2>0, <2>1, OpeningStep
  <2>2. CASE i < L
    <3>1. i + 1 \in 1..(L + 1) /\ i + 2 \in 1..(L + 1) /\ ~(i >= L)
      BY <1>0, <2>2
    <3>2. G[i + 1] = opening(text, i + 1) /\ G[i + 2] = opening(text, i + 2)
      BY <3>1 DEF G
    <3>3. CASE text[i] # "$"
      BY <2>0, <2>2, <3>1, <3>2, <3>3, OpeningStep
    <3>4. CASE text[i] = "$" /\ text[i + 1] = "$"
      BY <2>0, <2>2, <3>1, <3>2, <3>4, OpeningStep
    <3>5. CASE text[i] = "$" /\ text[i + 1] # "$"
      BY <2>0, <2>2, <3>1, <3>2, <3>5, OpeningStep
    <3> QED BY <3>3, <3>4, <3>5
  <2>3. i >= L \/ i < L
    BY <1>0
  <2> QED BY <2>1, <2>2, <2>3
<1>2. IsScan(G)
  <2> HIDE DEF Scan
  <2> QED BY <1>1
<1>3. IsScan(from)
  <2> HIDE DEF IsScan
  <2> QED BY <1>2
<1>4. from[1] = G[1]
  <2> DEFINE B == {n \in 0..L : from[L + 1 - n] # G[L + 1 - n]}
  <2> HIDE DEF from, G
  <2>1. SUFFICES ASSUME B # {} PROVE FALSE
    <3>1. L + 1 - L = 1 /\ L \in 0..L
      BY <1>0
    <3> QED BY <3>1
  <2>2. PICK n \in B : \A m \in B : n <= m
    <3>1. B \subseteq Nat
      BY <1>0
    <3> HIDE DEF B
    <3> QED BY <2>1, <3>1, LeastNumber
  <2> DEFINE i == L + 1 - n
  <2>3. i \in 1..(L + 1) /\ from[i] # G[i]
    BY <1>0, <2>2
  <2>4. \A j \in (i + 1)..(L + 1) : from[j] = G[j]
    <3> TAKE j \in (i + 1)..(L + 1)
    <3>1. L + 1 - j \in 0..L /\ L + 1 - j < n /\ L + 1 - (L + 1 - j) = j
      BY <1>0, <2>2
    <3> QED BY <1>0, <2>2, <3>1
  <2> HIDE DEF i
  <2>5. from[i] = Scan(from, i) /\ G[i] = Scan(G, i)
    BY <1>2, <1>3, <2>3
  <2>6. CASE i >= L
    BY <2>3, <2>5, <2>6
  <2>7. CASE i < L
    <3>1. i + 1 \in (i + 1)..(L + 1) /\ i + 2 \in (i + 1)..(L + 1)
      BY <1>0, <2>3, <2>7
    <3>2. from[i + 1] = G[i + 1] /\ from[i + 2] = G[i + 2]
      BY <2>4, <3>1
    <3> QED BY <2>3, <2>5, <3>2
  <2> QED BY <1>0, <2>3, <2>6, <2>7
<1>5. Opens(text) = from[1]
  BY DEF Opens
<1>6. Opens(text) <=> opening(text, 1)
  <2>1. G[1] <=> opening(text, 1)
    BY <1>0
  <2> HIDE DEF from, G
  <2> QED BY <1>4, <1>5, <2>1
<1>7. \A b \in DOMAIN text : dollars(text, b) = Cardinality(dollarsFrom(text, 1, b))
  BY DEF dollars, dollarsFrom
<1>8. Cardinality(dollarsFrom(text, 1, 1)) % 2 = 0
  <2>1. dollarsFrom(text, 1, 1) = {}
    BY DEF dollarsFrom
  <2> QED BY <2>1, FS_EmptySet
<1>9. \A b \in DOMAIN text : b = 1 \/ b \in 2..L
  OBVIOUS
<1>10. \A b \in 2..L : b \in DOMAIN text
  OBVIOUS
<1>11. opening(text, 1) <=> \E b \in 2..L : text[b] = "{" /\ Cardinality(dollarsFrom(text, 1, b)) % 2 = 1
  BY DEF opening
<1>12. opening(text, 1) <=> \E b \in DOMAIN text : text[b] = "{" /\ Cardinality(dollarsFrom(text, 1, b)) % 2 = 1
  <2>1. ~(Cardinality(dollarsFrom(text, 1, 1)) % 2 = 1)
    BY <1>8
  <2> QED BY <2>1, <1>9, <1>10, <1>11
<1> QED BY <1>6, <1>7, <1>12

\* The test in the code finds what the Collector would substitute.
LEMMA SubstitutionFound ==
  ASSUME InputInv, NEW id \in DOMAIN source.processors
  PROVE  substituted(id) <=> hasProviderSubstitution(source.processors[id].scalars)
<1>1. \A text \in source.processors[id].scalars : text \in Seq(Els(text))
  BY DEF InputInv, IsConfiguration
<1>2. \A text \in source.processors[id].scalars :
        Opens(text) <=> \E b \in DOMAIN text : text[b] = "{" /\ dollars(text, b) % 2 = 1
  BY <1>1, OpensIsOddRun
<1> QED BY <1>2 DEF substituted, hasProviderSubstitution

RejectedForProvider ==
  why = "provider" => \E s \in populated : \E id \in Els(SourceChain(s)) : substituted(id)

\* Nothing in the harness is substituted when the Collector reads it, and a
\* configuration is rejected for a substitution only if the harness would have
\* had one: the test for an odd run of dollars is exact for every text.
THEOREM HarnessHasNoProvider == Spec => []NoProviderInHarness
<1>1. InputInv /\ HarnessInv /\ pc = "accepted" => \A id \in Els(selected) : ~substituted(id)
  <2> SUFFICES ASSUME InputInv, HarnessInv, pc = "accepted", NEW id \in Els(selected)
               PROVE  ~substituted(id)
    OBVIOUS
  <2>1. ReadInv /\ SelectInv
    BY DEF HarnessInv
  <2>2. id \in DOMAIN source.processors
    <3>1. Els(selected) \subseteq defined
      BY <2>1 DEF SelectInv, Els
    <3> QED BY <2>1, <3>1 DEF ReadInv
  <2>3. ~hasProviderSubstitution(source.processors[id].scalars)
    BY <2>1 DEF SelectInv
  <2> QED BY <2>2, <2>3, SubstitutionFound
<1>2. Init => RejectedForProvider
  BY DEF Init, InitTopology, RejectedForProvider
<1>3. InputInv /\ HarnessInv /\ RejectedForProvider /\ [Next]_vars => RejectedForProvider'
  <2> SUFFICES ASSUME InputInv, HarnessInv, RejectedForProvider, [Next]_vars
               PROVE  RejectedForProvider'
    OBVIOUS
  <2>1. ASSUME UNCHANGED <<source, populated>>, why' = why \/ why' # "provider"
        PROVE  RejectedForProvider'
    BY <2>1 DEF RejectedForProvider, SourceChain, substituted
  <2>2. CASE Parse /\ ~SelectProcessor
    <3>1. UNCHANGED <<source, populated>> /\ (why' = why \/ why' # "provider")
      BY <2>2 DEF Parse, ParseTopology, CheckForm, ReadPipeline, CheckRouted, toSelection,
         SelectPipeline, NextPipeline, Accept, reject, input
    <3> QED BY <2>1, <3>1
  <2>3. CASE SelectProcessor
    <3> DEFINE id == chain[item]
    <3>1. CASE ~(isNew(id) /\ hasProviderSubstitution(source.processors[id].scalars))
      BY <2>1, <2>3, <3>1 DEF SelectProcessor, input
    <3>2. CASE isNew(id) /\ hasProviderSubstitution(source.processors[id].scalars)
      <4>1. pc = "copy" /\ ReadInv /\ SelectInv /\ item \in DOMAIN chain
        BY <2>3 DEF SelectProcessor, HarnessInv
      <4> DEFINE q == active[Len(active)]
      <4>2. q \in Els(pipelines) /\ q.signal \in populated /\ chain = q.processors
        <5>1. active \in Seq(Els(pipelines)) /\ active # <<>>
          BY <4>1 DEF SelectInv
        <5>2. Len(active) \in DOMAIN active
          BY <5>1
        <5>3. q.signal \in populated
          BY <4>1, <5>2 DEF SelectInv
        <5> QED BY <5>1, <5>2, <5>3 DEF chain
      <4>3. chain \in Seq(defined) /\ id \in defined /\ id \in Els(chain)
        BY <4>1, <4>2, PipelinesRead DEF Els
      <4>4. id \in Els(SourceChain(q.signal))
        BY <4>1, <4>2, <4>3, ChainOf
      <4>5. substituted(id)
        BY <3>2, <4>1, <4>3, SubstitutionFound DEF ReadInv
      <4>6. UNCHANGED <<source, populated>>
        BY <2>3 DEF SelectProcessor, reject, input
      <4> HIDE DEF q, id
      <4>7. \E s \in populated : \E x \in Els(SourceChain(s)) : substituted(x)
        BY <4>2, <4>4, <4>5
      <4>8. \A s : SourceChain(s)' = SourceChain(s)
        BY <4>6 DEF SourceChain
      <4>9. \A x : substituted(x)' <=> substituted(x)
        BY <4>6 DEF substituted
      <4> QED BY <4>6, <4>7, <4>8, <4>9, Zenon DEF RejectedForProvider
    <3> QED BY <3>1, <3>2
  <2>4. CASE Deliver \/ UNCHANGED vars
    BY <2>1, <2>4 DEF Deliver, vars, topologyVars, input
  <2> QED BY <2>2, <2>3, <2>4 DEF Next
<1>4. Spec => []RejectedForProvider
  BY <1>2, <1>3, HarnessInvariant, PTL DEF Spec
<1>5. InputInv /\ HarnessInv /\ RejectedForProvider => NoProviderInHarness
  BY <1>1 DEF NoProviderInHarness, RejectedForProvider
<1> QED BY <1>4, <1>5, HarnessInvariant, PTL

-----------------------------------------------------------------------------
(* The canonical form.  sortByJSON depends on nothing but how many values   *)
(* there are in each set of numbers, and an export moves as many values     *)
(* into the capture as it takes from what is owed.                          *)

\* The places of w whose value is in V.
Within(w, V) == {x \in DOMAIN w : w[x] \in V}

\* The canonical order of w depends on nothing but how many of its values are
\* in each set of numbers.
LEMMA SortOfCounts ==
  ASSUME NEW A, IsFiniteSet(A), NEW w \in [A -> Nat],
         NEW B, IsFiniteSet(B), NEW u \in [B -> Nat],
         \A V \in SUBSET Nat : Cardinality(Within(w, V)) = Cardinality(Within(u, V))
  PROVE  sortByJSON(w) = sortByJSON(u)
<1>1. DOMAIN w = A /\ DOMAIN u = B
  OBVIOUS
<1>2. Cardinality(A) = Cardinality(B)
  <2>1. Within(w, Nat) = A /\ Within(u, Nat) = B
    BY DEF Within
  <2> QED BY <2>1
<1>3. {w[x] : x \in A} = {u[x] : x \in B}
  <2>1. ASSUME NEW v \in Nat PROVE (\E x \in A : w[x] = v) <=> (\E x \in B : u[x] = v)
    <3> DEFINE W == Within(w, {v})
               U == Within(u, {v})
    <3>1. IsFiniteSet(W) /\ IsFiniteSet(U)
      BY FS_Subset DEF Within
    <3>2. Cardinality(W) = Cardinality(U)
      OBVIOUS
    <3>3. W = {} <=> U = {}
      <4> HIDE DEF W, U
      <4> QED BY <3>1, <3>2, FS_EmptySet
    <3> QED BY <3>3 DEF Within
  <2> QED BY <2>1
<1>4. \A v \in {w[x] : x \in A} :
        /\ Cardinality({x \in A : w[x] < v}) = Cardinality({x \in B : u[x] < v})
        /\ Cardinality({x \in A : w[x] <= v}) = Cardinality({x \in B : u[x] <= v})
  <2> TAKE v \in {w[x] : x \in A}
  <2> DEFINE Lt == {n \in Nat : n < v}
             Le == {n \in Nat : n <= v}
  <2>1. {x \in A : w[x] < v} = Within(w, Lt) /\ {x \in B : u[x] < v} = Within(u, Lt)
    BY DEF Within
  <2>2. {x \in A : w[x] <= v} = Within(w, Le) /\ {x \in B : u[x] <= v} = Within(u, Le)
    BY DEF Within
  <2>3. Lt \in SUBSET Nat /\ Le \in SUBSET Nat
    OBVIOUS
  <2> HIDE DEF Lt, Le
  <2> QED BY <2>1, <2>2, <2>3
<1> DEFINE C(f, D, v, i) == /\ Cardinality({x \in D : f[x] < v}) < i
                            /\ i <= Cardinality({x \in D : f[x] <= v})
<1>5. \A i \in 1..Cardinality(A) : \A v \in {w[x] : x \in A} : C(w, A, v, i) <=> C(u, B, v, i)
  BY <1>4
<1>6. sortByJSON(w) = [i \in 1..Cardinality(A) |-> CHOOSE v \in {w[x] : x \in A} : C(w, A, v, i)]
  BY <1>1 DEF sortByJSON
<1>7. sortByJSON(u) = [i \in 1..Cardinality(B) |-> CHOOSE v \in {u[x] : x \in B} : C(u, B, v, i)]
  BY <1>1 DEF sortByJSON
<1> HIDE DEF C
<1>8. \A i \in 1..Cardinality(A) :
        (CHOOSE v \in {w[x] : x \in A} : C(w, A, v, i)) = (CHOOSE v \in {u[x] : x \in B} : C(u, B, v, i))
  BY <1>3, <1>5
<1> QED BY <1>2, <1>6, <1>7, <1>8

\* A finite set of numbers has a bound: a least set without one has an element,
\* and has a bound without it.
LEMMA Bounded ==
  ASSUME NEW S, IsFiniteSet(S), S \subseteq Nat
  PROVE  \E b \in Nat : \A v \in S : v <= b
<1> DEFINE R == StrictSubsetOrdering(S)
           bounded(T) == \E b \in Nat : \A v \in T : v <= b
           B == {T \in FiniteSubsetsOf(S) : ~bounded(T)}
<1> SUFFICES ASSUME ~bounded(S) PROVE FALSE
  OBVIOUS
<1>1. IsWellFoundedOn(R, FiniteSubsetsOf(S))
  BY FS_StrictSubsetOrderingWellFounded
<1>2. S \in B
  BY DEF FiniteSubsetsOf
<1>3. \A T, U \in B : U \subseteq T /\ U # T => <<U, T>> \in R
  BY DEF StrictSubsetOrdering, FiniteSubsetsOf
<1> HIDE DEF R
<1>4. PICK T \in B : \A U \in B : ~(<<U, T>> \in R)
  <2>1. B \subseteq FiniteSubsetsOf(S)
    OBVIOUS
  <2> HIDE DEF B
  <2> QED BY <1>1, <1>2, <2>1, WFMin
<1>5. T \in SUBSET S /\ IsFiniteSet(T) /\ ~bounded(T)
  BY DEF FiniteSubsetsOf
<1>6. PICK v \in T : TRUE
  BY <1>5
<1>7. bounded(T \ {v})
  <2>1. T \ {v} \in FiniteSubsetsOf(S)
    BY <1>5, FS_Subset DEF FiniteSubsetsOf
  <2> HIDE DEF bounded
  <2> QED BY <1>3, <1>4, <1>6, <2>1
<1>8. PICK b \in Nat : \A u \in T \ {v} : u <= b
  BY <1>7
<1>9. b + v \in Nat /\ \A u \in T : u <= b + v
  BY <1>5, <1>6, <1>8
<1> QED BY <1>5, <1>9

\* The i-th value of the canonical order is one of the values, it has fewer
\* than i values below it, and i or more up to it.
LEMMA SortedValue ==
  ASSUME NEW A, IsFiniteSet(A), NEW w \in [A -> Nat], NEW i \in 1..Cardinality(A)
  PROVE  LET v == sortByJSON(w)[i]
         IN /\ v \in {w[x] : x \in A}
            /\ Cardinality({x \in A : w[x] < v}) < i
            /\ i <= Cardinality({x \in A : w[x] <= v})
<1> DEFINE below(v) == {x \in A : w[x] < v}
           upTo(v)  == {x \in A : w[x] <= v}
           T == {v \in Nat : i <= Cardinality(upTo(v))}
<1>1. i \in Nat /\ i > 0 /\ Cardinality(A) \in Nat
  BY FS_CardinalityType
<1>2. T # {}
  <2> DEFINE S == {w[x] : x \in A}
             g == [x \in A |-> w[x]]
  <2>1. IsFiniteSet(S) /\ S \subseteq Nat
    <3>1. g \in Surjection(A, S)
      BY DEF Surjection
    <3>2. S \subseteq Nat
      OBVIOUS
    <3> HIDE DEF S, g
    <3> QED BY <3>1, <3>2, FS_Surjection
  <2>2. PICK b \in Nat : \A v \in S : v <= b
    <3> HIDE DEF S
    <3> QED BY <2>1, Bounded
  <2>3. upTo(b) = A
    BY <2>2
  <2>4. Cardinality(upTo(b)) = Cardinality(A)
    BY <2>3, Zenon
  <2>5. i <= Cardinality(upTo(b))
    BY <1>1, <2>4
  <2>6. b \in T
    BY <2>2, <2>5
  <2> QED BY <2>6
<1>3. PICK v \in T : \A u \in T : v <= u
  <2>1. T \subseteq Nat
    OBVIOUS
  <2> HIDE DEF T
  <2> QED BY <1>2, <2>1, LeastNumber
<1>4. v \in Nat /\ i <= Cardinality(upTo(v))
  OBVIOUS
<1>5. Cardinality(below(v)) < i
  <2>1. CASE v = 0
    <3>1. below(v) = {}
      BY <2>1
    <3> HIDE DEF below
    <3> QED BY <1>1, <3>1, FS_EmptySet
  <2>2. CASE v # 0
    <3>1. v - 1 \in Nat /\ ~(v <= v - 1)
      BY <1>4, <2>2
    <3>2. below(v) = upTo(v - 1)
      BY <1>4
    <3>3. ~(i <= Cardinality(upTo(v - 1)))
      BY <1>3, <3>1
    <3>4. Cardinality(upTo(v - 1)) \in Nat
      BY FS_Subset, FS_CardinalityType
    <3>5. Cardinality(below(v)) = Cardinality(upTo(v - 1))
      BY <3>2, Zenon
    <3> HIDE DEF below, upTo
    <3> QED BY <1>1, <3>3, <3>4, <3>5
  <2> QED BY <2>1, <2>2
<1>6. v \in {w[x] : x \in A}
  <2> SUFFICES ASSUME v \notin {w[x] : x \in A} PROVE FALSE
    OBVIOUS
  <2>1. below(v) = upTo(v)
    BY <1>4
  <2>2. Cardinality(below(v)) = Cardinality(upTo(v)) /\ Cardinality(upTo(v)) \in Nat
    <3>1. Cardinality(below(v)) = Cardinality(upTo(v))
      BY <2>1, Zenon
    <3>2. Cardinality(upTo(v)) \in Nat
      BY FS_Subset, FS_CardinalityType
    <3> QED BY <3>1, <3>2
  <2> HIDE DEF below, upTo
  <2> QED BY <1>1, <1>4, <1>5, <2>2
<1> DEFINE C(u) == Cardinality(below(u)) < i /\ i <= Cardinality(upTo(u))
<1>7. sortByJSON(w)[i] = CHOOSE u \in {w[x] : x \in A} : C(u)
  BY DEF sortByJSON
<1>8. C(v)
  BY <1>4, <1>5
<1> HIDE DEF C
<1>9. sortByJSON(w)[i] \in {w[x] : x \in A} /\ C(sortByJSON(w)[i])
  BY <1>6, <1>7, <1>8
<1> QED BY <1>9 DEF C

LEMMA SortTyped ==
  ASSUME NEW A, IsFiniteSet(A), NEW w \in [A -> Nat]
  PROVE  DOMAIN sortByJSON(w) = 1..Cardinality(A) /\ sortByJSON(w) \in Seq(Nat)
<1>1. DOMAIN sortByJSON(w) = 1..Cardinality(A)
  BY DEF sortByJSON
<1>2. ASSUME NEW i \in 1..Cardinality(A) PROVE sortByJSON(w)[i] \in Nat
  <2>1. sortByJSON(w)[i] \in {w[x] : x \in A}
    BY SortedValue
  <2> QED BY <2>1
<1>3. Cardinality(A) \in Nat
  BY FS_CardinalityType
<1>4. sortByJSON(w) \in [1..Cardinality(A) -> Nat]
  <2> DEFINE D == 1..Cardinality(DOMAIN w)
             value(i) == CHOOSE v \in {w[x] : x \in DOMAIN w} :
                           /\ Cardinality({x \in DOMAIN w : w[x] < v}) < i
                           /\ i <= Cardinality({x \in DOMAIN w : w[x] <= v})
  <2>1. sortByJSON(w) = [i \in D |-> value(i)] /\ D = 1..Cardinality(A)
    BY DEF sortByJSON
  <2> HIDE DEF value, D
  <2> QED BY <1>2, <2>1
<1> QED BY <1>1, <1>3, <1>4

\* The canonical order is in ascending order and has every value as often as
\* what it orders: sort.SliceStable of canonical.go loses and adds nothing.
THEOREM CanonicalOrderSorts ==
  ASSUME NEW A, IsFiniteSet(A), NEW w \in [A -> Nat]
  PROVE  LET s == sortByJSON(w)
         IN /\ s \in Seq(Nat) /\ DOMAIN s = 1..Cardinality(A)
            /\ \A i, j \in DOMAIN s : i <= j => s[i] <= s[j]
            /\ \A v \in Nat : Cardinality({i \in DOMAIN s : s[i] = v}) = Cardinality({x \in A : w[x] = v})
<1> DEFINE s == sortByJSON(w)
           below(v) == {x \in A : w[x] < v}
           upTo(v)  == {x \in A : w[x] <= v}
           lo(v) == Cardinality(below(v))
           hi(v) == Cardinality(upTo(v))
           n == Cardinality(A)
<1>1. s \in Seq(Nat) /\ DOMAIN s = 1..n
  BY SortTyped
<1>2. \A v : lo(v) \in Nat /\ hi(v) \in Nat /\ hi(v) <= n
  <2> TAKE v
  <2>1. upTo(v) \subseteq A /\ below(v) \subseteq A
    OBVIOUS
  <2> HIDE DEF upTo, below
  <2>2. IsFiniteSet(upTo(v)) /\ IsFiniteSet(below(v)) /\ Cardinality(upTo(v)) <= n
    BY <2>1, FS_Subset
  <2> QED BY <2>2, FS_CardinalityType
<1>3. \A i \in 1..n : lo(s[i]) < i /\ i <= hi(s[i]) /\ s[i] \in Nat
  <2> TAKE i \in 1..n
  <2>1. s[i] \in Nat
    <3> HIDE DEF s, n
    <3>1. i \in DOMAIN s /\ s \in Seq(Nat)
      BY <1>1
    <3> QED BY <3>1
  <2> QED BY <2>1, SortedValue
<1>4. \A u, v \in Nat : u < v => hi(u) <= lo(v)
  <2> TAKE u, v \in Nat
  <2> HAVE u < v
  <2>1. upTo(u) \subseteq below(v)
    OBVIOUS
  <2>2. IsFiniteSet(below(v))
    BY FS_Subset
  <2> HIDE DEF upTo, below
  <2> QED BY <2>1, <2>2, FS_Subset
<1>5. n \in Nat
  BY FS_CardinalityType
<1> HIDE DEF s, lo, hi, n
<1>6. ASSUME NEW i \in 1..n, NEW j \in 1..n, i <= j
      PROVE  s[i] <= s[j]
  <2> SUFFICES ASSUME s[j] < s[i] PROVE FALSE
    BY <1>3
  <2>1. hi(s[j]) <= lo(s[i])
    BY <1>3, <1>4
  <2> QED BY <1>2, <1>3, <1>6, <2>1
<1>7. ASSUME NEW v \in Nat
      PROVE  Cardinality({i \in 1..n : s[i] = v}) = Cardinality({x \in A : w[x] = v})
  <2>1. {i \in 1..n : s[i] = v} = (lo(v) + 1)..hi(v)
    <3>1. ASSUME NEW i \in 1..n PROVE s[i] = v <=> lo(v) + 1 <= i /\ i <= hi(v)
      <4>1. CASE s[i] = v
        BY <1>2, <1>3, <4>1
      <4>2. CASE s[i] < v
        <5>1. hi(s[i]) <= lo(v)
          BY <1>3, <1>4, <4>2
        <5> QED BY <1>2, <1>3, <4>2, <5>1
      <4>3. CASE s[i] > v
        <5>1. hi(v) <= lo(s[i])
          BY <1>3, <1>4, <4>3
        <5> QED BY <1>2, <1>3, <4>3, <5>1
      <4> QED BY <1>3, <4>1, <4>2, <4>3
    <3>2. \A i \in (lo(v) + 1)..hi(v) : i \in 1..n
      BY <1>2, <1>5
    <3> QED BY <1>2, <1>5, <3>1, <3>2
  <2>2. hi(v) = lo(v) + Cardinality({x \in A : w[x] = v}) /\ Cardinality({x \in A : w[x] = v}) \in Nat
    <3> DEFINE equal == {x \in A : w[x] = v}
    <3>1. upTo(v) = below(v) \cup equal /\ below(v) \cap equal = {}
      OBVIOUS
    <3>2. IsFiniteSet(below(v)) /\ IsFiniteSet(equal)
      BY FS_Subset
    <3> HIDE DEF upTo, below, equal
    <3>3. Cardinality(below(v) \cup equal) = Cardinality(below(v)) + Cardinality(equal)
      <4>1. Cardinality(below(v) \cup equal) = Cardinality(below(v)) + Cardinality(equal) - Cardinality(below(v) \cap equal)
        BY <3>2, FS_Union
      <4>2. Cardinality(below(v) \cap equal) = 0
        BY <3>1, FS_EmptySet
      <4> QED BY <3>2, <4>1, <4>2, FS_CardinalityType
    <3>4. Cardinality(upTo(v)) = Cardinality(below(v) \cup equal)
      BY <3>1, Zenon
    <3> QED BY <3>2, <3>3, <3>4, FS_CardinalityType DEF hi, lo, equal
  <2>3. Cardinality((lo(v) + 1)..hi(v)) = hi(v) - lo(v)
    <3>1. lo(v) + 1 \in Int /\ hi(v) \in Int /\ lo(v) \in Nat /\ hi(v) >= lo(v)
      BY <1>2, <2>2
    <3>2. Cardinality((lo(v) + 1)..hi(v)) = IF lo(v) + 1 > hi(v) THEN 0 ELSE hi(v) - (lo(v) + 1) + 1
      BY <3>1, FS_Interval
    <3> QED BY <3>1, <3>2
  <2>4. Cardinality({i \in 1..n : s[i] = v}) = Cardinality((lo(v) + 1)..hi(v))
    BY <2>1, Zenon
  <2> QED BY <1>2, <2>2, <2>3, <2>4
<1> QED BY <1>1, <1>6, <1>7 DEF s, n

\* What is captured of f when the places in O are still owed.
Counted(c, f, O) ==
  \A V \in SUBSET Nat :
    Cardinality(Within(c, V)) + Cardinality(Within(f, V) \cap O) = Cardinality(Within(f, V))

LEMMA MoveCounts ==
  ASSUME NEW X, IsFiniteSet(X), NEW N, IsFiniteSet(N), X \cap N = {},
         NEW Y, IsFiniteSet(Y), NEW R \in SUBSET Y, Cardinality(N) = Cardinality(R)
  PROVE  Cardinality(X \cup N) + Cardinality(Y \ R) = Cardinality(X) + Cardinality(Y)
<1>1. Cardinality(X \cup N) = Cardinality(X) + Cardinality(N) - Cardinality(X \cap N)
  BY FS_Union
<1>2. Cardinality(X \cap N) = 0
  BY FS_EmptySet
<1>3. Y \cap R = R
  OBVIOUS
<1>4. Cardinality(Y \ R) = Cardinality(Y) - Cardinality(R)
  <2>1. Cardinality(Y \ R) = Cardinality(Y) - Cardinality(Y \cap R)
    BY FS_Difference
  <2>2. Cardinality(Y \cap R) = Cardinality(R)
    BY <1>3, Zenon
  <2> QED BY <2>1, <2>2
<1>5. IsFiniteSet(R)
  BY FS_Subset
<1>6. Cardinality(X) \in Nat /\ Cardinality(Y) \in Nat /\ Cardinality(N) \in Nat /\ Cardinality(R) \in Nat
  BY <1>5, FS_CardinalityType
<1> QED BY <1>1, <1>2, <1>4, <1>6

LEMMA SequencesFinite ==
  ASSUME NEW S, NEW s \in Seq(S)
  PROVE  IsFiniteSet(DOMAIN s) /\ s \in [DOMAIN s -> S] /\ DOMAIN s = 1..Len(s)
<1>1. DOMAIN s = 1..Len(s) /\ Len(s) \in Nat /\ s \in [DOMAIN s -> S]
  OBVIOUS
<1>2. IsFiniteSet(1..Len(s))
  <2>1. 1 \in Int /\ Len(s) \in Int
    BY <1>1
  <2> HIDE <1>1
  <2> QED BY <2>1, FS_Interval
<1> QED BY <1>1, <1>2

\* One log record, or one span, is exported.
LEMMA AppendCounts ==
  ASSUME NEW c \in Seq(Nat), NEW f \in Seq(Nat), NEW O, Counted(c, f, O),
         NEW i \in DOMAIN f, i \in O
  PROVE  Counted(Append(c, f[i]), f, O \ {i})
<1> SUFFICES ASSUME NEW V \in SUBSET Nat
             PROVE  Cardinality(Within(Append(c, f[i]), V)) + Cardinality(Within(f, V) \cap (O \ {i}))
                      = Cardinality(Within(f, V))
  BY DEF Counted
<1> DEFINE X == Within(c, V)
           Y == Within(f, V) \cap O
           N == IF f[i] \in V THEN {Len(c) + 1} ELSE {}
           R == IF f[i] \in V THEN {i} ELSE {}
<1>1. IsFiniteSet(DOMAIN c) /\ IsFiniteSet(DOMAIN f)
  BY SequencesFinite
<1>2. IsFiniteSet(X) /\ IsFiniteSet(Y)
  BY <1>1, FS_Subset DEF Within
<1>3. IsFiniteSet(N) /\ Cardinality(N) = Cardinality(R)
  BY FS_Singleton, FS_EmptySet
<1>4. X \cap N = {} /\ R \in SUBSET Y
  BY DEF Within
<1>5. Within(Append(c, f[i]), V) = X \cup N
  <2>1. f[i] \in Nat
    OBVIOUS
  <2> DEFINE d == Append(c, f[i])
  <2>2. DOMAIN d = DOMAIN c \cup {Len(c) + 1} /\ d[Len(c) + 1] = f[i] /\ \A j \in DOMAIN c : d[j] = c[j]
    BY <2>1
  <2> HIDE DEF d
  <2>3. Within(d, V) = X \cup N
    BY <2>2 DEF Within
  <2> QED BY <2>3 DEF d
<1>6. Within(f, V) \cap (O \ {i}) = Y \ R
  BY DEF Within
<1>7. Cardinality(X) + Cardinality(Y) = Cardinality(Within(f, V))
  BY DEF Counted
<1> HIDE DEF X, Y, N, R
<1>8. Cardinality(X \cup N) + Cardinality(Y \ R) = Cardinality(X) + Cardinality(Y)
  BY <1>2, <1>3, <1>4, MoveCounts
<1>9. /\ Cardinality(Within(Append(c, f[i]), V)) = Cardinality(X \cup N)
      /\ Cardinality(Within(f, V) \cap (O \ {i})) = Cardinality(Y \ R)
  BY <1>5, <1>6, Zenon
<1> QED BY <1>7, <1>8, <1>9

LEMMA SameCount ==
  ASSUME NEW c, NEW f, NEW O, Counted(c, f, O), Within(f, Nat) \cap O = {}, NEW V \in SUBSET Nat,
         IsFiniteSet(DOMAIN c)
  PROVE  Cardinality(Within(c, V)) = Cardinality(Within(f, V))
<1>1. Within(f, V) \cap O = {}
  BY DEF Within
<1>2. Cardinality(Within(f, V) \cap O) = 0
  BY <1>1, FS_EmptySet
<1>3. Cardinality(Within(c, V)) \in Nat
  BY FS_Subset, FS_CardinalityType DEF Within
<1> QED BY <1>2, <1>3 DEF Counted

\* Once nothing of f is owed any more, the canonical orders agree.
LEMMA CountedSorts ==
  ASSUME NEW A, IsFiniteSet(A), NEW c \in [A -> Nat],
         NEW B, IsFiniteSet(B), NEW f \in [B -> Nat],
         NEW O, Counted(c, f, O), B \cap O = {}
  PROVE  sortByJSON(c) = sortByJSON(f)
<1>1. Within(f, Nat) \cap O = {} /\ DOMAIN c = A
  BY DEF Within
<1>2. \A V \in SUBSET Nat : Cardinality(Within(c, V)) = Cardinality(Within(f, V))
  BY <1>1, SameCount
<1> QED BY <1>2, SortOfCounts

Metrics == Seq([key : Nat, points : Seq(Nat)])

LEMMA MetricTyped ==
  ASSUME NEW ms \in Metrics, NEW j \in DOMAIN ms
  PROVE  j \in Nat /\ ms[j].key \in Nat /\ ms[j].points \in Seq(Nat)
<1> DEFINE T == [key : Nat, points : Seq(Nat)]
<1>1. ms \in Seq(T)
  BY DEF Metrics
<1> HIDE DEF T
<1>2. ms[j] \in T /\ j \in Nat
  BY <1>1
<1> QED BY <1>2 DEF T

places(metrics, key) == DOMAIN grouped(metrics, key)

LEMMA GroupedTyped ==
  ASSUME NEW ms \in Metrics, NEW key
  PROVE  /\ places(ms, key) = {x \in Nat \X Nat : x[1] \in DOMAIN ms /\ ms[x[1]].key = key
                                                   /\ x[2] \in DOMAIN ms[x[1]].points}
         /\ IsFiniteSet(places(ms, key))
         /\ grouped(ms, key) \in [places(ms, key) -> Nat]
         /\ \A x \in places(ms, key) : grouped(ms, key)[x] = ms[x[1]].points[x[2]]
<1> DEFINE F == fragments(ms, key)
           row == [j \in F |-> {<<j, i>> : i \in DOMAIN ms[j].points}]
           Rows == {row[j] : j \in F}
<1>1. \A j \in DOMAIN ms : ms[j].points \in Seq(Nat) /\ j \in Nat
  BY MetricTyped
<1>2. F \in SUBSET (DOMAIN ms)
  BY DEF fragments
<1>3. places(ms, key) = UNION Rows
  BY DEF places, grouped
<1>4. IsFiniteSet(Rows)
  <2>1. IsFiniteSet(DOMAIN ms)
    BY SequencesFinite DEF Metrics
  <2>2. IsFiniteSet(F)
    BY <1>2, <2>1, FS_Subset
  <2>3. row \in Surjection(F, Rows)
    BY DEF Surjection
  <2> HIDE DEF F, row, Rows
  <2> QED BY <2>2, <2>3, FS_Surjection
<1>5. \A j \in F : IsFiniteSet(row[j])
  <2> TAKE j \in F
  <2>1. ms[j].points \in Seq(Nat)
    BY <1>1, <1>2
  <2>2. IsFiniteSet(DOMAIN ms[j].points)
    BY <2>1, SequencesFinite
  <2>3. IsFiniteSet({j})
    BY FS_Singleton, Zenon
  <2>4. IsFiniteSet({j} \X DOMAIN ms[j].points)
    BY <2>2, <2>3, FS_Product
  <2>5. row[j] = {j} \X DOMAIN ms[j].points
    OBVIOUS
  <2> QED BY <2>4, <2>5, Zenon
<1>6. IsFiniteSet(UNION Rows)
  <2>1. \A T \in Rows : IsFiniteSet(T)
    BY <1>5
  <2> HIDE DEF Rows
  <2> QED BY <1>4, <2>1, FS_UNION
<1>7. places(ms, key) = {x \in Nat \X Nat : x[1] \in DOMAIN ms /\ ms[x[1]].key = key
                                            /\ x[2] \in DOMAIN ms[x[1]].points}
  <2>1. \A j \in F : \A i \in DOMAIN ms[j].points : i \in Nat /\ j \in Nat
    BY <1>1, <1>2
  <2>2. \A x : x \in places(ms, key) <=> \E j \in F : \E i \in DOMAIN ms[j].points : x = <<j, i>>
    BY <1>3
  <2>3. \A j : j \in F <=> j \in DOMAIN ms /\ ms[j].key = key
    BY DEF fragments
  <2> HIDE DEF F, Rows, row
  <2>4. ASSUME NEW x \in places(ms, key)
        PROVE  /\ x \in Nat \X Nat /\ x[1] \in DOMAIN ms /\ ms[x[1]].key = key
               /\ x[2] \in DOMAIN ms[x[1]].points
    <3>1. PICK j \in F : \E i \in DOMAIN ms[j].points : x = <<j, i>>
      BY <2>2
    <3>2. PICK i \in DOMAIN ms[j].points : x = <<j, i>>
      BY <3>1
    <3>3. x[1] = j /\ x[2] = i
      BY <3>2
    <3> QED BY <2>1, <2>3, <3>2, <3>3
  <2>5. ASSUME NEW x \in Nat \X Nat, x[1] \in DOMAIN ms, ms[x[1]].key = key,
               x[2] \in DOMAIN ms[x[1]].points
        PROVE  x \in places(ms, key)
    <3>1. x = <<x[1], x[2]>>
      OBVIOUS
    <3> QED BY <2>2, <2>3, <2>5, <3>1
  <2> QED BY <2>4, <2>5
<1>8. \A x \in places(ms, key) : grouped(ms, key)[x] = ms[x[1]].points[x[2]] /\ ms[x[1]].points[x[2]] \in Nat
  BY <1>1, <1>7 DEF grouped, places
<1>9. grouped(ms, key) \in [places(ms, key) -> Nat]
  <2>1. grouped(ms, key) = [x \in places(ms, key) |-> grouped(ms, key)[x]]
    BY DEF grouped, places
  <2> QED BY <1>8, <2>1
<1> QED BY <1>3, <1>6, <1>7, <1>8, <1>9, Zenon

LEMMA ArrangementsOnto ==
  ASSUME NEW P, IsFiniteSet(P), NEW order \in Arrangements(P)
  PROVE  /\ order \in [1..Cardinality(P) -> P] /\ DOMAIN order = 1..Cardinality(P)
         /\ Cardinality(P) \in Nat
         /\ \A i, j \in DOMAIN order : order[i] = order[j] => i = j
         /\ \A x \in P : \E k \in DOMAIN order : order[k] = x
<1> DEFINE n == Cardinality(P)
<1>1. n \in Nat
  BY FS_CardinalityType
<1> HIDE DEF n
<1>2. IsFiniteSet(1..n) /\ Cardinality(1..n) = n
  <2>1. 1 \in Int /\ n \in Int
    BY <1>1
  <2>2. IsFiniteSet(1..n) /\ Cardinality(1..n) = IF 1 > n THEN 0 ELSE n - 1 + 1
    BY <2>1, FS_Interval
  <2> QED BY <1>1, <2>2
<1>3. order \in [1..n -> P] /\ \A i, j \in DOMAIN order : order[i] = order[j] => i = j
  BY DEF Arrangements, n
<1>4. order \in Injection(1..n, P)
  BY <1>3 DEF Injection, IsInjective
<1>5. Cardinality(1..n) = Cardinality(P)
  BY <1>2 DEF n
<1>6. order \in Surjection(1..n, P)
  BY <1>4, <1>5, FS_Injection
<1> QED BY <1>1, <1>3, <1>6 DEF Surjection, n

\* Some datapoints of metric m are exported, in any order.
LEMMA FragmentCounts ==
  ASSUME NEW ms \in Metrics, NEW fs \in Metrics, NEW m \in DOMAIN fs,
         NEW P \in SUBSET (DOMAIN fs[m].points), NEW order \in Arrangements(P),
         NEW frag, frag = [key |-> fs[m].key, points |-> [k \in DOMAIN order |-> fs[m].points[order[k]]]],
         NEW key, NEW O, Counted(grouped(ms, key), grouped(fs, key), O),
         \A i \in P : <<m, i>> \in O,
         NEW Q, \A x \in places(fs, key) : x \in Q <=> x \in O /\ ~(x[1] = m /\ x[2] \in P)
  PROVE  /\ Append(ms, frag) \in Metrics
         /\ Counted(grouped(Append(ms, frag), key), grouped(fs, key), Q)
<1> DEFINE d == Append(ms, frag)
           n == Len(ms) + 1
<1>1. fs[m].points \in Seq(Nat) /\ fs[m].key \in Nat /\ m \in Nat
  BY MetricTyped
<1>2. IsFiniteSet(P)
  BY <1>1, SequencesFinite, FS_Subset
<1>3. /\ DOMAIN order = 1..Cardinality(P) /\ Cardinality(P) \in Nat
      /\ \A k \in DOMAIN order : order[k] \in P
      /\ \A i, j \in DOMAIN order : order[i] = order[j] => i = j
      /\ \A x \in P : \E k \in DOMAIN order : order[k] = x
  BY <1>2, ArrangementsOnto
<1>4. /\ frag.key = fs[m].key /\ DOMAIN frag.points = DOMAIN order
      /\ \A k \in DOMAIN order : frag.points[k] = fs[m].points[order[k]] /\ frag.points[k] \in Nat
  <2>1. \A k \in DOMAIN order : fs[m].points[order[k]] \in Nat
    BY <1>1, <1>3
  <2> QED BY <2>1
<1>5. frag.points \in Seq(Nat)
  <2>1. frag.points = [k \in 1..Cardinality(P) |-> fs[m].points[order[k]]]
    BY <1>3
  <2>2. \A k \in 1..Cardinality(P) : fs[m].points[order[k]] \in Nat
    BY <1>1, <1>3
  <2> QED BY <1>3, <2>1, <2>2
<1> DEFINE T == [key : Nat, points : Seq(Nat)]
<1>6. frag \in T
  <2>1. frag = [key |-> frag.key, points |-> frag.points]
    OBVIOUS
  <2> QED BY <1>1, <1>4, <1>5, <2>1
<1>7. /\ d \in Metrics /\ DOMAIN d = DOMAIN ms \cup {n} /\ n \notin DOMAIN ms /\ n \in Nat
      /\ d[n] = frag /\ \A j \in DOMAIN ms : d[j] = ms[j]
  <2>1. ms \in Seq(T)
    BY DEF Metrics
  <2> HIDE DEF T
  <2>2. /\ d \in Seq(T) /\ DOMAIN d = DOMAIN ms \cup {n} /\ n \notin DOMAIN ms /\ n \in Nat
        /\ d[n] = frag /\ \A j \in DOMAIN ms : d[j] = ms[j]
    BY <1>6, <2>1
  <2> QED BY <2>2 DEF Metrics, T
<1> HIDE DEF d, n
<1> DEFINE c == grouped(ms, key)
           e == grouped(d, key)
           f == grouped(fs, key)
<1>8. /\ DOMAIN c = {x \in Nat \X Nat : x[1] \in DOMAIN ms /\ ms[x[1]].key = key /\ x[2] \in DOMAIN ms[x[1]].points}
      /\ DOMAIN e = {x \in Nat \X Nat : x[1] \in DOMAIN d /\ d[x[1]].key = key /\ x[2] \in DOMAIN d[x[1]].points}
      /\ DOMAIN f = {x \in Nat \X Nat : x[1] \in DOMAIN fs /\ fs[x[1]].key = key /\ x[2] \in DOMAIN fs[x[1]].points}
  <2>1. DOMAIN c = places(ms, key) /\ DOMAIN e = places(d, key) /\ DOMAIN f = places(fs, key)
    BY DEF places
  <2>2. d \in Metrics
    BY <1>7
  <2> HIDE DEF c, e, f
  <2>3. places(ms, key) = {x \in Nat \X Nat : x[1] \in DOMAIN ms /\ ms[x[1]].key = key /\ x[2] \in DOMAIN ms[x[1]].points}
    BY GroupedTyped, Zenon
  <2>4. places(d, key) = {x \in Nat \X Nat : x[1] \in DOMAIN d /\ d[x[1]].key = key /\ x[2] \in DOMAIN d[x[1]].points}
    BY <2>2, GroupedTyped, Zenon
  <2>5. places(fs, key) = {x \in Nat \X Nat : x[1] \in DOMAIN fs /\ fs[x[1]].key = key /\ x[2] \in DOMAIN fs[x[1]].points}
    BY GroupedTyped, Zenon
  <2> QED BY <2>1, <2>3, <2>4, <2>5, Zenon
<1>9. /\ \A x \in DOMAIN c : c[x] = ms[x[1]].points[x[2]]
      /\ \A x \in DOMAIN e : e[x] = d[x[1]].points[x[2]]
      /\ \A x \in DOMAIN f : f[x] = fs[x[1]].points[x[2]]
  <2>1. \A x \in DOMAIN c : c[x] = ms[x[1]].points[x[2]]
    BY GroupedTyped, Zenon DEF places
  <2>2. \A x \in DOMAIN e : e[x] = d[x[1]].points[x[2]]
    <3>1. d \in Metrics
      BY <1>7
    <3> QED BY <3>1, GroupedTyped, Zenon DEF places
  <2>3. \A x \in DOMAIN f : f[x] = fs[x[1]].points[x[2]]
    BY GroupedTyped, Zenon DEF places
  <2> QED BY <2>1, <2>2, <2>3
<1>10. IsFiniteSet(DOMAIN c) /\ IsFiniteSet(DOMAIN f)
  BY GroupedTyped DEF places
<1>11. \A x \in DOMAIN f : x \in Q <=> x \in O /\ ~(x[1] = m /\ x[2] \in P)
  BY DEF places
<1>12. \A V \in SUBSET Nat : Cardinality(Within(c, V)) + Cardinality(Within(f, V) \cap O) = Cardinality(Within(f, V))
  BY DEF Counted
<1> HIDE DEF c, e, f
<1>13. SUFFICES ASSUME NEW V \in SUBSET Nat
                PROVE  Cardinality(Within(e, V)) + Cardinality(Within(f, V) \cap Q) = Cardinality(Within(f, V))
  BY <1>7 DEF Counted, d, e, f
<1>14. CASE key # frag.key
  <2>1. \A x : x \in DOMAIN e <=> x \in DOMAIN c
    BY <1>7, <1>8, <1>14
  <2>2. \A x \in DOMAIN c : e[x] = c[x]
    BY <1>7, <1>8, <1>9, <2>1
  <2>3. Within(e, V) = Within(c, V)
    BY <2>1, <2>2 DEF Within
  <2>4. \A x \in DOMAIN f : x[1] # m
    BY <1>4, <1>8, <1>14
  <2>5. Within(f, V) \cap Q = Within(f, V) \cap O
    BY <1>11, <2>4 DEF Within
  <2> QED BY <1>12, <2>3, <2>5
<1>15. CASE key = frag.key
  <2> DEFINE X == Within(c, V)
             Y == Within(f, V) \cap O
             K == {k \in DOMAIN order : frag.points[k] \in V}
             N == {<<n, k>> : k \in K}
             R == {<<m, order[k]>> : k \in K}
  <2>1. IsFiniteSet(X) /\ IsFiniteSet(Y)
    BY <1>10, FS_Subset DEF Within
  <2>2. IsFiniteSet(N) /\ Cardinality(N) = Cardinality(R)
    <3>1. IsFiniteSet(K)
      <4>1. IsFiniteSet(DOMAIN order)
        <5>1. 1 \in Int /\ Cardinality(P) \in Int
          BY <1>3
        <5>2. IsFiniteSet(1..Cardinality(P))
          BY <5>1, FS_Interval
        <5> QED BY <1>3, <5>2
      <4> QED BY <4>1, FS_Subset
    <3> DEFINE g == [k \in K |-> <<n, k>>]
               h == [k \in K |-> <<m, order[k]>>]
    <3>2. g \in Bijection(K, N)
      BY DEF Bijection, Injection, Surjection, IsInjective
    <3>3. h \in Bijection(K, R)
      <4>1. h \in [K -> R]
        OBVIOUS
      <4>2. \A i, j \in K : h[i] = h[j] => i = j
        <5> TAKE i, j \in K
        <5>1. h[i] = <<m, order[i]>> /\ h[j] = <<m, order[j]>>
          OBVIOUS
        <5>2. h[i] = h[j] => order[i] = order[j]
          <6> HIDE DEF h
          <6> QED BY <5>1
        <5> QED BY <1>3, <5>2
      <4>3. \A r \in R : \E k \in K : h[k] = r
        OBVIOUS
      <4> HIDE DEF h, R, K
      <4> QED BY <4>1, <4>2, <4>3 DEF Bijection, Injection, Surjection, IsInjective
    <3>4. ExistsBijection(K, N) /\ ExistsBijection(K, R)
      BY <3>2, <3>3 DEF ExistsBijection
    <3> HIDE DEF K, N, R
    <3> QED BY <3>1, <3>4, FS_Bijection
  <2>3. X \cap N = {}
    BY <1>7, <1>8 DEF Within
  <2>4. R \in SUBSET Y
    <3> SUFFICES ASSUME NEW k \in K PROVE <<m, order[k]>> \in Y
      OBVIOUS
    <3> DEFINE x == <<m, order[k]>>
    <3>1. order[k] \in P /\ x \in O /\ x[1] = m /\ x[2] = order[k]
      BY <1>3
    <3>2. x \in DOMAIN f
      BY <1>1, <1>4, <1>8, <1>15, <3>1
    <3>3. f[x] \in V
      BY <1>4, <1>9, <3>1, <3>2
    <3> QED BY <3>1, <3>2, <3>3 DEF Within
  <2>5. Within(e, V) = X \cup N
    <3>1. \A x \in X \cup N : x \in Within(e, V)
      <4>1. ASSUME NEW x \in X PROVE x \in Within(e, V)
        <5>1. x \in DOMAIN c /\ c[x] \in V
          BY DEF Within
        <5>2. x \in DOMAIN e /\ e[x] = c[x]
          BY <1>7, <1>8, <1>9, <5>1
        <5> QED BY <5>1, <5>2 DEF Within
      <4>2. ASSUME NEW k \in K PROVE <<n, k>> \in Within(e, V)
        <5>1. k \in Nat
          BY <1>3
        <5>2. <<n, k>> \in DOMAIN e
          BY <1>4, <1>7, <1>8, <1>15, <5>1
        <5>3. e[<<n, k>>] = frag.points[k]
          BY <1>7, <1>9, <5>2
        <5> QED BY <5>2, <5>3 DEF Within
      <4> QED BY <4>1, <4>2
    <3>2. \A x \in Within(e, V) : x \in X \cup N
      <4> TAKE x \in Within(e, V)
      <4>1. x \in DOMAIN e /\ e[x] \in V /\ x \in Nat \X Nat /\ x = <<x[1], x[2]>>
        BY <1>8 DEF Within
      <4>2. CASE x[1] = n
        <5>1. x[2] \in DOMAIN order /\ e[x] = frag.points[x[2]]
          BY <1>4, <1>7, <1>8, <1>9, <4>1, <4>2
        <5> QED BY <4>1, <4>2, <5>1
      <4>3. CASE x[1] # n
        <5>1. x \in DOMAIN c /\ c[x] = e[x]
          BY <1>7, <1>8, <1>9, <4>1, <4>3
        <5> QED BY <4>1, <5>1 DEF Within
      <4> QED BY <4>2, <4>3
    <3> QED BY <3>1, <3>2
  <2>6. Within(f, V) \cap Q = Y \ R
    <3>1. ASSUME NEW x \in Y PROVE (x[1] = m /\ x[2] \in P) <=> x \in R
      <4>1. x \in DOMAIN f /\ f[x] \in V /\ x \in Nat \X Nat /\ x = <<x[1], x[2]>>
        BY <1>8 DEF Within
      <4>2. ASSUME x[1] = m, x[2] \in P PROVE x \in R
        <5>1. PICK k \in DOMAIN order : order[k] = x[2]
          BY <1>3, <4>2
        <5>2. frag.points[k] = f[x]
          BY <1>4, <1>9, <4>1, <4>2, <5>1
        <5> QED BY <4>1, <4>2, <5>1, <5>2
      <4>3. ASSUME x \in R PROVE x[1] = m /\ x[2] \in P
        BY <1>3, <4>3
      <4> QED BY <4>2, <4>3
    <3>2. \A x \in Within(f, V) : x \in Q <=> x \in O /\ ~(x[1] = m /\ x[2] \in P)
      BY <1>11 DEF Within
    <3> QED BY <2>4, <3>1, <3>2
  <2>7. Cardinality(X) + Cardinality(Y) = Cardinality(Within(f, V))
    BY <1>12
  <2> HIDE DEF X, Y, K, N, R
  <2>8. Cardinality(X \cup N) + Cardinality(Y \ R) = Cardinality(X) + Cardinality(Y)
    BY <2>1, <2>2, <2>3, <2>4, MoveCounts
  <2>9. /\ Cardinality(Within(e, V)) = Cardinality(X \cup N)
        /\ Cardinality(Within(f, V) \cap Q) = Cardinality(Y \ R)
    BY <2>5, <2>6, Zenon
  <2> QED BY <2>7, <2>8, <2>9
<1> QED BY <1>14, <1>15

-----------------------------------------------------------------------------
(* The invariant of the exports: what was captured is, in every number of   *)
(* occurrences that a canonical order can depend on, the fixture without   *)
(* what is still owed.                                                     *)

owedPlaces(signal) == {i \in Nat : <<signal, i, 0>> \in owed}
owedDatapoints     == {x \in Nat \X Nat : <<"metrics", x[1], x[2]>> \in owed}
owedKeys           == {fixture.metrics[x[2]].key : x \in {y \in owed : y[1] = "metrics"}}

CaptureInv ==
  /\ captured.logs \in Seq(Nat) /\ captured.spans \in Seq(Nat) /\ captured.metrics \in Metrics
  /\ captured = [logs |-> captured.logs, spans |-> captured.spans, metrics |-> captured.metrics]
  /\ owed \subseteq Items(fixture)
  /\ Counted(captured.logs, fixture.logs, owedPlaces("logs"))
  /\ Counted(captured.spans, fixture.spans, owedPlaces("traces"))
  /\ \A key \in Nat : Counted(grouped(captured.metrics, key), grouped(fixture.metrics, key), owedDatapoints)
  /\ metricKeys(captured.metrics) \cup owedKeys = metricKeys(fixture.metrics)

LEMMA FixtureTyped ==
  ASSUME IsFixture(fixture)
  PROVE  /\ fixture.logs \in Seq(Nat) /\ fixture.spans \in Seq(Nat) /\ fixture.metrics \in Metrics
BY DEF IsFixture, Metrics

LEMMA ItemsAre ==
  /\ \A i : <<"logs", i, 0>> \in Items(fixture) <=> i \in DOMAIN fixture.logs
  /\ \A i : <<"traces", i, 0>> \in Items(fixture) <=> i \in DOMAIN fixture.spans
  /\ \A m, i : <<"metrics", m, i>> \in Items(fixture)
                 <=> m \in DOMAIN fixture.metrics /\ i \in pieces(fixture.metrics[m])
  /\ \A y \in Items(fixture) : y[1] = "metrics" =>
       /\ y = <<"metrics", y[2], y[3]>>
       /\ y[2] \in DOMAIN fixture.metrics /\ y[3] \in pieces(fixture.metrics[y[2]])
<1> DEFINE L == {<<"logs", i, 0>> : i \in DOMAIN fixture.logs}
           T == {<<"traces", i, 0>> : i \in DOMAIN fixture.spans}
           P(m) == {<<"metrics", m, i>> : i \in pieces(fixture.metrics[m])}
           M == UNION {P(m) : m \in DOMAIN fixture.metrics}
<1>1. Items(fixture) = (L \cup T) \cup M
  BY DEF Items
<1>2. \A y \in L : \E i \in DOMAIN fixture.logs : y = <<"logs", i, 0>>
  OBVIOUS
<1>3. \A y \in T : \E i \in DOMAIN fixture.spans : y = <<"traces", i, 0>>
  OBVIOUS
<1>4. \A y \in M : \E m \in DOMAIN fixture.metrics : \E i \in pieces(fixture.metrics[m]) : y = <<"metrics", m, i>>
  OBVIOUS
<1>5. /\ \A i \in DOMAIN fixture.logs : <<"logs", i, 0>> \in L
      /\ \A i \in DOMAIN fixture.spans : <<"traces", i, 0>> \in T
      /\ \A m \in DOMAIN fixture.metrics : \A i \in pieces(fixture.metrics[m]) : <<"metrics", m, i>> \in M
  OBVIOUS
<1> HIDE DEF L, T, M
<1>6. ASSUME NEW i PROVE <<"logs", i, 0>> \in Items(fixture) <=> i \in DOMAIN fixture.logs
  BY <1>1, <1>2, <1>3, <1>4, <1>5
<1>7. ASSUME NEW i PROVE <<"traces", i, 0>> \in Items(fixture) <=> i \in DOMAIN fixture.spans
  BY <1>1, <1>2, <1>3, <1>4, <1>5
<1>8. ASSUME NEW m, NEW i
      PROVE <<"metrics", m, i>> \in Items(fixture)
              <=> m \in DOMAIN fixture.metrics /\ i \in pieces(fixture.metrics[m])
  BY <1>1, <1>2, <1>3, <1>4, <1>5
<1>9. ASSUME NEW y \in Items(fixture), y[1] = "metrics"
      PROVE /\ y = <<"metrics", y[2], y[3]>>
            /\ y[2] \in DOMAIN fixture.metrics /\ y[3] \in pieces(fixture.metrics[y[2]])
  BY <1>1, <1>2, <1>3, <1>4, <1>9
<1> QED BY <1>6, <1>7, <1>8, <1>9

LEMMA NothingCaptured ==
  ASSUME NEW c, DOMAIN c = {}, NEW f, IsFiniteSet(DOMAIN f), NEW O, DOMAIN f \subseteq O
  PROVE  Counted(c, f, O)
<1> SUFFICES ASSUME NEW V \in SUBSET Nat
             PROVE  Cardinality(Within(c, V)) + Cardinality(Within(f, V) \cap O) = Cardinality(Within(f, V))
  BY DEF Counted
<1>1. Within(c, V) = {} /\ Within(f, V) \cap O = Within(f, V)
  BY DEF Within
<1>2. Cardinality(Within(c, V)) = 0
  BY <1>1, FS_EmptySet
<1>3. Cardinality(Within(f, V) \cap O) = Cardinality(Within(f, V))
  BY <1>1, Zenon
<1>4. Cardinality(Within(f, V)) \in Nat
  BY FS_Subset, FS_CardinalityType DEF Within
<1> QED BY <1>2, <1>3, <1>4

LEMMA CaptureStart ==
  ASSUME InputInv, InitCapture
  PROVE  CaptureInv
<1>1. /\ captured.logs = <<>> /\ captured.spans = <<>> /\ captured.metrics = <<>>
      /\ captured = [logs |-> <<>>, spans |-> <<>>, metrics |-> <<>>] /\ owed = Items(fixture)
  BY DEF InitCapture
<1>2. fixture.logs \in Seq(Nat) /\ fixture.spans \in Seq(Nat) /\ fixture.metrics \in Metrics
  BY FixtureTyped DEF InputInv
<1>3. captured.logs \in Seq(Nat) /\ captured.spans \in Seq(Nat) /\ captured.metrics \in Metrics
  BY <1>1 DEF Metrics
<1>4. Counted(captured.logs, fixture.logs, owedPlaces("logs"))
  <2>1. IsFiniteSet(DOMAIN fixture.logs) /\ DOMAIN fixture.logs \subseteq Nat
    BY <1>2, SequencesFinite
  <2>2. DOMAIN fixture.logs \subseteq owedPlaces("logs")
    BY <1>1, <2>1, ItemsAre DEF owedPlaces
  <2> QED BY <1>1, <2>1, <2>2, NothingCaptured
<1>5. Counted(captured.spans, fixture.spans, owedPlaces("traces"))
  <2>1. IsFiniteSet(DOMAIN fixture.spans) /\ DOMAIN fixture.spans \subseteq Nat
    BY <1>2, SequencesFinite
  <2>2. DOMAIN fixture.spans \subseteq owedPlaces("traces")
    BY <1>1, <2>1, ItemsAre DEF owedPlaces
  <2> QED BY <1>1, <2>1, <2>2, NothingCaptured
<1>6. ASSUME NEW key \in Nat
      PROVE  Counted(grouped(captured.metrics, key), grouped(fixture.metrics, key), owedDatapoints)
  <2>1. DOMAIN grouped(captured.metrics, key) = {}
    BY <1>1 DEF grouped, fragments
  <2>2. IsFiniteSet(places(fixture.metrics, key))
    BY <1>2, GroupedTyped
  <2>3. places(fixture.metrics, key) =
          {x \in Nat \X Nat : x[1] \in DOMAIN fixture.metrics /\ fixture.metrics[x[1]].key = key
                               /\ x[2] \in DOMAIN fixture.metrics[x[1]].points}
    BY <1>2, GroupedTyped, Zenon
  <2>4. ASSUME NEW x \in places(fixture.metrics, key) PROVE x \in owedDatapoints
    <3>1. x \in Nat \X Nat /\ x[1] \in DOMAIN fixture.metrics /\ x[2] \in DOMAIN fixture.metrics[x[1]].points
      BY <2>3
    <3>2. x[2] \in pieces(fixture.metrics[x[1]])
      BY <3>1 DEF pieces
    <3> QED BY <1>1, <3>1, <3>2, ItemsAre DEF owedDatapoints
  <2> QED BY <2>1, <2>2, <2>4, NothingCaptured DEF places
<1>7. metricKeys(captured.metrics) \cup owedKeys = metricKeys(fixture.metrics)
  <2>1. metricKeys(captured.metrics) = {}
    BY <1>1 DEF metricKeys
  <2>2. \A y \in owed : y[1] = "metrics" => y[2] \in DOMAIN fixture.metrics
    BY <1>1, ItemsAre
  <2>3. \A m \in DOMAIN fixture.metrics : \E i : <<"metrics", m, i>> \in owed
    <3> TAKE m \in DOMAIN fixture.metrics
    <3>1. fixture.metrics[m].points \in Seq(Nat)
      BY <1>2, MetricTyped
    <3>2. \E i : i \in pieces(fixture.metrics[m])
      <4> DEFINE points == fixture.metrics[m].points
      <4>1. CASE points = <<>>
        BY <4>1 DEF pieces
      <4>2. CASE points # <<>>
        <5>1. 1 \in DOMAIN points
          <6> HIDE DEF points
          <6> QED BY <3>1, <4>2 DEF points
        <5>2. pieces(fixture.metrics[m]) = DOMAIN points
          BY <4>2 DEF pieces
        <5> QED BY <5>1, <5>2
      <4> QED BY <4>1, <4>2
    <3> QED BY <1>1, <3>2, ItemsAre
  <2>4. \A m, i : <<"metrics", m, i>> \in owed => fixture.metrics[m].key \in owedKeys
    BY DEF owedKeys
  <2>5. owedKeys \subseteq metricKeys(fixture.metrics)
    BY <2>2 DEF owedKeys, metricKeys
  <2>6. metricKeys(fixture.metrics) \subseteq owedKeys
    BY <2>3, <2>4 DEF metricKeys
  <2> QED BY <2>1, <2>5, <2>6
<1> QED BY <1>1, <1>3, <1>4, <1>5, <1>6, <1>7 DEF CaptureInv

LEMMA LogExport ==
  ASSUME InputInv, CaptureInv, NEW i \in DOMAIN fixture.logs, ExportLog(i)
  PROVE  CaptureInv'
<1>1. /\ <<"logs", i, 0>> \in owed /\ owed' = owed \ {<<"logs", i, 0>>} /\ fixture' = fixture
      /\ captured' = [captured EXCEPT !.logs = Append(@, fixture.logs[i])]
  BY DEF ExportLog
<1>2. /\ captured'.logs = Append(captured.logs, fixture.logs[i])
      /\ captured'.spans = captured.spans /\ captured'.metrics = captured.metrics
      /\ captured' = [logs |-> captured'.logs, spans |-> captured'.spans, metrics |-> captured'.metrics]
  BY <1>1 DEF CaptureInv
<1>3. fixture.logs \in Seq(Nat) /\ i \in Nat
  BY FixtureTyped DEF InputInv
<1>4. /\ owedPlaces("logs")' = owedPlaces("logs") \ {i} /\ i \in owedPlaces("logs")
      /\ owedPlaces("traces")' = owedPlaces("traces")
      /\ owedDatapoints' = owedDatapoints /\ owedKeys' = owedKeys
  BY <1>1, <1>3 DEF owedPlaces, owedDatapoints, owedKeys
<1>5. Counted(captured'.logs, fixture.logs, owedPlaces("logs") \ {i})
  <2>1. captured.logs \in Seq(Nat) /\ Counted(captured.logs, fixture.logs, owedPlaces("logs"))
    BY DEF CaptureInv
  <2> QED BY <1>2, <1>3, <1>4, <2>1, AppendCounts
<1>6. captured'.logs \in Seq(Nat)
  BY <1>2, <1>3 DEF CaptureInv
<1> QED BY <1>1, <1>2, <1>4, <1>5, <1>6 DEF CaptureInv

LEMMA SpanExport ==
  ASSUME InputInv, CaptureInv, NEW i \in DOMAIN fixture.spans, ExportSpan(i)
  PROVE  CaptureInv'
<1>1. /\ <<"traces", i, 0>> \in owed /\ owed' = owed \ {<<"traces", i, 0>>} /\ fixture' = fixture
      /\ captured' = [captured EXCEPT !.spans = Append(@, fixture.spans[i])]
  BY DEF ExportSpan
<1>2. /\ captured'.spans = Append(captured.spans, fixture.spans[i])
      /\ captured'.logs = captured.logs /\ captured'.metrics = captured.metrics
      /\ captured' = [logs |-> captured'.logs, spans |-> captured'.spans, metrics |-> captured'.metrics]
  BY <1>1 DEF CaptureInv
<1>3. fixture.spans \in Seq(Nat) /\ i \in Nat
  BY FixtureTyped DEF InputInv
<1>4. /\ owedPlaces("traces")' = owedPlaces("traces") \ {i} /\ i \in owedPlaces("traces")
      /\ owedPlaces("logs")' = owedPlaces("logs")
      /\ owedDatapoints' = owedDatapoints /\ owedKeys' = owedKeys
  BY <1>1, <1>3 DEF owedPlaces, owedDatapoints, owedKeys
<1>5. Counted(captured'.spans, fixture.spans, owedPlaces("traces") \ {i})
  <2>1. captured.spans \in Seq(Nat) /\ Counted(captured.spans, fixture.spans, owedPlaces("traces"))
    BY DEF CaptureInv
  <2> QED BY <1>2, <1>3, <1>4, <2>1, AppendCounts, SMTT(20)
<1>6. captured'.spans \in Seq(Nat)
  BY <1>2, <1>3 DEF CaptureInv
<1> QED BY <1>1, <1>2, <1>4, <1>5, <1>6 DEF CaptureInv

LEMMA MetricExport ==
  ASSUME InputInv, CaptureInv, NEW m \in DOMAIN fixture.metrics, NEW part \in SUBSET owedPoints(m),
         ExportMetric(m, part)
  PROVE  CaptureInv'
<1>1. /\ part # {} /\ \A i \in part : <<"metrics", m, i>> \in owed
      /\ owed' = owed \ {<<"metrics", m, i>> : i \in part} /\ fixture' = fixture
  BY DEF ExportMetric
<1>2. PICK order \in Arrangements(part \ {0}) :
        captured' = [captured EXCEPT !.metrics = Append(@,
          [key |-> fixture.metrics[m].key,
           points |-> [k \in DOMAIN order |-> fixture.metrics[m].points[order[k]]]])]
  BY DEF ExportMetric
<1> DEFINE frag == [key |-> fixture.metrics[m].key,
                    points |-> [k \in DOMAIN order |-> fixture.metrics[m].points[order[k]]]]
           P == part \ {0}
<1>3. /\ captured'.metrics = Append(captured.metrics, frag)
      /\ captured'.logs = captured.logs /\ captured'.spans = captured.spans
      /\ captured' = [logs |-> captured'.logs, spans |-> captured'.spans, metrics |-> captured'.metrics]
  BY <1>2 DEF CaptureInv
<1>4. /\ fixture.metrics \in Metrics /\ captured.metrics \in Metrics /\ m \in Nat
      /\ fixture.metrics[m].key \in Nat
  BY FixtureTyped, MetricTyped DEF InputInv, CaptureInv
<1>5. P \in SUBSET (DOMAIN fixture.metrics[m].points)
  <2>1. \A i \in part : i \in pieces(fixture.metrics[m])
    BY <1>1, ItemsAre DEF CaptureInv
  <2> QED BY <2>1 DEF pieces
<1>6. /\ owedPlaces("logs")' = owedPlaces("logs")
      /\ owedPlaces("traces")' = owedPlaces("traces")
  BY <1>1 DEF owedPlaces
<1>7. \A i \in P : <<m, i>> \in owedDatapoints
  <2>1. fixture.metrics[m].points \in Seq(Nat)
    BY <1>4, MetricTyped
  <2>2. P \subseteq Nat
    BY <1>5, <2>1
  <2> QED BY <1>1, <1>4, <2>2 DEF owedDatapoints
<1>8. ASSUME NEW key \in Nat, NEW x \in places(fixture.metrics, key)
      PROVE  x \in owedDatapoints' <=> x \in owedDatapoints /\ ~(x[1] = m /\ x[2] \in P)
  <2>1. places(fixture.metrics, key) =
          {y \in Nat \X Nat : y[1] \in DOMAIN fixture.metrics /\ fixture.metrics[y[1]].key = key
                               /\ y[2] \in DOMAIN fixture.metrics[y[1]].points}
    BY <1>4, GroupedTyped, Zenon
  <2>2. x \in Nat \X Nat /\ x[1] \in DOMAIN fixture.metrics /\ x[2] \in DOMAIN fixture.metrics[x[1]].points
    BY <2>1
  <2>3. x[2] # 0
    <3>1. fixture.metrics[x[1]].points \in Seq(Nat)
      BY <1>4, <2>2, MetricTyped
    <3> QED BY <2>2, <3>1
  <2>4. <<"metrics", x[1], x[2]>> \in {<<"metrics", m, i>> : i \in part} <=> x[1] = m /\ x[2] \in part
    OBVIOUS
  <2> QED BY <1>1, <2>2, <2>3, <2>4 DEF owedDatapoints
<1>9. ASSUME NEW key \in Nat
      PROVE  /\ Append(captured.metrics, frag) \in Metrics
             /\ Counted(grouped(Append(captured.metrics, frag), key), grouped(fixture.metrics, key), owedDatapoints')
  <2>1. Counted(grouped(captured.metrics, key), grouped(fixture.metrics, key), owedDatapoints)
    BY DEF CaptureInv
  <2>2. order \in Arrangements(P)
    BY <1>2
  <2>3. \A x \in places(fixture.metrics, key) :
          x \in owedDatapoints' <=> x \in owedDatapoints /\ ~(x[1] = m /\ x[2] \in P)
    BY <1>8
  <2>4. frag = [key |-> fixture.metrics[m].key,
                points |-> [k \in DOMAIN order |-> fixture.metrics[m].points[order[k]]]]
    OBVIOUS
  <2> HIDE DEF frag, P
  <2> QED BY <1>4, <1>5, <1>7, <2>1, <2>2, <2>3, <2>4, FragmentCounts, SMTT(30)
<1>10. metricKeys(captured'.metrics) \cup owedKeys' = metricKeys(fixture.metrics)
  <2>1. metricKeys(captured'.metrics) = metricKeys(captured.metrics) \cup {fixture.metrics[m].key}
    <3> DEFINE T == [key : Nat, points : Seq(Nat)]
               d == Append(captured.metrics, frag)
    <3>1. captured.metrics \in Seq(T) /\ d \in Seq(T)
      BY <1>4, <1>9 DEF Metrics
    <3>2. frag \in T
      <4>1. d[Len(captured.metrics) + 1] = frag /\ Len(captured.metrics) + 1 \in DOMAIN d
        <5> HIDE DEF T, frag
        <5> QED BY <3>1
      <4> HIDE DEF T, frag, d
      <4> QED BY <3>1, <4>1
    <3>3. /\ DOMAIN d = DOMAIN captured.metrics \cup {Len(captured.metrics) + 1}
          /\ d[Len(captured.metrics) + 1] = frag
          /\ \A j \in DOMAIN captured.metrics : d[j] = captured.metrics[j]
      <4> HIDE DEF T, frag
      <4> QED BY <3>1, <3>2
    <3>4. frag.key = fixture.metrics[m].key
      OBVIOUS
    <3> HIDE DEF frag, T, d
    <3>5. metricKeys(d) = metricKeys(captured.metrics) \cup {frag.key}
      BY <3>3 DEF metricKeys
    <3> QED BY <1>3, <3>4, <3>5 DEF d
  <2>2. owedKeys \cup {fixture.metrics[m].key} = owedKeys' \cup {fixture.metrics[m].key}
    <3>1. \A y \in owed \ owed' : y[2] = m
      BY <1>1
    <3>2. owed' \subseteq owed
      BY <1>1
    <3>3. owedKeys' \subseteq owedKeys
      BY <1>1, <3>2 DEF owedKeys
    <3>4. \A y \in owed : y[1] = "metrics" => fixture.metrics[y[2]].key \in owedKeys' \cup {fixture.metrics[m].key}
      BY <1>1, <3>1 DEF owedKeys
    <3> QED BY <3>3, <3>4 DEF owedKeys
  <2>3. fixture.metrics[m].key \in metricKeys(fixture.metrics)
    BY DEF metricKeys
  <2>4. metricKeys(captured.metrics) \cup owedKeys = metricKeys(fixture.metrics)
    BY DEF CaptureInv
  <2> QED BY <2>1, <2>2, <2>3, <2>4
<1>11. captured'.metrics \in Metrics
  <2>1. 0 \in Nat
    OBVIOUS
  <2> QED BY <1>3, <1>9, <2>1
<1>12. owed' \subseteq Items(fixture)
  BY <1>1 DEF CaptureInv
<1>13. \A key \in Nat : Counted(grouped(captured'.metrics, key), grouped(fixture.metrics, key), owedDatapoints')
  BY <1>3, <1>9
<1> QED BY <1>1, <1>3, <1>6, <1>10, <1>11, <1>12, <1>13 DEF CaptureInv

LEMMA CaptureInvariant == Spec => []CaptureInv
<1>1. Init /\ InputInv => CaptureInv
  BY CaptureStart DEF Init
<1>2. InputInv /\ CaptureInv /\ [Next]_vars => CaptureInv'
  <2> SUFFICES ASSUME InputInv, CaptureInv, [Next]_vars PROVE CaptureInv'
    OBVIOUS
  <2>1. CASE UNCHANGED telemetryVars
    <3>1. fixture' = fixture /\ owed' = owed /\ captured' = captured
      BY <2>1 DEF telemetryVars
    <3> QED BY <3>1 DEF CaptureInv, owedPlaces, owedDatapoints, owedKeys
  <2>2. CASE Deliver
    BY <2>2, LogExport, SpanExport, MetricExport DEF Deliver, Export
  <2> QED BY <2>1, <2>2 DEF Next, Parse, vars
<1> QED BY <1>1, <1>2, InputInvariant, PTL DEF Spec

-----------------------------------------------------------------------------
(* Once the signals of the harness owe nothing, nothing is owed at all: a   *)
(* signal without a pipeline has an empty fixture.                          *)

LEMMA CanonicalFormsAgree ==
  ASSUME InputInv, CaptureInv, owed = {}
  PROVE  Canonicalize(captured) = Canonicalize(fixture)
<1>1. fixture.logs \in Seq(Nat) /\ fixture.spans \in Seq(Nat) /\ fixture.metrics \in Metrics
  BY FixtureTyped DEF InputInv
<1>2. captured.logs \in Seq(Nat) /\ captured.spans \in Seq(Nat) /\ captured.metrics \in Metrics
  BY DEF CaptureInv
<1>3. owedPlaces("logs") = {} /\ owedPlaces("traces") = {} /\ owedDatapoints = {} /\ owedKeys = {}
  BY DEF owedPlaces, owedDatapoints, owedKeys
<1>4. sortByJSON(captured.logs) = sortByJSON(fixture.logs)
  <2>1. Counted(captured.logs, fixture.logs, {})
    BY <1>3 DEF CaptureInv
  <2> DEFINE c == captured.logs
             f == fixture.logs
  <2>2. IsFiniteSet(DOMAIN c) /\ c \in [DOMAIN c -> Nat] /\ IsFiniteSet(DOMAIN f) /\ f \in [DOMAIN f -> Nat]
    BY <1>1, <1>2, SequencesFinite
  <2>3. DOMAIN f \cap {} = {}
    OBVIOUS
  <2> HIDE DEF c, f
  <2>4. Counted(c, f, {})
    BY <2>1 DEF c, f
  <2>5. sortByJSON(c) = sortByJSON(f)
    BY <2>2, <2>3, <2>4, CountedSorts
  <2> QED BY <2>5 DEF c, f
<1>5. sortByJSON(captured.spans) = sortByJSON(fixture.spans)
  <2>1. Counted(captured.spans, fixture.spans, {})
    BY <1>3 DEF CaptureInv
  <2> DEFINE c == captured.spans
             f == fixture.spans
  <2>2. IsFiniteSet(DOMAIN c) /\ c \in [DOMAIN c -> Nat] /\ IsFiniteSet(DOMAIN f) /\ f \in [DOMAIN f -> Nat]
    BY <1>1, <1>2, SequencesFinite
  <2>3. DOMAIN f \cap {} = {}
    OBVIOUS
  <2> HIDE DEF c, f
  <2>4. Counted(c, f, {})
    BY <2>1 DEF c, f
  <2>5. sortByJSON(c) = sortByJSON(f)
    BY <2>2, <2>3, <2>4, CountedSorts
  <2> QED BY <2>5 DEF c, f
<1>6. metricKeys(captured.metrics) = metricKeys(fixture.metrics)
  BY <1>3 DEF CaptureInv
<1>7. ASSUME NEW key \in Nat
      PROVE  sortByJSON(grouped(captured.metrics, key)) = sortByJSON(grouped(fixture.metrics, key))
  <2>1. Counted(grouped(captured.metrics, key), grouped(fixture.metrics, key), {})
    BY <1>3 DEF CaptureInv
  <2>2. /\ IsFiniteSet(places(captured.metrics, key))
        /\ grouped(captured.metrics, key) \in [places(captured.metrics, key) -> Nat]
    BY <1>2, GroupedTyped, Zenon
  <2>3. /\ IsFiniteSet(places(fixture.metrics, key))
        /\ grouped(fixture.metrics, key) \in [places(fixture.metrics, key) -> Nat]
    BY <1>1, GroupedTyped, Zenon
  <2>4. places(fixture.metrics, key) \cap {} = {}
    OBVIOUS
  <2> QED BY <2>1, <2>2, <2>3, <2>4, CountedSorts
<1> DEFINE keys == sortByJSON([key \in metricKeys(fixture.metrics) |-> key])
<1>8. \A i \in DOMAIN keys : keys[i] \in Nat
  <2> DEFINE K == metricKeys(fixture.metrics)
             w == [key \in K |-> key]
  <2>1. K \subseteq Nat
    BY <1>1, MetricTyped DEF metricKeys
  <2>2. IsFiniteSet(K)
    <3>1. IsFiniteSet(DOMAIN fixture.metrics)
      BY <1>1, SequencesFinite DEF Metrics
    <3> DEFINE g == [j \in DOMAIN fixture.metrics |-> fixture.metrics[j].key]
    <3>2. g \in Surjection(DOMAIN fixture.metrics, K)
      BY DEF metricKeys, Surjection
    <3> HIDE DEF K, g
    <3> QED BY <3>1, <3>2, FS_Surjection
  <2>3. w \in [K -> Nat]
    BY <2>1
  <2> HIDE DEF K, w
  <2>4. \A i \in DOMAIN sortByJSON(w) : sortByJSON(w)[i] \in Nat
    <3>1. sortByJSON(w) \in Seq(Nat)
      BY <2>2, <2>3, SortTyped
    <3> QED BY <3>1
  <2> QED BY <2>4 DEF K, w
<1>9. Canonicalize(captured).metrics = Canonicalize(fixture).metrics
  BY <1>6, <1>7, <1>8 DEF Canonicalize
<1> QED BY <1>4, <1>5, <1>6, <1>7, <1>8 DEF Canonicalize

LEMMA NothingOwed ==
  ASSUME InputInv, CaptureInv, activeSignals = populated, \A x \in owed : x[1] \notin activeSignals
  PROVE  owed = {}
<1> SUFFICES ASSUME NEW x \in owed PROVE FALSE
  OBVIOUS
<1>1. x \in Items(fixture)
  BY DEF CaptureInv
<1>2. CASE \E i \in DOMAIN fixture.logs : x = <<"logs", i, 0>>
  <2>1. fixture.logs # <<>>
    BY <1>2
  <2> QED BY <1>2, <2>1 DEF InputInv
<1>3. CASE \E i \in DOMAIN fixture.spans : x = <<"traces", i, 0>>
  <2>1. fixture.spans # <<>>
    BY <1>3
  <2> QED BY <1>3, <2>1 DEF InputInv
<1>4. CASE \E m \in DOMAIN fixture.metrics : \E i \in pieces(fixture.metrics[m]) : x = <<"metrics", m, i>>
  <2>1. fixture.metrics # <<>>
    BY <1>4
  <2> QED BY <1>4, <2>1 DEF InputInv
<1> QED BY <1>1, <1>2, <1>3, <1>4 DEF Items

\* Pipelines that change nothing are seen to change nothing, however the
\* Collector splits, orders and interleaves what it exports: the canonical
\* form of the capture is that of the fixture, once all of it was exported.
THEOREM PassThrough == Spec => []PassThroughIsIdentity
<1>1. InputInv /\ HarnessInv /\ CaptureInv => PassThroughIsIdentity
  <2> SUFFICES ASSUME InputInv, HarnessInv, CaptureInv, pc = "accepted",
                      \A x \in owed : x[1] \notin activeSignals
               PROVE  Canonicalize(captured) = Canonicalize(fixture)
    BY DEF PassThroughIsIdentity
  <2>1. activeSignals = populated
    BY AcceptedIsFaithful DEF HarnessIsFaithful, activeSignals
  <2> QED BY <2>1, NothingOwed, CanonicalFormsAgree
<1> QED BY <1>1, HarnessInvariant, CaptureInvariant, PTL
=============================================================================
