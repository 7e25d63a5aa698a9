--------------------------- MODULE FixtureRunProofs ---------------------------
(***************************************************************************)
(* The output of the fixture runner does not depend on the order in which  *)
(* Go walks the pipelines.  The argument looks forward: whatever has been  *)
(* done, applying the processors that remain, all at once, to the present  *)
(* output gives the simulation of all of them on the fixture.              *)
(***************************************************************************)
EXTENDS FixtureRun, FiniteSetTheorems, SequenceTheorems, TLAPS

Names  == DOMAIN config.kind
Els(q) == {q[i] : i \in DOMAIN q}

\* The uses that are still to be applied.
Rest ==
  {u \in Signals \X Names :
     \/ u[1] = SignalOrder[at] /\ u[2] \in Els(queue)
     \/ u[2] \in Els(used[u[1]]) /\ \E j \in DOMAIN SignalOrder : j > at /\ SignalOrder[j] = u[1]
     \/ \E p \in unread : /\ config.pipelines[p].signal = u[1]
                          /\ u[2] \in Els(config.pipelines[p].chain)}

Shape ==
  /\ config \in Configs /\ fixture \in Fixtures
  /\ unread \subseteq Pipelines
  /\ used \in [Signals -> Seq(Names)]
  /\ at \in 0..(Len(SignalOrder) + 1)
  /\ queue \in Seq(Names)
  /\ unread # {} => at = 0
  /\ at \notin DOMAIN SignalOrder => queue = <<>>
  /\ DOMAIN output \subseteq DOMAIN fixture
  /\ output \in [DOMAIN output -> Records]

volume == <<"log volume", "none">>

Forward ==
  /\ Simulation(config, Rest, output) = Simulation(config, Uses(config), fixture)
  /\ (volume \in warnings \/ (DropsDebug(config, Rest) /\ overFiltered(output)))
       <=> (DropsDebug(config, Uses(config)) /\ overFiltered(fixture))

Inv == Shape /\ Forward

-----------------------------------------------------------------------------
(* Sequences and signals                                                   *)

LEMMA ElsEmpty == Els(<<>>) = {}
BY DEF Els

LEMMA ElsConcat ==
  ASSUME NEW S, NEW s \in Seq(S), NEW t \in Seq(S)
  PROVE  Els(s \o t) = Els(s) \cup Els(t)
<1>1. \A x : x \in Els(s) => x \in Els(s \o t)
  BY DEF Els
<1>2. \A x : x \in Els(t) => x \in Els(s \o t)
  <2>1. SUFFICES ASSUME NEW i \in DOMAIN t PROVE t[i] \in Els(s \o t)
    BY DEF Els
  <2>2. (s \o t)[Len(s) + i] = t[i] /\ Len(s) + i \in DOMAIN (s \o t)
    OBVIOUS
  <2>. QED BY <2>2 DEF Els
<1>3. \A x : x \in Els(s \o t) => x \in Els(s) \cup Els(t)
  <2>1. SUFFICES ASSUME NEW i \in DOMAIN (s \o t) PROVE (s \o t)[i] \in Els(s) \cup Els(t)
    BY DEF Els
  <2>2. CASE i \in DOMAIN s
    BY <2>2 DEF Els
  <2>3. CASE i \notin DOMAIN s
    <3>1. i - Len(s) \in DOMAIN t /\ (s \o t)[i] = t[i - Len(s)]
      BY <2>3
    <3>. QED BY <3>1 DEF Els
  <2>. QED BY <2>2, <2>3
<1>. QED BY <1>1, <1>2, <1>3

LEMMA ElsHeadTail ==
  ASSUME NEW S, NEW q \in Seq(S), q # <<>>
  PROVE  /\ Els(q) = {Head(q)} \cup Els(Tail(q))
         /\ Head(q) \in S /\ Tail(q) \in Seq(S)
<1>1. Tail(q) \in Seq(S) /\ Head(q) = q[1] /\ Head(q) \in S /\ Len(q) \in Nat \ {0}
  OBVIOUS
<1>2. \A i \in DOMAIN Tail(q) : Tail(q)[i] = q[i + 1] /\ i + 1 \in DOMAIN q
  OBVIOUS
<1>3. \A i \in DOMAIN q : i = 1 \/ (i - 1 \in DOMAIN Tail(q) /\ Tail(q)[i - 1] = q[i])
  OBVIOUS
<1>4. Els(Tail(q)) \subseteq Els(q)
  BY <1>2 DEF Els
<1>5. Head(q) \in Els(q)
  BY <1>1 DEF Els
<1>6. Els(q) \subseteq {Head(q)} \cup Els(Tail(q))
  BY <1>1, <1>3, ZenonT(40) DEF Els
<1>. QED BY <1>1, <1>4, <1>5, <1>6

LEMMA Order ==
  /\ DOMAIN SignalOrder = 1..4 /\ Len(SignalOrder) = 4
  /\ Signals = {"logs", "traces", "metrics", "profiles"}
  /\ \A s \in Signals : \E j \in 1..4 : SignalOrder[j] = s
  /\ \A j \in 1..4 : SignalOrder[j] \in Signals
  /\ \A j \in 1..4, k \in 1..4 : SignalOrder[j] = SignalOrder[k] => j = k
<1>1. DOMAIN SignalOrder = 1..4 /\ Len(SignalOrder) = 4
  BY DEF SignalOrder
<1>2. Signals = {"logs", "traces", "metrics", "profiles"}
  BY <1>1 DEF Signals, SignalOrder
<1>. QED BY <1>1, <1>2 DEF SignalOrder
-----------------------------------------------------------------------------
(* The simulation of a set of uses                                         *)

LEMMA UnionOfUses ==
  ASSUME NEW c, NEW U, NEW V
  PROVE  DropsDebug(c, U \cup V) <=> (DropsDebug(c, U) \/ DropsDebug(c, V))
<1>1. DefinedUses(c, U \cup V, "filter")
        = DefinedUses(c, U, "filter") \cup DefinedUses(c, V, "filter")
  BY DEF DefinedUses
<1>. QED BY <1>1 DEF DropsDebug

LEMMA UnionOfKeys ==
  ASSUME NEW c, NEW U, NEW V, NEW s
  PROVE  DeletedKeys(c, V, s) \cup DeletedKeys(c, U, s) = DeletedKeys(c, U \cup V, s)
<1>1. DefinedUses(c, U \cup V, "attributes")
        = DefinedUses(c, U, "attributes") \cup DefinedUses(c, V, "attributes")
  BY DEF DefinedUses
<1>. QED BY <1>1 DEF DeletedKeys

LEMMA KeptRecord ==
  ASSUME NEW r \in Records, NEW K
  PROVE  /\ withoutKeys(r, K) \in Records
         /\ withoutKeys(r, K).signal = r.signal
         /\ isDebug(withoutKeys(r, K)) <=> isDebug(r)
<1>1. [i \in DOMAIN r.attrs |-> r.attrs[i] \ K] \in Seq(SUBSET Keys)
  <2>1. r.attrs \in Seq(SUBSET Keys)
    BY DEF Records
  <2>2. PICK n \in Nat : r.attrs \in [1..n -> SUBSET Keys]
    BY <2>1, SeqDef
  <2>3. [i \in DOMAIN r.attrs |-> r.attrs[i] \ K] \in [1..n -> SUBSET Keys]
    BY <2>2
  <2>. QED BY <2>2, <2>3, SeqDef
<1>. QED BY <1>1 DEF Records, withoutKeys, isDebug

LEMMA TwoRemovals ==
  ASSUME NEW r \in Records, NEW K, NEW L
  PROVE  withoutKeys(withoutKeys(r, K), L) = withoutKeys(r, K \cup L)
<1>1. withoutKeys(withoutKeys(r, K), L).attrs = withoutKeys(r, K \cup L).attrs
  <2>. DEFINE a == r.attrs
  <2>1. \A i \in DOMAIN a : (a[i] \ K) \ L = a[i] \ (K \cup L)
    OBVIOUS
  <2>2. [i \in DOMAIN [j \in DOMAIN a |-> a[j] \ K] |-> [j \in DOMAIN a |-> a[j] \ K][i] \ L]
          = [i \in DOMAIN a |-> a[i] \ (K \cup L)]
    BY <2>1
  <2>. QED BY <2>2 DEF withoutKeys
<1>2. (r.res \ K) \ L = r.res \ (K \cup L)
  OBVIOUS
<1>. QED BY <1>1, <1>2 DEF withoutKeys

LEMMA NoRemoval ==
  ASSUME NEW r \in Records
  PROVE  withoutKeys(r, {}) = r
<1>1. r.attrs \in Seq(SUBSET Keys) /\ r.res \ {} = r.res
  BY DEF Records
<1>2. [i \in DOMAIN r.attrs |-> r.attrs[i] \ {}] = r.attrs
  <2>1. PICK n \in Nat : r.attrs \in [1..n -> SUBSET Keys]
    BY <1>1, SeqDef
  <2>. QED BY <2>1
<1>3. r = [signal |-> r.signal, debug |-> r.debug, res |-> r.res, attrs |-> r.attrs]
  BY DEF Records
<1>. QED BY <1>1, <1>2, <1>3 DEF withoutKeys

LEMMA Compose ==
  ASSUME NEW c, NEW U, NEW V, NEW f, f \in [DOMAIN f -> Records]
  PROVE  /\ Simulation(c, U, Simulation(c, V, f)) = Simulation(c, U \cup V, f)
         /\ Simulation(c, {}, f) = f
<1>. DEFINE g == Simulation(c, V, f)
<1>1. DOMAIN g = {j \in DOMAIN f : ~(DropsDebug(c, V) /\ isDebug(f[j]))}
  BY DEF Simulation
<1>2. \A i \in DOMAIN g : /\ i \in DOMAIN f
                          /\ g[i] = withoutKeys(f[i], DeletedKeys(c, V, f[i].signal))
                          /\ g[i].signal = f[i].signal
                          /\ isDebug(g[i]) <=> isDebug(f[i])
  BY KeptRecord DEF Simulation
<1>3. {j \in DOMAIN g : ~(DropsDebug(c, U) /\ isDebug(g[j]))}
        = {j \in DOMAIN f : ~(DropsDebug(c, U \cup V) /\ isDebug(f[j]))}
  BY <1>1, <1>2, UnionOfUses
<1>4. \A i \in DOMAIN g : withoutKeys(g[i], DeletedKeys(c, U, g[i].signal))
                            = withoutKeys(f[i], DeletedKeys(c, U \cup V, f[i].signal))
  <2>. SUFFICES ASSUME NEW i \in DOMAIN g
                PROVE  withoutKeys(g[i], DeletedKeys(c, U, g[i].signal))
                         = withoutKeys(f[i], DeletedKeys(c, U \cup V, f[i].signal))
    OBVIOUS
  <2>1. f[i] \in Records /\ g[i].signal = f[i].signal
    BY <1>2
  <2>3. g[i] = withoutKeys(f[i], DeletedKeys(c, V, f[i].signal))
    BY <1>2
  <2>. DEFINE K == DeletedKeys(c, V, f[i].signal)
              L == DeletedKeys(c, U, f[i].signal)
  <2>4. withoutKeys(withoutKeys(f[i], K), L) = withoutKeys(f[i], K \cup L)
    BY <2>1, TwoRemovals
  <2>5. K \cup L = DeletedKeys(c, U \cup V, f[i].signal)
    BY UnionOfKeys
  <2>. HIDE DEF g, K, L
  <2>6. withoutKeys(g[i], L) = withoutKeys(f[i], DeletedKeys(c, U \cup V, f[i].signal))
    BY <2>3, <2>4, <2>5 DEF K
  <2>. QED BY <2>1, <2>6 DEF L
<1>5. Simulation(c, U, g) = Simulation(c, U \cup V, f)
  <2>. HIDE DEF g
  <2>. QED BY <1>3, <1>4 DEF Simulation
<1>6. Simulation(c, {}, f) = f
  <2>1. ~DropsDebug(c, {}) /\ \A s : DeletedKeys(c, {}, s) = {}
    BY DEF DropsDebug, DeletedKeys, DefinedUses
  <2>. QED BY <2>1, NoRemoval DEF Simulation
<1>. QED BY <1>5, <1>6
-----------------------------------------------------------------------------
(* One processor                                                           *)

\* The debug filter leaves no debug log, so it can only be over-filtered once.
LEMMA FilteredOnce ==
  ASSUME NEW f, f \in [DOMAIN f -> Records], IsFiniteSet(DOMAIN f)
  PROVE  ~overFiltered(filterDebugLogs(f))
<1>. DEFINE g == filterDebugLogs(f)
            n == Cardinality({i \in DOMAIN g : g[i].signal = "logs"})
<1>1. {i \in DOMAIN g : isDebug(g[i])} = {}
  BY DEF filterDebugLogs
<1>2. Cardinality({i \in DOMAIN g : isDebug(g[i])}) = 0
  BY <1>1, FS_EmptySet
<1>3. n \in Nat
  <2>1. {i \in DOMAIN g : g[i].signal = "logs"} \subseteq DOMAIN f
    BY DEF filterDebugLogs
  <2>. QED BY <2>1, FS_Subset, FS_CardinalityType
<1>. HIDE DEF g
<1>4. ~(n > 0 /\ 2 * 0 >= n)
  BY <1>3
<1>. QED BY <1>2, <1>4 DEF overFiltered, g

\* Deleting attributes changes neither signals nor bodies.
LEMMA SameVolume ==
  ASSUME NEW f, NEW g, DOMAIN g = DOMAIN f,
         \A i \in DOMAIN f : g[i].signal = f[i].signal /\ (isDebug(g[i]) <=> isDebug(f[i]))
  PROVE  overFiltered(g) <=> overFiltered(f)
<1>1. {i \in DOMAIN g : g[i].signal = "logs"} = {i \in DOMAIN f : f[i].signal = "logs"}
  OBVIOUS
<1>2. {i \in DOMAIN g : isDebug(g[i])} = {i \in DOMAIN f : isDebug(f[i])}
  OBVIOUS
<1>. QED BY <1>1, <1>2 DEF overFiltered

use == <<signal, name>>

\* A processor takes one use off the rest.
LEMMA RestTakes ==
  ASSUME Shape, queue # <<>>, done
  PROVE  /\ Rest = Rest' \cup {use}
         /\ at \in 1..4 /\ signal \in Signals /\ name \in Names
         /\ queue' \in Seq(Names)
<1>1. at \in 1..4 /\ signal \in Signals
  BY Order DEF Shape, signal
<1>2. Els(queue) = {name} \cup Els(queue') /\ name \in Names /\ queue' \in Seq(Names)
  BY ElsHeadTail DEF Shape, done, name
<1>3. at' = at /\ used' = used /\ unread' = unread /\ config' = config
  BY DEF done, input
<1>. USE DEF use
<1>4. ASSUME NEW u \in Rest PROVE u \in Rest' \cup {use}
  BY <1>2, <1>3, <1>4 DEF Rest, signal, Names
<1>5. ASSUME NEW u \in Rest' PROVE u \in Rest
  BY <1>2, <1>3, <1>5 DEF Rest, Names
<1>6. use \in Rest
  BY <1>1, <1>2 DEF Rest, signal
<1>. QED BY <1>1, <1>2, <1>4, <1>5, <1>6

\* What one use deletes and drops.
LEMMA UseEffects ==
  ASSUME NEW c, NEW s, NEW n
  PROVE  /\ DropsDebug(c, {<<s, n>>})
              <=> (n \in DOMAIN c.def /\ c.kind[n] = "filter" /\ s = "logs" /\ c.def[n].debug)
         /\ \A x : DeletedKeys(c, {<<s, n>>}, x) =
              IF x = s /\ n \in DOMAIN c.def /\ c.kind[n] = "attributes" THEN c.def[n].deletes ELSE {}
<1>1. \A k : DefinedUses(c, {<<s, n>>}, k) =
               IF n \in DOMAIN c.def /\ c.kind[n] = k THEN {<<s, n>>} ELSE {}
  BY DEF DefinedUses
<1>. DEFINE u == <<s, n>>
<1>0. u[1] = s /\ u[2] = n
  OBVIOUS
<1>. HIDE DEF u
<1>2. DropsDebug(c, {u})
        <=> (n \in DOMAIN c.def /\ c.kind[n] = "filter" /\ s = "logs" /\ c.def[n].debug)
  BY <1>1, <1>0 DEF DropsDebug, u
<1>3. ASSUME NEW x
      PROVE  DeletedKeys(c, {u}, x) =
               IF x = s /\ n \in DOMAIN c.def /\ c.kind[n] = "attributes" THEN c.def[n].deletes ELSE {}
  <2>1. \A D : UNION {D} = D
    OBVIOUS
  <2>2. {v \in DefinedUses(c, {u}, "attributes") : v[1] = x} =
          IF x = s /\ n \in DOMAIN c.def /\ c.kind[n] = "attributes" THEN {u} ELSE {}
    BY <1>1, <1>0 DEF u
  <2>3. CASE x = s /\ n \in DOMAIN c.def /\ c.kind[n] = "attributes"
    BY <2>1, <2>2, <2>3, <1>0 DEF DeletedKeys
  <2>4. CASE ~(x = s /\ n \in DOMAIN c.def /\ c.kind[n] = "attributes")
    BY <2>2, <2>4 DEF DeletedKeys
  <2>. QED BY <2>3, <2>4
<1>. QED BY <1>2, <1>3 DEF u

\* A use without effect on the records.
LEMMA NoEffect ==
  ASSUME NEW c, NEW U, NEW f, f \in [DOMAIN f -> Records],
         ~DropsDebug(c, U), \A x : DeletedKeys(c, U, x) = {}
  PROVE  Simulation(c, U, f) = f
BY NoRemoval DEF Simulation

\* What the processors do to the records is what Simulation says of one use,
\* and the volume warning goes with the debug filter.
LEMMA OneUse ==
  ASSUME Shape, queue # <<>>, Processor
  PROVE  /\ output' = Simulation(config, {use}, output)
         /\ DOMAIN output' \subseteq DOMAIN output
         /\ output' \in [DOMAIN output' -> Records]
         /\ \/ /\ DropsDebug(config, {use})
               /\ volume \in warnings' <=> (volume \in warnings \/ overFiltered(output))
               /\ ~overFiltered(output')
            \/ /\ ~DropsDebug(config, {use})
               /\ volume \in warnings' <=> volume \in warnings
               /\ overFiltered(output') <=> overFiltered(output)
<1>. DEFINE Quiet == ~DropsDebug(config, {use}) /\ \A x : DeletedKeys(config, {use}, x) = {}
<1>1. /\ DropsDebug(config, {use})
           <=> (name \in DOMAIN config.def /\ config.kind[name] = "filter" /\ signal = "logs" /\ def.debug)
      /\ \A x : DeletedKeys(config, {use}, x) =
           IF x = signal /\ name \in DOMAIN config.def /\ config.kind[name] = "attributes"
           THEN def.deletes ELSE {}
  BY UseEffects DEF use, def
<1>2. output \in [DOMAIN output -> Records] /\ IsFiniteSet(DOMAIN output)
  BY FixtureAssumption, FS_Subset DEF Shape
<1>3. ASSUME Quiet, output' = output, \E W : warn(W) /\ "log volume" \notin W
      PROVE  /\ output' = Simulation(config, {use}, output)
             /\ volume \in warnings' <=> volume \in warnings
  BY <1>2, <1>3, NoEffect DEF warn, volume
<1>4. CASE Undefined
  <2>1. Quiet /\ output' = output /\ warn({"undefined"})
    BY <1>1, <1>4 DEF Undefined
  <2>. QED BY <1>2, <1>3, <2>1
<1>5. CASE NoContentEffect
  <2>1. Quiet /\ output' = output /\ warnings' = warnings
    BY <1>1, <1>5 DEF NoContentEffect, isKind, applies
  <2>2. output' = Simulation(config, {use}, output)
    BY <1>2, <2>1, NoEffect
  <2>. QED BY <1>2, <2>1, <2>2
<1>6. CASE NoDeletes
  <2>1. def.matches \subseteq {"include", "exclude"}
    BY <1>6, ConfigAssumption DEF NoDeletes, isKind, applies, def, Shape
  <2>2. Quiet /\ output' = output /\ warn(def.matches \cup {"only deletes"})
    BY <1>1, <1>6 DEF NoDeletes, isKind
  <2>3. "log volume" \notin def.matches \cup {"only deletes"}
    BY <2>1
  <2>. QED BY <1>2, <1>3, <2>2, <2>3
<1>7. CASE FilterOther
  <2>1. Quiet /\ output' = output /\ warn({"not simulated"})
    BY <1>1, <1>7 DEF FilterOther, isKind
  <2>. QED BY <1>2, <1>3, <2>1
<1>8. CASE Other
  <2>1. Quiet /\ output' = output /\ warn({"not simulated"})
    BY <1>1, <1>8 DEF Other, isKind
  <2>. QED BY <1>2, <1>3, <2>1
<1>9. CASE DeleteAttributes
  <2>1. /\ output' = removeAttributesForSignal(output, def.deletes)
        /\ warn(def.matches) /\ name \in DOMAIN config.def /\ config.kind[name] = "attributes"
    BY <1>9 DEF DeleteAttributes, isKind, applies
  <2>2. ~DropsDebug(config, {use})
    BY <1>1, <2>1
  <2>3. \A x : DeletedKeys(config, {use}, x) = IF x = signal THEN def.deletes ELSE {}
    BY <1>1, <2>1
  <2>4. output' = Simulation(config, {use}, output)
    BY <1>2, <2>1, <2>2, <2>3, NoRemoval DEF removeAttributesForSignal, Simulation
  <2>5. /\ DOMAIN output' = DOMAIN output
        /\ output' \in [DOMAIN output' -> Records]
        /\ \A i \in DOMAIN output : /\ output'[i].signal = output[i].signal
                                    /\ isDebug(output'[i]) <=> isDebug(output[i])
    BY <1>2, <2>1, KeptRecord DEF removeAttributesForSignal
  <2>6. overFiltered(output') <=> overFiltered(output)
    BY <2>5, SameVolume
  <2>7. def.matches \subseteq {"include", "exclude"}
    BY <2>1, ConfigAssumption DEF def, Shape
  <2>8. volume \in warnings' <=> volume \in warnings
    BY <2>1, <2>7 DEF warn, volume
  <2>. QED BY <2>2, <2>4, <2>5, <2>6, <2>8
<1>10. CASE FilterDebugLogs
  <2>1. /\ output' = filterDebugLogs(output)
        /\ warnings' = warnings \cup {<<"partial filter", name>>}
             \cup (IF overFiltered(output) THEN {volume} ELSE {})
        /\ name \in DOMAIN config.def /\ config.kind[name] = "filter" /\ signal = "logs" /\ def.debug
    BY <1>10 DEF FilterDebugLogs, isKind, applies, volume
  <2>2. DropsDebug(config, {use}) /\ \A x : DeletedKeys(config, {use}, x) = {}
    BY <1>1, <2>1
  <2>3. output' = Simulation(config, {use}, output)
    BY <1>2, <2>1, <2>2, NoRemoval DEF filterDebugLogs, Simulation
  <2>4. DOMAIN output' \subseteq DOMAIN output /\ output' \in [DOMAIN output' -> Records]
    BY <1>2, <2>1 DEF filterDebugLogs
  <2>5. ~overFiltered(output')
    BY <1>2, <2>1, FilteredOnce
  <2>6. volume \in warnings' <=> (volume \in warnings \/ overFiltered(output))
    BY <2>1 DEF volume
  <2>. QED BY <2>2, <2>3, <2>4, <2>5, <2>6
<1>. QED BY <1>4, <1>5, <1>6, <1>7, <1>8, <1>9, <1>10 DEF Processor
-----------------------------------------------------------------------------
(* The invariant                                                           *)

LEMMA InitInv == Init => Inv /\ Rest = Uses(config)
<1>. SUFFICES ASSUME Init PROVE Inv /\ Rest = Uses(config)
  OBVIOUS
<1>1. config \in Configs /\ fixture \in Fixtures /\ at = 0 /\ queue = <<>> /\ output = fixture
      /\ warnings = {} /\ unread = Pipelines
  BY DEF Init
<1>2. Shape
  <2>1. used \in [Signals -> Seq(Names)]
    <3>1. <<>> \in Seq(Names) /\ config.sorted \in Seq(Names)
      BY <1>1, ConfigAssumption DEF Names
    <3>. QED BY <3>1 DEF Init
  <2>2. fixture \in [DOMAIN fixture -> Records]
    BY <1>1, FixtureAssumption
  <2>. QED BY <1>1, <2>1, <2>2, Order DEF Shape
<1>3. Rest = Uses(config)
  <2>1. ASSUME NEW u \in Signals \X Names
        PROVE  u \in Rest <=> u \in Uses(config)
    <3>1. u[1] \in Signals /\ u[2] \in Names /\ Els(queue) = {}
      BY <1>1, ElsEmpty
    <3>2. \E j \in DOMAIN SignalOrder : j > at /\ SignalOrder[j] = u[1]
      BY <1>1, <3>1, Order
    <3>3. used[u[1]] = IF Pipelines = {} /\ u[1] \in seenSignals THEN config.sorted ELSE <<>>
      BY <3>1 DEF Init
    <3>4. CASE Pipelines = {}
      <4>1. seenSignals = Signals \ {"profiles"} /\ Els(config.sorted) = DOMAIN config.def
        BY <1>1, <3>4, ConfigAssumption DEF seenSignals, Els
      <4>. QED BY <1>1, <3>1, <3>2, <3>3, <3>4, <4>1, ElsEmpty DEF Rest, Uses, Pipelines, Names
    <3>5. CASE Pipelines # {}
      BY <1>1, <3>1, <3>3, <3>5, ElsEmpty DEF Rest, Uses, Pipelines, Names, Els
    <3>. QED BY <3>4, <3>5
  <2>. QED BY <2>1 DEF Rest, Uses, Names
<1>. QED BY <1>1, <1>2, <1>3 DEF Inv, Forward

\* Reading the pipelines moves the uses, and loses none.
LEMMA JoinStep ==
  ASSUME Inv, NEW p \in unread, Join(p)
  PROVE  Inv' /\ Rest' = Rest
<1>1. /\ unread' = unread \ {p} /\ unread \subseteq Pipelines /\ at = 0 /\ p \in Pipelines
      /\ used' = [used EXCEPT ![config.pipelines[p].signal] = @ \o config.pipelines[p].chain]
      /\ config' = config /\ fixture' = fixture /\ at' = at /\ queue' = queue
      /\ output' = output /\ warnings' = warnings
  BY DEF Inv, Shape, Join, input, result
<1>. DEFINE s == config.pipelines[p].signal
            c == config.pipelines[p].chain
<1>2. s \in Signals /\ c \in Seq(Names)
  BY <1>1, ConfigAssumption DEF Inv, Shape, Pipelines, Names
<1>. HIDE DEF s, c
<1>3. used \in [Signals -> Seq(Names)] /\ used' = [used EXCEPT ![s] = @ \o c]
  BY <1>1 DEF Inv, Shape, s, c
<1>4. used' \in [Signals -> Seq(Names)]
  BY <1>2, <1>3
<1>5. \A x \in Signals : Els(used'[x]) = IF x = s THEN Els(used[x]) \cup Els(c) ELSE Els(used[x])
  <2>1. used[s] \in Seq(Names) /\ used'[s] = used[s] \o c
    BY <1>2, <1>3
  <2>2. Els(used'[s]) = Els(used[s]) \cup Els(c)
    BY <1>2, <2>1, ElsConcat
  <2>3. \A x \in Signals : x # s => used'[x] = used[x]
    BY <1>2, <1>3
  <2>. QED BY <2>2, <2>3
<1>6. Shape'
  BY <1>1, <1>4 DEF Inv, Shape, Names, Pipelines
<1>7. \A x \in Signals : \E j \in DOMAIN SignalOrder : j > at /\ SignalOrder[j] = x
  BY <1>1, Order
<1>8. Rest' = Rest
  <2>1. ASSUME NEW u \in Signals \X Names
        PROVE  u \in Rest' <=> u \in Rest
    <3>1. u[1] \in Signals
      OBVIOUS
    <3>2. u \in Rest <=> \/ u[1] = SignalOrder[at] /\ u[2] \in Els(queue)
                         \/ u[2] \in Els(used[u[1]])
                         \/ \E q \in unread : config.pipelines[q].signal = u[1]
                                              /\ u[2] \in Els(config.pipelines[q].chain)
      BY <1>7, <3>1 DEF Rest
    <3>3. u \in Rest' <=> \/ u[1] = SignalOrder[at] /\ u[2] \in Els(queue)
                          \/ u[2] \in Els(used'[u[1]])
                          \/ \E q \in unread \ {p} : config.pipelines[q].signal = u[1]
                                                     /\ u[2] \in Els(config.pipelines[q].chain)
      BY <1>1, <1>7, <3>1 DEF Rest, Names
    <3>. QED BY <1>5, <3>1, <3>2, <3>3 DEF s, c
  <2>. QED BY <1>1, <2>1 DEF Rest, Names
<1>. QED BY <1>1, <1>6, <1>8 DEF Inv, Forward

LEMMA NextSignalStep ==
  ASSUME Inv, NextSignal
  PROVE  Inv' /\ Rest' = Rest
<1>1. /\ unread = {} /\ queue = <<>> /\ at \in 0..4 /\ at' = at + 1
      /\ queue' = IF at' \in 1..4 THEN used[SignalOrder[at']] ELSE <<>>
      /\ config' = config /\ fixture' = fixture /\ used' = used /\ output' = output
      /\ unread' = unread
  <2>1. at \in 0..4
    <3>1. at \in 0..5
      BY Order DEF Inv, Shape
    <3>2. at # 5
      <4>1. ~finished
        BY DEF NextSignal
      <4>2. Len(SignalOrder) + 1 = 5
        BY Order
      <4>. QED BY <4>1, <4>2 DEF finished
    <3>. QED BY <3>1, <3>2
  <2>2. queue' = IF at' \in 1..4 THEN used[SignalOrder[at']] ELSE <<>>
    BY Order DEF NextSignal
  <2>. QED BY <2>1, <2>2 DEF NextSignal, input
<1>2. volume \in warnings' <=> volume \in warnings
  BY DEF NextSignal, volume
<1>3. queue' \in Seq(Names)
  BY <1>1, Order DEF Inv, Shape
<1>4. Shape'
  BY <1>1, <1>3, Order DEF Inv, Shape, Names, Pipelines
<1>5. Rest' = Rest
  <2>1. ASSUME NEW u \in Signals \X Names
        PROVE  u \in Rest' <=> u \in Rest
    <3>1. u[1] \in Signals
      OBVIOUS
    <3>2. u \in Rest <=> u[2] \in Els(used[u[1]]) /\ \E j \in 1..4 : j > at /\ SignalOrder[j] = u[1]
      BY <1>1, ElsEmpty, Order DEF Rest
    <3>3. u \in Rest' <=> \/ u[1] = SignalOrder[at'] /\ u[2] \in Els(queue')
                          \/ u[2] \in Els(used[u[1]]) /\ \E j \in 1..4 : j > at' /\ SignalOrder[j] = u[1]
      BY <1>1, Order DEF Rest, Names
    <3>4. CASE at' \in 1..4
      BY <1>1, <3>1, <3>2, <3>3, <3>4, Order
    <3>5. CASE at' = 5
      BY <1>1, <3>1, <3>2, <3>3, <3>5, Order, ElsEmpty
    <3>. QED BY <1>1, <3>4, <3>5
  <2>. QED BY <1>1, <2>1 DEF Rest, Names
<1>. QED BY <1>1, <1>2, <1>4, <1>5 DEF Inv, Forward

\* Applying one use to the output and taking it off the rest cancel out.
LEMMA ProcessorStep ==
  ASSUME Inv, Processor
  PROVE  Inv'
<1>1. queue # <<>> /\ done
  BY DEF Processor, Undefined, NoContentEffect, DeleteAttributes, NoDeletes, FilterDebugLogs,
         FilterOther, Other, isKind, applies
<1>2. /\ Rest = Rest' \cup {use} /\ at \in 1..4 /\ queue' \in Seq(Names)
  BY <1>1, RestTakes DEF Inv
<1>3. config' = config /\ fixture' = fixture /\ unread' = unread /\ used' = used /\ at' = at
  BY <1>1 DEF done, input
<1>4. /\ output' = Simulation(config, {use}, output)
      /\ DOMAIN output' \subseteq DOMAIN output
      /\ output' \in [DOMAIN output' -> Records]
  BY <1>1, OneUse DEF Inv
<1>5. Shape'
  BY <1>2, <1>3, <1>4, Order DEF Inv, Shape, Names, Pipelines
<1>6. Simulation(config, Rest', output') = Simulation(config, Rest, output)
  <2>1. Simulation(config, Rest', Simulation(config, {use}, output))
          = Simulation(config, Rest' \cup {use}, output)
    BY Compose DEF Inv, Shape
  <2>. QED BY <1>2, <1>4, <2>1
<1>7. (volume \in warnings' \/ (DropsDebug(config, Rest') /\ overFiltered(output')))
        <=> (volume \in warnings \/ (DropsDebug(config, Rest) /\ overFiltered(output)))
  <2>1. DropsDebug(config, Rest) <=> (DropsDebug(config, Rest') \/ DropsDebug(config, {use}))
    BY <1>2, UnionOfUses
  <2>. QED BY <1>1, <2>1, OneUse DEF Inv
<1>. QED BY <1>3, <1>5, <1>6, <1>7 DEF Inv, Forward

LEMMA StutterStep ==
  ASSUME Inv, UNCHANGED vars
  PROVE  Inv'
BY DEF Inv, Shape, Forward, Rest, Names, Pipelines, vars, input, result

LEMMA Invariance == Spec => []Inv
<1>1. Init => Inv
  BY InitInv
<1>2. Inv /\ [Next]_vars => Inv'
  BY JoinStep, NextSignalStep, ProcessorStep, StutterStep DEF Next
<1>. QED BY <1>1, <1>2, PTL DEF Spec

LEMMA InvDetermines == Inv => OutputDetermined
<1>. SUFFICES ASSUME Inv, finished
              PROVE  /\ output = Simulation(config, Uses(config), fixture)
                     /\ volume \in warnings <=>
                          (DropsDebug(config, Uses(config)) /\ overFiltered(fixture))
  BY DEF OutputDetermined, volume
<1>1. at = 5 /\ queue = <<>> /\ unread = {}
  BY Order DEF Inv, Shape, finished
<1>2. Rest = {}
  BY <1>1, ElsEmpty, Order DEF Rest
<1>3. Simulation(config, Rest, output) = output
  BY <1>2, Compose DEF Inv, Shape
<1>4. ~DropsDebug(config, Rest)
  BY <1>2 DEF DropsDebug, DefinedUses
<1>. QED BY <1>3, <1>4 DEF Inv, Forward

\* For every configuration and fixture, the simulated output and the volume
\* warning do not depend on the order in which the pipelines were read.
THEOREM OrderIrrelevant == Spec => []OutputDetermined
BY Invariance, InvDetermines, PTL

-----------------------------------------------------------------------------
(* The warnings                                                            *)

Warned(n, W) == \E w \in W : w[2] = n

Applied == Uses(config) \ Rest

\* The uses that were applied are accounted for, and warned of where needed.
Accounted ==
  /\ Rest \subseteq Uses(config)
  /\ \A n \in simulated \cup unsupported : \E u \in Uses(config) : u[2] = n
  /\ \A u \in Applied : u[2] \in simulated \cup unsupported
  /\ \A n \in unsupported : Warned(n, warnings)
  /\ \A u \in DefinedUses(config, Applied, "attributes") :
       config.def[u[2]].matches # {} => Warned(u[2], warnings)
  /\ \A u \in DefinedUses(config, Applied, "filter") : Warned(u[2], warnings)

\* What a processor leaves behind besides its output.
LEMMA OneReport ==
  ASSUME Processor
  PROVE  /\ warnings \subseteq warnings'
         /\ simulated' \cup unsupported' = simulated \cup unsupported \cup {name}
         /\ unsupported' # unsupported => unsupported' = unsupported \cup {name} /\ Warned(name, warnings')
         /\ name \in DOMAIN config.def /\ config.kind[name] = "attributes" /\ def.matches # {} =>
              Warned(name, warnings')
         /\ name \in DOMAIN config.def /\ config.kind[name] = "filter" => Warned(name, warnings')
<1>. USE DEF isKind, applies, supports, rejects
<1>1. ASSUME NEW W, NEW k \in W, warn(W) PROVE warnings \subseteq warnings' /\ Warned(name, warnings')
  <2>1. <<k, name>> \in warnings' /\ <<k, name>>[2] = name
    BY <1>1 DEF warn
  <2>. QED BY <1>1, <2>1 DEF warn, Warned
<1>2. CASE Undefined
  BY <1>1, <1>2 DEF Undefined
<1>3. CASE NoContentEffect
  BY <1>3 DEF NoContentEffect
<1>4. CASE DeleteAttributes
  <2>1. warnings \subseteq warnings' /\ (def.matches # {} => Warned(name, warnings'))
    BY <1>1, <1>4 DEF DeleteAttributes, warn
  <2>. QED BY <1>4, <2>1 DEF DeleteAttributes
<1>5. CASE NoDeletes
  <2>1. warnings \subseteq warnings' /\ Warned(name, warnings')
    BY <1>1, <1>5 DEF NoDeletes
  <2>. QED BY <1>5, <2>1 DEF NoDeletes
<1>6. CASE FilterDebugLogs
  <2>1. <<"partial filter", name>> \in warnings' /\ <<"partial filter", name>>[2] = name
    BY <1>6 DEF FilterDebugLogs
  <2>2. warnings \subseteq warnings' /\ Warned(name, warnings')
    BY <1>6, <2>1 DEF FilterDebugLogs, Warned
  <2>. QED BY <1>6, <2>2 DEF FilterDebugLogs
<1>7. CASE FilterOther
  <2>1. warnings \subseteq warnings' /\ Warned(name, warnings')
    BY <1>1, <1>7 DEF FilterOther
  <2>. QED BY <1>7, <2>1 DEF FilterOther
<1>8. CASE Other
  <2>1. warnings \subseteq warnings' /\ Warned(name, warnings')
    BY <1>1, <1>8 DEF Other
  <2>. QED BY <1>8, <2>1 DEF Other
<1>. QED BY <1>2, <1>3, <1>4, <1>5, <1>6, <1>7, <1>8 DEF Processor

LEMMA AccountedStep == Inv /\ Accounted /\ [Next]_vars => Accounted'
<1>. SUFFICES ASSUME Inv, Accounted, [Next]_vars PROVE Accounted'
  OBVIOUS
<1>1. ASSUME Rest' = Rest, warnings \subseteq warnings', UNCHANGED <<config, simulated, unsupported>>
      PROVE  Accounted'
  BY <1>1 DEF Accounted, Applied, Warned, DefinedUses, Uses
<1>2. ASSUME NEW p \in unread, Join(p) PROVE Accounted'
  BY <1>1, <1>2, JoinStep DEF Join, input, result
<1>3. CASE NextSignal
  BY <1>1, <1>3, NextSignalStep DEF NextSignal, input
<1>4. CASE Processor
  <2>1. queue # <<>> /\ done
    BY <1>4 DEF Processor, Undefined, NoContentEffect, DeleteAttributes, NoDeletes, FilterDebugLogs,
           FilterOther, Other, isKind, applies
  <2>2. Rest = Rest' \cup {use} /\ config' = config /\ Uses(config)' = Uses(config)
    BY <2>1, RestTakes DEF Inv, done, input, Uses
  <2>3. use[1] = signal /\ use[2] = name /\ use \in Uses(config)
    BY <2>2 DEF Accounted, use
  <2>4. Applied' \subseteq Applied \cup {use}
    BY <2>2 DEF Applied
  <2>5. Rest' \subseteq Uses(config)
    BY <2>2 DEF Accounted
  <2>6. \A n \in simulated' \cup unsupported' : \E u \in Uses(config) : u[2] = n
    BY <1>4, <2>3, OneReport DEF Accounted
  <2>7. \A u \in Applied' : u[2] \in simulated' \cup unsupported'
    BY <1>4, <2>3, <2>4, OneReport DEF Accounted
  <2>8. \A n : Warned(n, warnings) => Warned(n, warnings')
    BY <1>4, OneReport DEF Warned
  <2>9. \A n \in unsupported' : Warned(n, warnings')
    BY <1>4, <2>8, OneReport DEF Accounted
  <2>10. ASSUME NEW u \in Applied', u[2] \in DOMAIN config.def
         PROVE  /\ config.kind[u[2]] = "attributes" /\ config.def[u[2]].matches # {} => Warned(u[2], warnings')
                /\ config.kind[u[2]] = "filter" => Warned(u[2], warnings')
    <3>1. CASE u = use
      BY <1>4, <2>3, <2>10, <3>1, OneReport DEF def
    <3>2. CASE u \in Applied
      BY <2>8, <2>10, <3>2 DEF Accounted, DefinedUses
    <3>. QED BY <2>4, <3>1, <3>2
  <2>. QED BY <2>2, <2>5, <2>6, <2>7, <2>9, <2>10 DEF Accounted, DefinedUses
<1>5. CASE UNCHANGED vars
  BY <1>1, <1>5 DEF vars, input, result, Rest, Names
<1>. QED BY <1>2, <1>3, <1>4, <1>5 DEF Next

LEMMA AccountedAtFirst == Init => Accounted
<1>. SUFFICES ASSUME Init PROVE Accounted
  OBVIOUS
<1>1. Rest = Uses(config) /\ simulated = {} /\ unsupported = {}
  BY InitInv DEF Init
<1>. QED BY <1>1 DEF Accounted, Applied, DefinedUses

\* For every configuration, every processor in use is accounted for, and none
\* that is left out, or matched or filtered in part, goes without a warning.
THEOREM NothingUnnamed == Spec => []UnsupportedIsWarned
<1>1. Inv /\ Accounted => UnsupportedIsWarned
  <2>. SUFFICES ASSUME Inv, Accounted, finished PROVE UnsupportedIsWarned
    BY DEF UnsupportedIsWarned
  <2>1. Rest = {}
    BY ElsEmpty, Order DEF Inv, Shape, finished, Rest
  <2>2. Applied = Uses(config)
    BY <2>1 DEF Applied
  <2>. QED BY <2>2 DEF Accounted, UnsupportedIsWarned, Warned
<1>. QED BY <1>1, Invariance, AccountedAtFirst, AccountedStep, PTL DEF Spec
=============================================================================
