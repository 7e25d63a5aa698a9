-------------------------- MODULE CaptureSinkProofs --------------------------
(***************************************************************************)
(* Safety of CaptureSink for every set of requests, every size and every   *)
(* limit, and that it implements CapturePromise.                           *)
(***************************************************************************)
EXTENDS CaptureSink, FiniteSetTheorems, TLAPS

\* Every variable keeps to its type; the counters stay natural numbers.
THEOREM TypeCorrect == Spec => []TypeOK
<1> USE SizesAssumption DEF TypeOK, Categories
<1>1. Init => TypeOK
  BY DEF Init
<1>2. TypeOK /\ [Next]_vars => TypeOK'
  <2> SUFFICES ASSUME TypeOK, [Next]_vars PROVE TypeOK'
    OBVIOUS
  <2> USE DEF counters, failLocked, failed
  <2>1. CASE ServeNext
    BY <2>1 DEF ServeNext, ServeStarts, ServeFails, ServeReturns
  <2>2. ASSUME NEW r \in Requests, Begin(r) PROVE TypeOK'
    BY <2>2 DEF Begin
  <2>3. ASSUME NEW r \in Requests, ExportStores(r) PROVE TypeOK'
    <3>1. Size[r] \in Nat /\ Items[r] \in Nat
      OBVIOUS
    <3>2. bytes' \in Nat /\ items' \in Nat /\ requests' \in Nat
      BY <2>3, <3>1 DEF ExportStores
    <3> QED BY <2>3, <3>2 DEF ExportStores
  <2>4. ASSUME NEW r \in Requests, ExportRefuses(r) PROVE TypeOK'
    BY <2>4 DEF ExportRefuses
  <2>5. ASSUME NEW r \in Requests, End(r) PROVE TypeOK'
    BY <2>5 DEF End, EndOk, EndExhausted, EndBroken
  <2>6. CASE CloseCall \/ GracefulReturns \/ CloseNext
    BY <2>6 DEF CloseCall, GracefulReturns, CloseNext, CloseTimeout, CloseDone, CloseServed
  <2>7. CASE UNCHANGED vars
    BY <2>7 DEF vars
  <2> QED BY <2>1, <2>2, <2>3, <2>4, <2>5, <2>6, <2>7 DEF Next, Handler
<1> QED BY <1>1, <1>2, PTL DEF Spec

-----------------------------------------------------------------------------

\* reserve checks before it counts, under the mutex, so no number of
\* concurrent handlers passes a limit.
THEOREM LimitsHold == Spec => []LimitsKept
<1> USE SizesAssumption
<1>1. Init => LimitsKept
  BY DEF Init, LimitsKept
<1>2. TypeOK /\ LimitsKept /\ [Next]_vars => LimitsKept'
  <2> SUFFICES ASSUME TypeOK, LimitsKept, [Next]_vars PROVE LimitsKept'
    OBVIOUS
  <2> USE DEF LimitsKept, counters
  <2>1. ASSUME UNCHANGED <<raw, counters>> PROVE LimitsKept'
    BY <2>1
  <2>2. ASSUME NEW r \in Requests, ExportStores(r) PROVE LimitsKept'
    BY <2>2 DEF ExportStores, Fits
  <2>3. CASE ServeNext \/ CloseCall \/ GracefulReturns \/ CloseNext \/ UNCHANGED vars
    BY <2>1, <2>3 DEF ServeNext, ServeStarts, ServeFails, ServeReturns, CloseCall,
       GracefulReturns, CloseNext, CloseTimeout, CloseDone, CloseServed, vars
  <2>4. ASSUME NEW r \in Requests, Begin(r) \/ ExportRefuses(r) \/ End(r) PROVE LimitsKept'
    BY <2>1, <2>4 DEF Begin, ExportRefuses, End, EndOk, EndExhausted, EndBroken
  <2> QED BY <2>2, <2>3, <2>4 DEF Next, Handler
<1> QED BY <1>1, <1>2, TypeCorrect, PTL DEF Spec

-----------------------------------------------------------------------------
(* The strengthening behind the promise: while nothing failed, a request   *)
(* is stored exactly when its handler has run; a drained server has no     *)
(* stream in flight; close() ends only after the drain and after Serve.    *)

PromiseInv ==
  /\ \A r \in Requests : rpc[r] = "idle" => r \notin raw
  /\ \A r \in Requests : rpc[r] = "begun" => r \notin raw
  /\ \A r \in Requests : rpc[r] = "stored" => r \in raw
  /\ \A r \in Requests : rpc[r] = "refused" => failed
  /\ ~failed => \A r \in Requests : rpc[r] = "ended" => r \in raw
  /\ server = "drained" => InFlight = {} /\ accept # "serving"
  /\ closing \in {"served", "closed"} => server = "drained"
  /\ closing = "closed" => accept = "returned"
  /\ closing = "open" <=> server = "up"

LEMMA PromiseInvariant == Spec => [](TypeOK /\ PromiseInv)
<1>1. Init => PromiseInv
  BY DEF Init, PromiseInv
<1>2. TypeOK /\ PromiseInv /\ [Next]_vars => PromiseInv'
  <2> SUFFICES ASSUME TypeOK, PromiseInv, [Next]_vars PROVE PromiseInv'
    OBVIOUS
  <2> USE DEF PromiseInv, InFlight, failed
  <2>1. CASE ServeNext
    <3>1. CASE ServeStarts
      BY <2>1, <3>1 DEF ServeStarts
    <3>2. CASE ServeFails
      BY <2>1, <3>2 DEF ServeFails, failLocked
    <3>3. CASE ServeReturns
      BY <2>1, <3>3 DEF ServeReturns
    <3> QED BY <2>1, <3>1, <3>2, <3>3 DEF ServeNext
  <2>2. ASSUME NEW r \in Requests, Begin(r) PROVE PromiseInv'
    BY <2>2 DEF Begin, TypeOK
  <2>3. ASSUME NEW r \in Requests, ExportStores(r) PROVE PromiseInv'
    BY <2>3 DEF ExportStores, TypeOK
  <2>4. ASSUME NEW r \in Requests, ExportRefuses(r) PROVE PromiseInv'
    BY <2>4 DEF ExportRefuses, failLocked, TypeOK
  <2>5. ASSUME NEW r \in Requests, EndOk(r) PROVE PromiseInv'
    BY <2>5 DEF EndOk, TypeOK
  <2>6. ASSUME NEW r \in Requests, EndExhausted(r) PROVE PromiseInv'
    BY <2>6 DEF EndExhausted, failLocked, TypeOK
  <2>7. ASSUME NEW r \in Requests, EndBroken(r) PROVE PromiseInv'
    BY <2>7 DEF EndBroken, failLocked, TypeOK
  <2>8. CASE CloseCall
    BY <2>8 DEF CloseCall
  <2>9. CASE GracefulReturns
    BY <2>9 DEF GracefulReturns
  <2>10. CASE CloseNext
    <3>1. CASE CloseTimeout
      BY <3>1 DEF CloseTimeout, failLocked
    <3>2. CASE CloseDone \/ CloseServed
      BY <3>2 DEF CloseDone, CloseServed
    <3> QED BY <2>10, <3>1, <3>2 DEF CloseNext
  <2>11. CASE UNCHANGED vars
    BY <2>11 DEF vars
  <2> QED BY <2>1, <2>2, <2>3, <2>4, <2>5, <2>6, <2>7, <2>8, <2>9, <2>10, <2>11
      DEF Next, Handler, End
<1> QED BY <1>1, <1>2, TypeCorrect, PTL DEF Spec

\* A capture closed without a failure holds every request that began.
THEOREM NothingLostSilently == Spec => []NoSilentLoss
<1>1. TypeOK /\ PromiseInv => NoSilentLoss
  BY DEF PromiseInv, NoSilentLoss, Begun, InFlight, TypeOK
<1> QED BY <1>1, PromiseInvariant, PTL

-----------------------------------------------------------------------------

\* The server with its three handlers, its RPC endings and its two-step close
\* implements the promise that the runner is written against.
THEOREM SinkImplementsPromise == Spec => ImplementsPromise
<1> USE DEF Begun, failed
<1>1. Init => Promise!Init
  BY DEF Init, Promise!Init
<1>2. TypeOK /\ PromiseInv /\ [Next]_vars => [Promise!Next]_(Promise!vars)
  <2> SUFFICES ASSUME TypeOK, PromiseInv, [Next]_vars
               PROVE  [Promise!Next]_(Promise!vars)
    OBVIOUS
  <2> USE DEF Promise!vars, Promise!Next, counters
  <2>1. ASSUME UNCHANGED <<raw, Begun>>, closing # "closed",
               closing' = "closed" => UNCHANGED failure,
               failed => failed', closing' # "closed"
        PROVE  [Promise!Next]_(Promise!vars)
    BY <2>1 DEF Promise!Fail
  <2>2. ASSUME NEW r \in Requests, rpc[r] # "idle", NEW v \in {"stored", "refused", "ended"},
               rpc' = [rpc EXCEPT ![r] = v]
        PROVE  UNCHANGED Begun
    BY <2>2 DEF TypeOK
  <2>3. CASE ServeNext
    BY <2>1, <2>3 DEF ServeNext, ServeStarts, ServeFails, ServeReturns, failLocked, PromiseInv
  <2>4. ASSUME NEW r \in Requests, Begin(r) PROVE [Promise!Next]_(Promise!vars)
    <3>1. Begun' = Begun \cup {r} /\ r \notin Begun
      BY <2>4 DEF Begin, TypeOK
    <3>2. closing # "closed" /\ UNCHANGED <<raw, failure, closing>>
      BY <2>4 DEF Begin, PromiseInv
    <3> QED BY <3>1, <3>2 DEF Promise!Begin
  <2>5. ASSUME NEW r \in Requests, rpc[r] \in {"begun", "stored", "refused"}
        PROVE  closing # "closed"
    BY <2>5 DEF PromiseInv, InFlight
  <2>6. ASSUME NEW r \in Requests, ExportStores(r) PROVE [Promise!Next]_(Promise!vars)
    <3>1. UNCHANGED Begun /\ r \in Begun \ raw
      BY <2>2, <2>6 DEF ExportStores, PromiseInv
    <3>2. closing # "closed" /\ ~failed /\ UNCHANGED <<failure, closing>>
      BY <2>5, <2>6 DEF ExportStores
    <3> QED BY <2>6, <3>1, <3>2 DEF ExportStores, Promise!Take
  <2>7. ASSUME NEW r \in Requests, ExportRefuses(r) \/ End(r)
        PROVE  [Promise!Next]_(Promise!vars)
    <3>1. UNCHANGED <<raw, closing>> /\ (failed => failed')
      BY <2>7 DEF ExportRefuses, End, EndOk, EndExhausted, EndBroken, failLocked
    <3>2. UNCHANGED Begun
      BY <2>2, <2>7 DEF ExportRefuses, End, EndOk, EndExhausted, EndBroken
    <3>3. closing # "closed"
      BY <2>5, <2>7 DEF ExportRefuses, End, EndOk, EndExhausted, EndBroken
    <3> QED BY <2>1, <3>1, <3>2, <3>3
  <2>8. CASE CloseCall \/ GracefulReturns \/ CloseTimeout \/ CloseDone
    BY <2>1, <2>8 DEF CloseCall, GracefulReturns, CloseTimeout, CloseDone, failLocked, PromiseInv
  <2>9. CASE CloseServed
    <3>1. failed \/ raw = Begun
      BY <2>9 DEF CloseServed, PromiseInv, InFlight, TypeOK
    <3> QED BY <2>9, <3>1 DEF CloseServed, Promise!Seal
  <2>10. CASE UNCHANGED vars
    BY <2>10 DEF vars
  <2> QED BY <2>3, <2>4, <2>6, <2>7, <2>8, <2>9, <2>10 DEF Next, Handler, CloseNext
<1> QED BY <1>1, <1>2, PromiseInvariant, PTL DEF Spec, ImplementsPromise, Promise!Spec

\* What close() returns is final: a late handler, an RPC that ends later and
\* Serve's own return change nothing any more; and a failure stops the capture
\* where it is.
THEOREM SinkIsFinal == Spec => Promise!ClosedIsFinal /\ Promise!FailureIsFinal
<1>1. [Promise!Next]_(Promise!vars) => [~(closing = "closed")]_(Promise!vars)
  BY DEF Promise!Next, Promise!Begin, Promise!Take, Promise!Fail, Promise!Seal
<1>2. [Promise!Next]_(Promise!vars) => [failed => failed' /\ raw' = raw]_(Promise!vars)
  BY DEF Promise!Next, Promise!Begin, Promise!Take, Promise!Fail, Promise!Seal
<1>3. Promise!Spec => Promise!ClosedIsFinal
  BY <1>1, PTL DEF Promise!Spec, Promise!ClosedIsFinal
<1>4. Promise!Spec => Promise!FailureIsFinal
  BY <1>2, PTL DEF Promise!Spec, Promise!FailureIsFinal
<1> QED BY <1>3, <1>4, SinkImplementsPromise DEF ImplementsPromise
-----------------------------------------------------------------------------
(* The counters.  The sum of the weights of a set is the cardinality of a  *)
(* set of tokens, so that it grows by the weight of what is stored.        *)

\* The subsets of a finite set are well-founded under inclusion.
LEMMA LeastSubset ==
  ASSUME NEW S, IsFiniteSet(S), NEW B, B \subseteq SUBSET S, B # {}
  PROVE  \E T \in B : \A U \in B : U \subseteq T => U = T
<1> DEFINE R == StrictSubsetOrdering(S)
<1>1. IsWellFoundedOn(R, FiniteSubsetsOf(S))
  BY FS_StrictSubsetOrderingWellFounded
<1>2. B \subseteq FiniteSubsetsOf(S)
  BY FS_Subset DEF FiniteSubsetsOf
<1>3. \A T, U \in B : U \subseteq T /\ U # T => <<U, T>> \in R
  BY DEF StrictSubsetOrdering
<1> HIDE DEF R
<1>4. PICK T \in B : \A U \in B : ~(<<U, T>> \in R)
  BY <1>1, <1>2, WFMin
<1> QED BY <1>3, <1>4

\* One token for every unit of the weight of every element.
Tokens(f, S) == {t \in S \X Nat : t[2] \in 1..f[t[1]]}

\* An element more brings as many tokens as its weight.
LEMMA TokensAdd ==
  ASSUME NEW D, NEW f \in [D -> Nat], NEW T \in SUBSET D, NEW x \in D, x \notin T,
         IsFiniteSet(Tokens(f, T))
  PROVE  /\ IsFiniteSet(Tokens(f, T \cup {x}))
         /\ Cardinality(Tokens(f, T \cup {x})) = f[x] + Cardinality(Tokens(f, T))
<1> DEFINE X == {x} \X (1..f[x])
<1>1. f[x] \in Nat
  OBVIOUS
<1>2. IsFiniteSet(X) /\ Cardinality(X) = f[x]
  <2>1. IsFiniteSet(1..f[x]) /\ Cardinality(1..f[x]) = f[x]
    BY <1>1, FS_Interval
  <2>2. IsFiniteSet({x}) /\ Cardinality({x}) = 1
    BY FS_Singleton
  <2>3. Cardinality({x}) * Cardinality(1..f[x]) = f[x]
    BY <1>1, <2>1, <2>2
  <2> QED BY <2>1, <2>2, <2>3, FS_Product
<1>3. Tokens(f, T \cup {x}) = Tokens(f, T) \cup X
  BY <1>1 DEF Tokens
<1>4. Tokens(f, T) \cap X = {}
  BY DEF Tokens
<1>5. Cardinality(Tokens(f, T)) \in Nat
  BY FS_CardinalityType
<1> HIDE DEF X
<1> DEFINE Y == Tokens(f, T)
<1>6. IsFiniteSet(Y) /\ Y \cap X = {}
  BY <1>4
<1> HIDE DEF Y
<1>7. /\ IsFiniteSet(Y \cup X)
      /\ Cardinality(Y \cup X) = Cardinality(Y) + Cardinality(X) - Cardinality({})
  BY <1>2, <1>6, FS_Union
<1>8. Cardinality({}) = 0
  BY FS_EmptySet
<1>9. Cardinality(Y) \in Nat
  BY <1>5 DEF Y
<1>10. Cardinality(Y \cup X) = f[x] + Cardinality(Y)
  BY <1>1, <1>2, <1>7, <1>8, <1>9
<1>11. Tokens(f, T \cup {x}) = Y \cup X
  BY <1>3 DEF Y
<1>12. IsFiniteSet(Tokens(f, T \cup {x})) /\ Cardinality(Tokens(f, T \cup {x})) = f[x] + Cardinality(Y)
  BY <1>7, <1>10, <1>11
<1> QED BY <1>12 DEF Y

\* By a least counterexample: no set has infinitely many tokens.
LEMMA TokensFinite ==
  ASSUME NEW D, NEW f \in [D -> Nat], NEW S \in SUBSET D, IsFiniteSet(S)
  PROVE  IsFiniteSet(Tokens(f, S))
<1> DEFINE B == {T \in SUBSET S : ~IsFiniteSet(Tokens(f, T))}
<1>1. SUFFICES ASSUME B # {} PROVE FALSE
  OBVIOUS
<1>2. PICK T \in B : \A U \in B : U \subseteq T => U = T
  <2>1. B \subseteq SUBSET S
    OBVIOUS
  <2> HIDE DEF B
  <2> QED BY <1>1, <2>1, LeastSubset
<1>3. CASE T = {}
  <2>1. Tokens(f, {}) = {}
    BY DEF Tokens
  <2> QED BY <1>2, <1>3, <2>1, FS_EmptySet
<1>4. ASSUME NEW x \in T PROVE FALSE
  <2> DEFINE U == T \ {x}
  <2>1. U \in SUBSET S /\ U # T /\ x \notin U /\ T = U \cup {x} /\ x \in D
    BY <1>4
  <2> HIDE DEF U
  <2>2. IsFiniteSet(Tokens(f, U))
    BY <1>2, <2>1
  <2> QED BY <1>2, <2>1, <2>2, TokensAdd
<1> QED BY <1>3, <1>4

\* The fold that adds the weights up counts the tokens: the function that
\* counts them satisfies the recursion, and no two functions differ on a least
\* subset.
LEMMA SumIsTokens ==
  ASSUME NEW D, NEW f \in [D -> Nat], NEW S \in SUBSET D, IsFiniteSet(S)
  PROVE  Total(f, S) = Cardinality(Tokens(f, S))
<1> DEFINE pick(s) == CHOOSE x \in s : TRUE
           W == [s \in SUBSET S |-> Cardinality(Tokens(f, s))]
           IsFold(g) == g = [s \in SUBSET S |-> IF s = {} THEN 0
                                                ELSE f[pick(s)] + g[s \ {pick(s)}]]
           iter == CHOOSE g : IsFold(g)
<1>1. ASSUME NEW s \in SUBSET S, s # {}
      PROVE  /\ pick(s) \in s /\ s \ {pick(s)} \in SUBSET S
             /\ W[s] = f[pick(s)] + W[s \ {pick(s)}]
  <2> DEFINE x == pick(s)
  <2>1. x \in s
    BY <1>1
  <2> HIDE DEF x
  <2> DEFINE U == s \ {x}
  <2>2. U \in SUBSET S /\ U \in SUBSET D /\ x \in D /\ x \notin U /\ s = U \cup {x}
    BY <2>1
  <2>3. IsFiniteSet(Tokens(f, U))
    BY <2>2, FS_Subset, TokensFinite
  <2> HIDE DEF U
  <2>4. Cardinality(Tokens(f, s)) = f[x] + Cardinality(Tokens(f, U))
    BY <2>2, <2>3, TokensAdd
  <2>5. W[s] = f[x] + W[U]
    BY <2>2, <2>4
  <2> QED BY <2>1, <2>2, <2>5 DEF x, U
<1>2. Tokens(f, {}) = {} /\ Cardinality({}) = 0
  BY FS_EmptySet DEF Tokens
<1>3. IsFold(W)
  BY <1>1, <1>2
<1>4. IsFold(iter)
  <2> HIDE DEF IsFold
  <2> QED BY <1>3
<1>5. iter[S] = W[S]
  <2> HIDE DEF iter, W
  <2> DEFINE B == {s \in SUBSET S : iter[s] # W[s]}
  <2>1. SUFFICES ASSUME B # {} PROVE FALSE
    OBVIOUS
  <2>2. PICK s \in B : \A u \in B : u \subseteq s => u = s
    <3>1. B \subseteq SUBSET S
      OBVIOUS
    <3> HIDE DEF B
    <3> QED BY <2>1, <3>1, LeastSubset
  <2>3. s # {}
    BY <1>3, <1>4, <2>2
  <2>4. pick(s) \in s /\ s \ {pick(s)} \in SUBSET S
    BY <1>1, <2>3
  <2>5. iter[s \ {pick(s)}] = W[s \ {pick(s)}]
    BY <2>2, <2>4
  <2> QED BY <1>3, <1>4, <2>2, <2>3, <2>4, <2>5
<1>6. Total(f, S) = iter[S]
  BY DEF Total, MapThenSumSet, MapThenFoldSet
<1> QED BY <1>5, <1>6

LEMMA TotalEmpty ==
  ASSUME NEW D, NEW f \in [D -> Nat]
  PROVE  Total(f, {}) = 0
<1>1. Tokens(f, {}) = {}
  BY DEF Tokens
<1>2. IsFiniteSet({}) /\ Cardinality({}) = 0
  BY FS_EmptySet
<1>3. Total(f, {}) = Cardinality(Tokens(f, {}))
  BY <1>2, SumIsTokens
<1> QED BY <1>1, <1>2, <1>3

LEMMA TotalAdd ==
  ASSUME NEW D, NEW f \in [D -> Nat], NEW S \in SUBSET D, NEW x \in D, x \notin S,
         IsFiniteSet(S)
  PROVE  Total(f, S \cup {x}) = f[x] + Total(f, S)
<1>1. IsFiniteSet(S \cup {x}) /\ S \cup {x} \in SUBSET D
  BY FS_AddElement
<1>2. IsFiniteSet(Tokens(f, S))
  BY TokensFinite
<1>3. Cardinality(Tokens(f, S \cup {x})) = f[x] + Cardinality(Tokens(f, S))
  BY <1>2, TokensAdd
<1>4. Total(f, S) = Cardinality(Tokens(f, S))
  BY SumIsTokens
<1>5. Total(f, S \cup {x}) = Cardinality(Tokens(f, S \cup {x}))
  BY <1>1, SumIsTokens
<1> QED BY <1>3, <1>4, <1>5

\* What the capture holds is finite, however many requests there are, and the
\* limits count exactly that: a handler stores a request once, and neither a
\* refusal nor an RPC that ends badly is charged or given back.
THEOREM CountersExact == Spec => []Accounting
<1> DEFINE IInv == IsFiniteSet(raw) /\ Accounting
<1> USE SizesAssumption
<1>1. Init => IInv
  BY FS_EmptySet, TotalEmpty DEF Init, Accounting
<1>2. TypeOK /\ PromiseInv /\ IInv /\ [Next]_vars => IInv'
  <2> SUFFICES ASSUME TypeOK, PromiseInv, IInv, [Next]_vars PROVE IInv'
    OBVIOUS
  <2>1. ASSUME UNCHANGED <<raw, counters>> PROVE IInv'
    BY <2>1 DEF Accounting, counters
  <2>2. ASSUME NEW r \in Requests, ExportStores(r) PROVE IInv'
    <3>1. raw \in SUBSET Requests /\ r \notin raw /\ IsFiniteSet(raw)
      BY <2>2 DEF ExportStores, PromiseInv, TypeOK
    <3>2. IsFiniteSet(raw \cup {r}) /\ Cardinality(raw \cup {r}) = Cardinality(raw) + 1
      BY <3>1, FS_AddElement
    <3>3. Total(Size, raw \cup {r}) = Size[r] + Total(Size, raw)
      BY <3>1, TotalAdd
    <3>4. Total(Items, raw \cup {r}) = Items[r] + Total(Items, raw)
      BY <3>1, TotalAdd
    <3>5. /\ raw' = raw \cup {r} /\ requests' = requests + 1
          /\ bytes' = bytes + Size[r] /\ items' = items + Items[r]
      BY <2>2 DEF ExportStores
    <3>6. bytes \in Nat /\ items \in Nat /\ Size[r] \in Nat /\ Items[r] \in Nat
      BY DEF TypeOK
    <3> QED BY <3>2, <3>3, <3>4, <3>5, <3>6 DEF Accounting
  <2>3. CASE ServeNext \/ CloseCall \/ GracefulReturns \/ CloseNext \/ UNCHANGED vars
    BY <2>1, <2>3 DEF ServeNext, ServeStarts, ServeFails, ServeReturns, CloseCall,
       GracefulReturns, CloseNext, CloseTimeout, CloseDone, CloseServed, vars
  <2>4. ASSUME NEW r \in Requests, Begin(r) \/ ExportRefuses(r) \/ End(r) PROVE IInv'
    BY <2>1, <2>4 DEF Begin, ExportRefuses, End, EndOk, EndExhausted, EndBroken
  <2> QED BY <2>2, <2>3, <2>4 DEF Next, Handler
<1> QED BY <1>1, <1>2, PromiseInvariant, PTL DEF Spec
=============================================================================
