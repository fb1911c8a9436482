-------------------------- MODULE GuardChainProofs --------------------------
(***************************************************************************)
(* The guard chain decides, for every chain, every context and every set of *)
(* guards that raise, what evaluating all guards would.                     *)
(***************************************************************************)
EXTENDS GuardChain, TLAPS

USE GuardSettingsAssumption, ChainAssumption, ContextsAssumption

\* A guard that does not raise answers a verdict (guards.py evaluate methods).
LEMMA EvaluateType ==
  ASSUME NEW name \in GuardNames, NEW c \in Context
  PROVE  Evaluate(name, c) \in GuardVerdict
<1> DEFINE V == GuardVerdict
<1>1. Pass \in V /\ Block \in V /\ Reduce(50) \in V /\ Reduce(25) \in V
  BY DEF Pass, Block, Reduce, GuardVerdict
<1>2. MaxDailyTradesGuard(c) \in V
  BY <1>1 DEF MaxDailyTradesGuard, BlockIf
<1>3. DrawdownGuard(c) \in V
  BY <1>1 DEF DrawdownGuard
<1>4. SpreadGuard(c) \in V
  BY <1>1 DEF SpreadGuard, BlockIf
<1>5. MaxATRGuard(c) \in V
  BY <1>1 DEF MaxATRGuard, BlockIf
<1>6. NewsBlackoutGuard(c) \in V
  BY <1>1 DEF NewsBlackoutGuard
<1>7. name \in {"max_daily_trades", "drawdown", "spread", "max_atr", "news_blackout"}
  BY DEF GuardNames, DefaultChain
<1> QED
  BY <1>2, <1>3, <1>4, <1>5, <1>6, <1>7 DEF Evaluate

\* The verdict of every position of the chain, raising or not.
LEMMA VerdictType ==
  ASSUME ctx \in Contexts, NEW i \in DOMAIN Chain
  PROVE  VerdictOf(i) \in GuardVerdict
<1>1. Chain[i] \in GuardNames
  OBVIOUS
<1>2. ctx \in Context
  OBVIOUS
<1>3. Pass \in GuardVerdict
  BY DEF Pass, GuardVerdict
<1> QED
  BY <1>1, <1>2, <1>3, EvaluateType DEF VerdictOf

\* The smaller of two factors reduces when one of them does.
LEMMA SmallerBelow ==
  ASSUME NEW a \in 0..100, NEW b \in 0..100
  PROVE  Smaller(a, b) < 100 <=> a < 100 \/ b < 100
BY DEF Smaller

\* It is one of them and not above either.
LEMMA SmallerLeast ==
  ASSUME NEW a \in 0..100, NEW b \in 0..100
  PROVE  Smaller(a, b) \in 0..100 /\ Smaller(a, b) <= a /\ Smaller(a, b) <= b
BY DEF Smaller

\* THEOREM: the loop's variables keep their types.
THEOREM TypeCorrect == Spec => []TypeOK
<1>1. Init => TypeOK
  BY DEF Init, TypeOK
<1>2. TypeOK /\ [Next]_vars => TypeOK'
  <2> SUFFICES ASSUME TypeOK, [Next]_vars PROVE TypeOK'
    OBVIOUS
  <2> USE DEF TypeOK
  <2>1. CASE RunGuard
    <3>1. VerdictOf(NextGuard) \in GuardVerdict
      BY <2>1, VerdictType DEF RunGuard
    <3> QED
      BY <2>1, <3>1 DEF RunGuard, GuardVerdict, Smaller
  <2>2. CASE Finish
    BY <2>2 DEF Finish
  <2>3. CASE UNCHANGED vars
    BY <2>3 DEF vars
  <2> QED
    BY <2>1, <2>2, <2>3 DEF Next, Returned
<1> QED
  BY <1>1, <1>2, PTL DEF Spec

-----------------------------------------------------------------------------

\* What the loop has done so far: the results are the verdicts of the first
\* guards, none of them blocks unless the loop has returned BLOCK with it, and
\* combined is 100 until a guard reduces.
IInv ==
  /\ Len(results) <= Len(Chain)
  /\ \A i \in 1..Len(results) : results[i] = VerdictOf(i)
  /\ \A i \in 1..Len(results) :
       results[i].verdict = "BLOCK" => final = "BLOCK" /\ i = Len(results)
  /\ combined < 100 <=>
       \E i \in 1..Len(results) : results[i].verdict = "REDUCE" /\ results[i].factor < 100
  /\ final = "BLOCK" => results # << >> /\ results[Len(results)].verdict = "BLOCK"
  /\ final \in {"PASS", "REDUCE"} => Len(results) = Len(Chain)
  /\ final = "REDUCE" => combined < 100
  /\ final = "PASS" => combined = 100

\* One iteration of the loop preserves IInv.
LEMMA RunGuardStep ==
  ASSUME TypeOK, IInv, RunGuard
  PROVE  IInv'
<1> DEFINE n == Len(results) + 1
           v == VerdictOf(n)
<1>1. /\ n \in 1..Len(Chain) /\ final = "none"
      /\ results' = Append(results, v)
      /\ combined' = IF v.verdict = "REDUCE" THEN Smaller(combined, v.factor) ELSE combined
      /\ final' = IF v.verdict = "BLOCK" THEN "BLOCK" ELSE final
      /\ UNCHANGED <<ctx, raised>>
  BY DEF RunGuard, NextGuard
<1>2. v \in GuardVerdict
  BY <1>1, VerdictType DEF TypeOK
<1>3. /\ Len(results') = n
      /\ results'[n] = v
      /\ \A i \in 1..Len(results) : results'[i] = results[i]
  BY <1>1, <1>2 DEF TypeOK
<1>4. \A i : VerdictOf(i)' = VerdictOf(i)
  BY <1>1 DEF VerdictOf
<1> HIDE DEF v
<1>5. \A i \in 1..n : results'[i] = VerdictOf(i)'
  BY <1>3, <1>4 DEF IInv, v, TypeOK
<1>6. \A i \in 1..n : results'[i].verdict = "BLOCK" => final' = "BLOCK" /\ i = n
  BY <1>1, <1>3 DEF IInv, TypeOK
<1>7. combined' < 100 <=>
        \E i \in 1..n : results'[i].verdict = "REDUCE" /\ results'[i].factor < 100
  <2>1. v.factor \in 0..100 /\ combined \in 0..100
    BY <1>2 DEF GuardVerdict, TypeOK
  <2>2. combined' < 100 <=>
          combined < 100 \/ (v.verdict = "REDUCE" /\ v.factor < 100)
    <3>1. CASE v.verdict = "REDUCE"
      <4>1. combined' = Smaller(combined, v.factor)
        BY <1>1, <3>1
      <4>2. Smaller(combined, v.factor) < 100 <=> combined < 100 \/ v.factor < 100
        BY <2>1, SmallerBelow
      <4> QED
        BY <3>1, <4>1, <4>2, Zenon
    <3>2. CASE v.verdict # "REDUCE"
      <4>1. combined' = combined
        BY <1>1, <3>2
      <4> QED
        BY <3>2, <4>1, Zenon
    <3> QED
      BY <3>1, <3>2
  <2> QED
    BY <2>2, <1>3 DEF IInv, TypeOK
<1>8. final' = "BLOCK" => results' # << >> /\ results'[n].verdict = "BLOCK"
  BY <1>1, <1>3
<1>9. final' \in {"none", "BLOCK"}
  BY <1>1
<1> QED
  BY <1>1, <1>3, <1>5, <1>6, <1>7, <1>8, <1>9 DEF IInv

\* The strengthening is inductive.
LEMMA Strengthened == Spec => [](TypeOK /\ IInv)
<1>1. Init => IInv
  BY DEF Init, IInv
<1>2. TypeOK /\ IInv /\ [Next]_vars => IInv'
  <2> SUFFICES ASSUME TypeOK, IInv, [Next]_vars PROVE IInv'
    OBVIOUS
  <2>1. CASE RunGuard
    BY <2>1, RunGuardStep
  <2>2. CASE Finish
    <3>1. Len(results) = Len(Chain)
      BY <2>2 DEF Finish, NextGuard, IInv, TypeOK
    <3>2. final = "none" /\ UNCHANGED <<ctx, raised, results, combined>>
      BY <2>2 DEF Finish
    <3>3. combined \in 0..100 /\ final' = IF combined < 100 THEN "REDUCE" ELSE "PASS"
      BY <2>2 DEF Finish, TypeOK
    <3>4. \A i : VerdictOf(i)' = VerdictOf(i)
      BY <3>2 DEF VerdictOf
    <3> QED
      BY <3>1, <3>2, <3>3, <3>4 DEF IInv
  <2>3. CASE UNCHANGED vars
    BY <2>3 DEF vars, IInv, VerdictOf
  <2> QED
    BY <2>1, <2>2, <2>3 DEF Next, Returned
<1> QED
  BY <1>1, <1>2, TypeCorrect, PTL DEF Spec

\* THEOREM: short-circuiting, fail-open and the running minimum together give
\* the verdict that evaluating every guard of the chain would give.
THEOREM ChainIsCorrect == Spec => []VerdictCorrect
<1>1. TypeOK /\ IInv => VerdictCorrect
  <2> SUFFICES ASSUME TypeOK, IInv, final # "none"
               PROVE  final = ChainVerdict({VerdictOf(i) : i \in DOMAIN Chain})
    BY DEF VerdictCorrect
  <2> DEFINE all == {VerdictOf(i) : i \in DOMAIN Chain}
  <2>1. CASE final = "BLOCK"
    <3>1. Len(results) \in DOMAIN Chain /\ VerdictOf(Len(results)).verdict = "BLOCK"
      BY <2>1 DEF IInv, TypeOK
    <3> QED
      BY <2>1, <3>1 DEF ChainVerdict
  <2>2. CASE final \in {"PASS", "REDUCE"}
    <3>1. Len(results) = Len(Chain) /\ \A i \in DOMAIN Chain : results[i] = VerdictOf(i)
      BY <2>2 DEF IInv
    <3>2. ~ \E v \in all : v.verdict = "BLOCK"
      BY <2>2, <3>1 DEF IInv
    <3>3. combined < 100 <=> \E v \in all : v.verdict = "REDUCE" /\ v.factor < 100
      BY <3>1 DEF IInv
    <3>4. final = IF combined < 100 THEN "REDUCE" ELSE "PASS"
      BY <2>2 DEF IInv
    <3> QED
      BY <3>2, <3>3, <3>4 DEF ChainVerdict
  <2> QED
    BY <2>1, <2>2 DEF TypeOK
<1> QED
  BY <1>1, Strengthened, PTL

\* THEOREM: the reason the webhook reports is the blocking guard's.
THEOREM ReasonIsTheBlocker == Spec => []BlockReasonIsLast
<1>1. TypeOK /\ IInv => BlockReasonIsLast
  BY DEF TypeOK, IInv, BlockReasonIsLast
<1> QED
  BY <1>1, Strengthened, PTL

\* THEOREM: past the daily loss limit nothing is traded, whatever the chain, its
\* order and the guards that raise, if the drawdown guard is in it and does not.
THEOREM LossLimitHolds == Spec => []LossLimitBlocks
<1>1. VerdictCorrect => LossLimitBlocks
  <2> SUFFICES ASSUME VerdictCorrect, final # "none", ctx.daily_pnl_r <= MaxDrawdown,
                      NEW i \in DOMAIN Chain \ raised, Chain[i] = "drawdown"
               PROVE  final = "BLOCK"
    BY DEF LossLimitBlocks
  <2>1. VerdictOf(i).verdict = "BLOCK"
    BY DEF VerdictOf, Evaluate, DrawdownGuard, Block
  <2> QED
    BY <2>1 DEF VerdictCorrect, ChainVerdict
<1> QED
  BY <1>1, ChainIsCorrect, PTL

-----------------------------------------------------------------------------
(* The strictest reduction.                                                  *)

\* Only a REDUCE carries a factor below 1.0 (GuardVerdict's default).
LEMMA FactorOfOthers ==
  ASSUME ctx \in Contexts, NEW i \in DOMAIN Chain
  PROVE  LET v == VerdictOf(i) IN
           IF v.verdict = "REDUCE" THEN v = Reduce(v.factor) ELSE v.factor = 100
<1>1. VerdictOf(i) \in {Pass, Block, Reduce(50), Reduce(25)}
  <2>1. Chain[i] \in {"max_daily_trades", "drawdown", "spread", "max_atr", "news_blackout"}
    BY DEF GuardNames, DefaultChain
  <2> QED
    BY <2>1 DEF VerdictOf, Evaluate, MaxDailyTradesGuard, DrawdownGuard, SpreadGuard,
                MaxATRGuard, NewsBlackoutGuard, BlockIf
<1> QED
  BY <1>1 DEF Pass, Block, Reduce

\* combined is the least factor so far, and below 1.0 it is some guard's own.
Minimum ==
  /\ combined < 100 => \E i \in 1..Len(results) : results[i] = Reduce(combined)
  /\ \A i \in 1..Len(results) : combined <= results[i].factor

\* One iteration keeps the running minimum the least of the factors.
LEMMA MinimumStep ==
  ASSUME TypeOK, Minimum, RunGuard
  PROVE  Minimum'
<1> DEFINE n == Len(results) + 1
           v == VerdictOf(n)
<1>1. /\ n \in 1..Len(Chain)
      /\ results' = Append(results, v)
      /\ combined' = IF v.verdict = "REDUCE" THEN Smaller(combined, v.factor) ELSE combined
  BY DEF RunGuard, NextGuard
<1>2. /\ v \in GuardVerdict
      /\ IF v.verdict = "REDUCE" THEN v = Reduce(v.factor) ELSE v.factor = 100
  BY <1>1, VerdictType, FactorOfOthers DEF TypeOK
<1>3. v.factor \in 0..100 /\ combined \in 0..100
  BY <1>2 DEF TypeOK, GuardVerdict
<1> HIDE DEF v
<1>4. /\ Len(results') = n /\ results'[n] = v
      /\ \A i \in 1..Len(results) : results'[i] = results[i] /\ results[i].factor \in 0..100
  <2>1. results \in Seq(GuardVerdict)
    BY DEF TypeOK
  <2>2. \A w \in GuardVerdict : w.factor \in 0..100
    BY DEF GuardVerdict
  <2>3. \A i \in 1..Len(results) : results[i].factor \in 0..100
    BY <2>1, <2>2
  <2>4. Len(results') = n /\ results'[n] = v /\ \A i \in 1..Len(results) : results'[i] = results[i]
    BY <1>1, <1>2, <2>1
  <2> QED
    BY <2>3, <2>4
<1>5. combined' \in 0..100 /\ combined' <= combined /\ combined' <= v.factor
  <2>1. CASE v.verdict = "REDUCE"
    <3>1. combined' = Smaller(combined, v.factor)
      BY <1>1, <2>1
    <3>2. /\ Smaller(combined, v.factor) \in 0..100
          /\ Smaller(combined, v.factor) <= combined /\ Smaller(combined, v.factor) <= v.factor
      BY <1>3, SmallerLeast
    <3> QED
      BY <3>1, <3>2, Zenon
  <2>2. CASE v.verdict # "REDUCE"
    <3>1. combined' = combined /\ v.factor = 100
      BY <1>1, <1>2, <2>2
    <3> QED
      BY <1>3, <3>1
  <2> QED
    BY <2>1, <2>2
<1>6. \A i \in 1..n : combined' <= results'[i].factor
  <2> SUFFICES ASSUME NEW i \in 1..n PROVE combined' <= results'[i].factor
    OBVIOUS
  <2>1. CASE i = n
    BY <1>4, <1>5, <2>1
  <2>2. CASE i # n
    <3>1. i \in 1..Len(results)
      BY <2>2 DEF TypeOK
    <3> DEFINE f == results[i].factor
    <3>2. combined <= f
      BY <3>1 DEF Minimum
    <3>3. f \in 0..100 /\ results'[i].factor = f
      BY <1>4, <3>1, Zenon
    <3> HIDE DEF f
    <3>4. combined' \in 0..100 /\ combined \in 0..100 /\ combined' <= combined
      BY <1>3, <1>5, Zenon
    <3>5. f \in 0..100
      BY <3>3, Zenon
    <3>6. combined' <= f
      BY ONLY <3>2, <3>4, <3>5
    <3> QED
      BY <3>3, <3>6, Zenon
  <2> QED
    BY <2>1, <2>2
<1>7. combined' < 100 => \E i \in 1..n : results'[i] = Reduce(combined')
  <2> SUFFICES ASSUME combined' < 100 PROVE \E i \in 1..n : results'[i] = Reduce(combined')
    OBVIOUS
  <2>1. CASE combined' = combined
    BY <1>4, <2>1 DEF Minimum, TypeOK
  <2>2. CASE combined' # combined
    <3>1. v.verdict = "REDUCE" /\ combined' = v.factor
      BY <1>1, <2>2 DEF Smaller
    <3>2. n \in 1..n
      BY <1>1
    <3> QED
      BY <1>2, <1>4, <3>1, <3>2
  <2> QED
    BY <2>1, <2>2
<1> QED
  BY <1>4, <1>6, <1>7 DEF Minimum

\* THEOREM: the factor a REDUCE stands for is the strictest any guard asked for.
THEOREM StrictestWins == Spec => []StrictestReduction
<1>1. Init => Minimum
  BY DEF Init, Minimum
<1>2. TypeOK /\ Minimum /\ [Next]_vars => Minimum'
  <2> SUFFICES ASSUME TypeOK, Minimum, [Next]_vars PROVE Minimum'
    OBVIOUS
  <2>1. CASE RunGuard
    BY <2>1, MinimumStep
  <2>2. CASE UNCHANGED <<results, combined>>
    BY <2>2 DEF Minimum
  <2> QED
    BY <2>1, <2>2 DEF Next, Finish, Returned, vars
<1>3. TypeOK /\ IInv /\ Minimum => StrictestReduction
  BY DEF TypeOK, IInv, Minimum, StrictestReduction
<1> QED
  BY <1>1, <1>2, <1>3, TypeCorrect, Strengthened, PTL DEF Spec

-----------------------------------------------------------------------------
(* The chain the webhook builds.                                             *)

\* THEOREM: over the default chain, when no guard raises, the loop returns what
\* the webhook's model takes for the verdict (build_default_chain, run).
THEOREM DefaultChainDecides ==
  ASSUME Chain = DefaultChain
  PROVE  Spec => [](raised = {} /\ final # "none" => final = DefaultVerdict(ctx))
<1>1. VerdictCorrect => (raised = {} /\ final # "none" => final = DefaultVerdict(ctx))
  <2> SUFFICES ASSUME raised = {}
               PROVE  {VerdictOf(i) : i \in DOMAIN Chain} = {Evaluate(name, ctx) : name \in GuardNames}
    BY DEF VerdictCorrect, DefaultVerdict
  <2>1. DOMAIN Chain = 1..5
    BY DEF DefaultChain
  <2>2. \A i \in DOMAIN Chain : VerdictOf(i) = Evaluate(DefaultChain[i], ctx)
    BY DEF VerdictOf
  <2> QED
    BY <2>1, <2>2 DEF GuardNames
<1> QED
  BY <1>1, ChainIsCorrect, PTL

=============================================================================
