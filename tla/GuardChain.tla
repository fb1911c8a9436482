----------------------------- MODULE GuardChain -----------------------------
(***************************************************************************)
(* GuardChain.run (app/guards/chain.py): the loop over the guards that      *)
(* stops at the first BLOCK, keeps the smallest REDUCE factor and lets a    *)
(* guard that raises pass (fail-open).                                      *)
(***************************************************************************)
EXTENDS Guards

CONSTANTS Chain,      \* the guards in order, a sequence of names
          Contexts    \* the contexts considered

ASSUME ChainAssumption == Chain \in Seq(GuardNames)
ASSUME ContextsAssumption == Contexts \subseteq Context

VARIABLES ctx,        \* the context dict
          raised,     \* the positions whose evaluate raises
          results,    \* verdicts so far
          combined,   \* combined_reduce, in hundredths
          final       \* the verdict returned, "none" while the loop runs

vars == <<ctx, raised, results, combined, final>>

Init ==
  /\ ctx \in Contexts
  /\ raised \in SUBSET DOMAIN Chain
  /\ results = << >> /\ combined = 100 /\ final = "none"

NextGuard == Len(results) + 1

\* The verdict of the i-th guard: PASS when it raises.
VerdictOf(i) == IF i \in raised THEN Pass ELSE Evaluate(Chain[i], ctx)

Smaller(a, b) == IF a < b THEN a ELSE b

\* Fault: the first REDUCE factor wins instead of the smallest.
RunGuardKeepingFirst ==
  /\ final = "none" /\ NextGuard \in DOMAIN Chain
  /\ LET v == VerdictOf(NextGuard) IN
       /\ results' = Append(results, v)
       /\ combined' = IF v.verdict = "REDUCE" /\ combined = 100 THEN v.factor
                                                               ELSE combined
       /\ final' = IF v.verdict = "BLOCK" THEN "BLOCK" ELSE final
  /\ UNCHANGED <<ctx, raised>>

\* Fault: the factors are added up.
RunGuardAdding ==
  /\ final = "none" /\ NextGuard \in DOMAIN Chain
  /\ LET v == VerdictOf(NextGuard) IN
       /\ results' = Append(results, v)
       /\ combined' = IF v.verdict = "REDUCE" THEN combined + v.factor ELSE combined
       /\ final' = IF v.verdict = "BLOCK" THEN "BLOCK" ELSE final
  /\ UNCHANGED <<ctx, raised>>

\* One iteration: evaluate, append, return on BLOCK, accumulate on REDUCE.
RunGuard ==
  /\ final = "none" /\ NextGuard \in DOMAIN Chain
  /\ LET v == VerdictOf(NextGuard) IN
       /\ results' = Append(results, v)
       /\ combined' = IF v.verdict = "REDUCE" THEN Smaller(combined, v.factor)
                                              ELSE combined
       /\ final' = IF v.verdict = "BLOCK" THEN "BLOCK" ELSE final
  /\ UNCHANGED <<ctx, raised>>

\* Fault: the comparison with 1.0 is not strict.
FinishInclusive ==
  /\ final = "none" /\ NextGuard \notin DOMAIN Chain
  /\ final' = IF combined <= 100 THEN "REDUCE" ELSE "PASS"
  /\ UNCHANGED <<ctx, raised, results, combined>>

\* The loop ran out of guards.
Finish ==
  /\ final = "none" /\ NextGuard \notin DOMAIN Chain
  /\ final' = IF combined < 100 THEN "REDUCE" ELSE "PASS"
  /\ UNCHANGED <<ctx, raised, results, combined>>

\* run() has returned.
Returned == final # "none" /\ UNCHANGED vars

Next == RunGuard \/ Finish \/ Returned

Spec == Init /\ [][Next]_vars

-----------------------------------------------------------------------------

\* The variables keep their types (chain.py).
TypeOK ==
  /\ ctx \in Contexts
  /\ raised \subseteq DOMAIN Chain
  /\ results \in Seq(GuardVerdict)
  /\ combined \in 0..100
  /\ final \in {"none", "PASS", "REDUCE", "BLOCK"}

\* The short-circuiting loop decides what evaluating every guard would, with
\* the raising ones counted as PASS: the order of the guards and the guards
\* skipped after a BLOCK make no difference (GuardChain.run).
VerdictCorrect ==
  final # "none" => final = ChainVerdict({VerdictOf(i) : i \in DOMAIN Chain})

\* The webhook reports results[-1] as the reason of a BLOCK (webhook.py:193):
\* the last result is the blocking one, and the only one.
BlockReasonIsLast ==
  final = "BLOCK" =>
    /\ results # << >>
    /\ \A i \in DOMAIN results : results[i].verdict = "BLOCK" <=> i = Len(results)

\* A REDUCE verdict stands for the strictest reduction any guard asked for
\* (combined_reduce in GuardChain.run).
StrictestReduction ==
  final = "REDUCE" =>
    /\ \E i \in DOMAIN results : results[i] = Reduce(combined)
    /\ \A i \in DOMAIN results : combined <= results[i].factor

\* Past the daily loss limit nothing is traded, whatever the other guards say
\* and whichever of them fail, unless the drawdown guard itself raises.
LossLimitBlocks ==
  /\ final # "none"
  /\ ctx.daily_pnl_r <= MaxDrawdown
  /\ \E i \in DOMAIN Chain \ raised : Chain[i] = "drawdown"
  => final = "BLOCK"

=============================================================================
