----------------------------- MODULE MCAnalysis -----------------------------
(***************************************************************************)
(* Model-checking values for Analysis.                                      *)
(***************************************************************************)
EXTENDS Analysis

\* Below, at and above the threshold, out of range on both sides, NaN, text.
MCRawConfidences ==
  [kind : {"number"}, value : {-20, 0, 59, 60, 75, 100, 170}]
    \cup [kind : {"nan", "text"}, value : {0}]

=============================================================================
