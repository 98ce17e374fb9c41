------------------------------- MODULE Scoring -------------------------------
(***************************************************************************)
(* The rules of the model service (internal/scoring/scoring.go), with the  *)
(* score in hundredths.  Every weight is a whole number of hundredths, so  *)
(* the rounding of the Go code undoes the error of its float additions and *)
(* the integer sum is what it returns.                                     *)
(***************************************************************************)
EXTENDS Integers

baseScore == 5
maxScore  == 100

\* strconv.ParseBool with its error ignored: any other text reads as false.
ParseBool(s) == s \in {"1", "t", "T", "TRUE", "true", "True"}

\* A mutation: a missing policy status is ignored instead of read as riskiest.
MutStatusWeight(policyStatus) ==
  CASE policyStatus = "lapsed" -> 15 [] policyStatus = "cancelled" -> 25
    [] policyStatus = "unknown" -> 30 [] OTHER -> 0

StatusWeight(policyStatus) ==
  CASE policyStatus = "active"    -> 0
    [] policyStatus = "lapsed"    -> 15
    [] policyStatus = "cancelled" -> 25
    [] OTHER                      -> 30

\* The score of a feature map; only these three features are read.
Score(features) ==
  LET total == baseScore
               + StatusWeight(features.policy_status)
               + (IF features.policy_coverage_type = "" THEN 5 ELSE 0)
               + (IF ParseBool(features.address_valid) THEN 0 ELSE 10)
  IN  IF total > maxScore THEN maxScore ELSE total
=============================================================================
