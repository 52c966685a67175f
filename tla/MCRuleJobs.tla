---------------------------- MODULE MCRuleJobs ------------------------------
(***************************************************************************)
(* Instance of RuleJobs for TLC: two weekly timings, one of them with an   *)
(* uneven week, as at a clock change.                                      *)
(***************************************************************************)
EXTENDS RuleJobsCalm

CONSTANTS evening, noon, r1

MCOpens == [t \in Timings |-> IF t = evening THEN {5, 13, 22, 30} ELSE {9, 17, 25, 33}]

=============================================================================
