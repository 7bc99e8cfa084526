------------------------------ MODULE Backoff ------------------------------
(***************************************************************************)
(* computeBackoff (go/internal/trigger/shim.go): the pause after a failed  *)
(* attempt of a fire.                                                      *)
(***************************************************************************)
EXTENDS Integers

\* One doubling too many.
ComputeBackoffLate(attempt, minBackoff, maxBackoff) ==
  LET doubled[i \in 0..attempt] ==
        IF i = 0 THEN minBackoff
        ELSE IF 2 * doubled[i - 1] >= maxBackoff THEN maxBackoff
        ELSE 2 * doubled[i - 1]
  IN  doubled[attempt]

\* The loop doubles minBackoff attempt-1 times and stops at maxBackoff once a
\* doubled value reaches it; the value it starts with is not compared.
ComputeBackoff(attempt, minBackoff, maxBackoff) ==
  LET doubled[i \in 1..attempt] ==
        IF i = 1 THEN minBackoff
        ELSE IF 2 * doubled[i - 1] >= maxBackoff THEN maxBackoff
        ELSE 2 * doubled[i - 1]
  IN  doubled[attempt]
=============================================================================
