----------------------------- MODULE RetryBackoff -----------------------------
(***************************************************************************)
(* The delay before a retry (ingest.Service.backoffForAttempt), computed   *)
(* with durations that wrap.                                               *)
(***************************************************************************)
EXTENDS Integers

CONSTANT Quarter   \* a quarter of the durations there are: 2^62 of 2^64 ns

ASSUME QuarterAssumption == Quarter \in Nat \ {0}

(* time.Duration, a signed integer *)
Wrapped(d) == ((d + 2 * Quarter) % (4 * Quarter)) - 2 * Quarter

(* Mutant: the delay is only cut to the maximum when it is returned. *)
BackoffCutAtTheEnd(attempt, base, max) ==
  LET doubled[n \in 1 .. attempt] ==
        IF n = 1 THEN base ELSE Wrapped(2 * doubled[n - 1])
  IN  IF doubled[attempt] >= max THEN max ELSE doubled[attempt]

(* The delay of attempt n from the last one, the maximum once it is reached; *)
(* from then on it is not doubled again.                                     *)
NextDelay(n, last, max) ==
  LET next == Wrapped(2 * last)
  IN  IF (n > 2 /\ last = max) \/ next >= max THEN max ELSE next

(* The delay is doubled for each attempt after the first, up to the maximum. *)
Backoff(attempt, base, max) ==
  LET count == IF attempt < 1 THEN 1 ELSE attempt
      delay[n \in 1 .. count] == IF n = 1 THEN base ELSE NextDelay(n, delay[n - 1], max)
  IN  delay[count]

(* What LoadFromEnv accepts, as far as the maximum is less than a quarter of *)
(* the range of durations (2^62 ns, 146 years): with a maximum above that a  *)
(* delay may turn negative.                                                  *)
AcceptedDelays ==
  {d \in [base : 1 .. Quarter - 1, max : 1 .. Quarter - 1] : d.base =< d.max}
=============================================================================
