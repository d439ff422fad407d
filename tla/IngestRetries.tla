---------------------------- MODULE IngestRetries ----------------------------
(***************************************************************************)
(* The ingest pipeline with the delays that it gives to the events it      *)
(* retries.  IngestPipeline only knows whether a delay has passed.         *)
(***************************************************************************)
EXTENDS IngestPipeline, RetryBackoff

(* Whatever attempt an actor has in hand when it records a failure, also one *)
(* that lost attempts have raised far, the delay to the next attempt lies    *)
(* between the two configured ones and is not shorter than the one before.   *)
RetryDelayIsBounded ==
    \A a \in Actors : pc[a] = "record" =>
        \A d \in AcceptedDelays :
            LET n == item[a].attempt
                delay == Backoff(n, d.base, d.max)
            IN  /\ delay \in d.base .. d.max
                /\ n > 1 => delay >= Backoff(n - 1, d.base, d.max)
=============================================================================
