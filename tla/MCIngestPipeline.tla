--------------------------- MODULE MCIngestPipeline ---------------------------
(* Instances of IngestPipeline and IngestRetries for TLC. *)
EXTENDS IngestRetries, TLC

(* Events, handlers and workers are each interchangeable; only the runs     *)
(* without temporal properties use this.                                    *)
Interchangeable ==
    Permutations(Events) \cup Permutations(Handlers) \cup Permutations(Workers)
=============================================================================
