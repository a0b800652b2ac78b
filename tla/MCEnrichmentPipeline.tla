------------------------ MODULE MCEnrichmentPipeline ------------------------
(***************************************************************************)
(* Instances of EnrichmentPipeline for TLC.                                *)
(***************************************************************************)
EXTENDS EnrichmentPipeline, TLC

\* The default of settings.job_backoff_seconds.
MCBackoff == <<0, 30, 300>>

\* Items, processes and request slots are only ever compared for equality.
\* (Sound for the safety runs; the liveness run does not use it.)
MCSymmetry == Permutations(Items) \cup Permutations(Procs) \cup Permutations(Requests)
=============================================================================
