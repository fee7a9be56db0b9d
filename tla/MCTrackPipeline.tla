-------------------------- MODULE MCTrackPipeline --------------------------
(***************************************************************************)
(* TrackPipeline on small instances.                                       *)
(***************************************************************************)
EXTENDS TrackPipeline, TLC

\* Requests, worker slots and task ids are interchangeable.
Symmetry == Permutations(Callers) \cup Permutations(Workers) \cup Permutations(TaskIds)
=============================================================================
