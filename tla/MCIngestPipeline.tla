-------------------------- MODULE MCIngestPipeline --------------------------
(* Instances of IngestPipeline for TLC: workers are interchangeable, and so *)
(* are uploads of the same content.                                        *)
EXTENDS IngestPipeline, TLC

MCSameContent == [j \in Job |-> "content"]
MCSymmetry == Permutations(Worker)
MCSymmetryWithJobs == Permutations(Worker) \cup Permutations(Job)
=============================================================================
