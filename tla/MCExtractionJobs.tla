-------------------------- MODULE MCExtractionJobs --------------------------
(* Small instances of ExtractionJobs for TLC.                              *)
EXTENDS ExtractionJobs

CONSTANTS k1, k2, k3, k4, k5

MCFirstTimeline == <<k1, k2, k3, k4>>
=============================================================================
