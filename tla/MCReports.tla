----------------------------- MODULE MCReports -----------------------------
(* One report, run by either of two workers; a search finds up to three    *)
(* ads, one more than a free report analyses.  Reports meet only through   *)
(* the workers that die and start, so the second worker stands for every   *)
(* other report's.                                                         *)
EXTENDS Reports

CONSTANTS w1, w2, r1

MCWorkers == {w1, w2}
MCReportIds == {r1}
=============================================================================
