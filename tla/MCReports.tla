----------------------------- MODULE MCReports -----------------------------
(* Small instances of Reports for TLC.                                      *)
EXTENDS Reports

CONSTANTS beat, button, job1, job2, click
=============================================================================
