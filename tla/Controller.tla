----------------------------- MODULE Controller -----------------------------
(***************************************************************************)
(* What a user of a controller asks for and is shown: the commands of      *)
(* SweepControl, the statistics of TraceStats, and the frequencies that    *)
(* Statistics prints and reads.                                            *)
(***************************************************************************)
EXTENDS SweepControl, TraceStats

\* A frequency that a readback shows is read as the same frequency when the user
\* gives it to another command.
FormatReadsBack == report.kind = "range" => FormatsReadBack
=============================================================================
