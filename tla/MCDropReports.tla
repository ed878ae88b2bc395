---------------------------- MODULE MCDropReports ----------------------------
\* DropReports for TLC: two reasons, an interval of three ticks.
EXTENDS DropReports
=============================================================================
