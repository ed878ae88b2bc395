----------------------------- MODULE MCBuffers -----------------------------
\* Buffers for TLC.
EXTENDS Buffers

MCCells == 1..16
=============================================================================
