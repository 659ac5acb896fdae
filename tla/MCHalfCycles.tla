---------------------------- MODULE MCHalfCycles ----------------------------
EXTENDS HalfCycles, MCPrograms
=============================================================================
