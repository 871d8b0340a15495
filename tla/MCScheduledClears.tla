-------------------------- MODULE MCScheduledClears --------------------------
EXTENDS ScheduledClears, TLC
CONSTANTS s1, s2
=============================================================================
