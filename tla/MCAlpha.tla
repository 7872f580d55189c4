-------------------------------- MODULE MCAlpha ---------------------------------
\* Model values for AlphaMachine.  Two slots of local history: 4 and 6 share one,
\* as all branches do that agree in their low address bits, and 5 has the other.
EXTENDS AlphaMachine

MCAddrs == {4, 5, 6}
================================================================================
