--------------------------------- MODULE MCFarm ----------------------------------
\* Model values for JobFarm: three jobs, so that a child can die while another
\* is served and a third waits, and two machines.
EXTENDS JobFarm

CONSTANTS w1, w2

MCWorkers == {w1, w2}
================================================================================
