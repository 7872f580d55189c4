--------------------------------- MODULE MCRas ----------------------------------
\* Model values for RasMachine: no stack, one and two entries, and unlimited;
\* enough calls to bury a frame below the largest of them and come back.
EXTENDS RasMachine

MCCapacities == {-1, 0, 1, 2}
MCReturnAddrs == {5, 7}
================================================================================
