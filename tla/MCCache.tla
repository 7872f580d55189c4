-------------------------------- MODULE MCCache ---------------------------------
\* Model values for CacheMachine: three geometries that between them have more
\* than one set, more than two ways, both policies and a displacement limit.
EXTENDS CacheMachine

Geometry(btbsize, numways, displacementbits, algorithm) ==
    [btbsize |-> btbsize, numways |-> numways,
     displacementbits |-> displacementbits, algorithm |-> algorithm]

MCGeometries == { Geometry(2, 2, 32, WAY_LRU),
                  Geometry(1, 3, 3, WAY_LRU),
                  Geometry(1, 3, 32, WAY_RROBIN) }

MCAddrs == {0, 1, 2, 4}
MCTargets == {3, 5, 15}
MCGarbage == {1, 15}
================================================================================
