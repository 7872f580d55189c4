--------------------------------- MODULE MCBtb ----------------------------------
\* Model values for Btb: LRU with a displacement cache of one set and two ways,
\* round robin with a displacement cache of more sets than the main cache, and no
\* displacement cache.
EXTENDS Btb

Geometry(btbsize, numways, displacementbits, algorithm) ==
    [btbsize |-> btbsize, numways |-> numways,
     displacementbits |-> displacementbits, algorithm |-> algorithm]

Config(main, disp, capacity) ==
    [main |-> main, disp |-> disp, capacity |-> capacity]

MCConfigs ==
    { Config(Geometry(2, 2, 32, WAY_LRU), Geometry(1, 2, 3, WAY_LRU), 1),
      Config(Geometry(1, 2, 32, WAY_RROBIN), Geometry(2, 1, 3, WAY_RROBIN), 0),
      Config(Geometry(2, 2, 32, WAY_LRU), Geometry(0, 1, 32, WAY_LRU), -1) }

Branch(addr, next, call, return, target) ==
    [instruction_addr |-> addr, instruction_next_addr |-> next,
     is_call |-> call, is_return |-> return, target |-> target]

\* 0 and 2 branch forward nearby, 4 is indirect (near, far), 6 calls backwards,
\* and 3 returns to the two places.
MCTrace ==
    { Branch(0, 1, FALSE, FALSE, 2),
      Branch(2, 3, FALSE, FALSE, 4),
      Branch(4, 5, FALSE, FALSE, 5),
      Branch(4, 5, FALSE, FALSE, 12),
      Branch(6, 7, TRUE, FALSE, 3),
      Branch(3, 4, FALSE, TRUE, 7) }

MCGarbage == {1, 15}
================================================================================
