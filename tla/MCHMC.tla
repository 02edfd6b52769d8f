-------------------------------- MODULE MCHMC --------------------------------
EXTENDS HMC

\* Two vaults of different quadrants.
MCVaultOf == [a \in {0, 1} |-> a % 2]
==============================================================================
