SPECIFICATION Spec
CONSTANTS
    Peers <- MCPeers
    Rules <- MCRules
    Seeds <- MCSeeds
    Bodies <- MCBodies
    StartSlots <- ClockOrNot
    Targets <- MCTargets
    Ticks = {1, 2}
    Numbers = {15}
    U64 = 16
    MaxSteps = 4
CHECK_DEADLOCK FALSE
INVARIANT TypeOK
INVARIANT ChainsIncrease
INVARIANT EachScheduledSlotFiresOnce
INVARIANT MissingMeansCovered
INVARIANT ForksAgreeThenDiverge
INVARIANT ProducedBlocksLink
INVARIANT ViewIsVisiblePrefix
PROPERTY ViewNeverRetracts
