\* A turn of two rounds and a turn of one, replies with up to two calls; the
\* provider may send the id we make up for the first turn's second call.
SPECIFICATION Spec
CONSTANTS
    NoId <- NoIdValue
    ProviderIds <- Ours
    MaxCalls = 2
    MaxTurns = 2
    MaxRounds = 2
    MaxPrompts = 1
    PruneAfter = 4
    PruneKeep = 2
    CompactKeep = 2
INVARIANTS
    ProtocolRespected
    BalancedRequest
    RunOnce
    UncertaintyKept
CHECK_DEADLOCK FALSE
