\* One packet in flight if the descriptor is blocking, one repetition, one duplicate acknowledgement.
CONSTANTS
    Plans <- MCPlans
    Window = 1
    maximum_retransmits = 1
    maximum_duplicate_acks = 1
SPECIFICATION FairSpec
INVARIANTS
    StreamPrefix
    AckedWasReceived
PROPERTY SenderFinishes
CHECK_DEADLOCK FALSE
