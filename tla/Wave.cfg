SPECIFICATION LiveSpec
CONSTANTS
    Slots = 3
    Spares = 3
    MaxReplacements = 2
    Permits = 2
INVARIANTS TypeOK OneVoteEach EarlyEndIsSound
PROPERTIES VotesStand RoundEnds
CHECK_DEADLOCK FALSE
