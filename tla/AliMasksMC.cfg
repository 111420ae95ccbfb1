SPECIFICATION Spec
CONSTANTS
    Ord = 9
    Eta = 3
    Jobs <- MaskJobs
    Seeds = {1, 2}
    Coin <- MCCoin
    Places <- MCPlaces
    MaxParallel = 4
INVARIANT MaskIsPolyAfterWitness
