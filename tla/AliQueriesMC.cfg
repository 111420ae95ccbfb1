SPECIFICATION Spec
CONSTANTS
    Ord = 9
    Eta = 3
    Jobs <- PassJobs
    Seeds = {1, 2}
    Coin <- MCCoin
    Places <- MCPlaces
    MaxParallel = 4
INVARIANT WitnessAnswersAgree
INVARIANT CompositionAnswersAgree
