SPECIFICATION FairSpec
CONSTANTS
  Repetitions = 2
  WitnessDepth = 12
  CompositionDepth = 9
INVARIANTS TypeOK NeverAborted CommitmentsFiledRight ProofsOutliveQueries HonestRunAccepted RoundCount
PROPERTIES StoredCommitmentsFinal ImplementsTranscript Termination
