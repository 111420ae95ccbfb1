SPECIFICATION Spec
CONSTANTS
    Ord = 8
    Jobs <- MCJobs
INVARIANT TransformsRight
INVARIANT IterationsIndependent
