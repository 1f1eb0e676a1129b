\* An outage of some hours: the product no longer fits.
CONSTANTS
    MaxSeconds = {300}
    AttemptLimit = 64
SPECIFICATION Spec
INVARIANT RetryWaits
\* The bound on the attempts ends the behaviour.
CHECK_DEADLOCK FALSE
