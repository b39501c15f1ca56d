SPECIFICATION Spec
CONSTANTS
    Word = 12
    DefaultInterval = 2
    SlowBy = 2
    Asks = {1, 2}
    Lifetimes = {5, 7}
    MaxNow = 36
    MaxInterval = 4
PROPERTY
    TimeoutMeansExpired
