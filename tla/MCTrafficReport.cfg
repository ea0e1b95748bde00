SPECIFICATION FairSpec
CONSTANTS
    Users = {u1, u2}
    MaxTraffic = 3
    MaxBatches = 3
    MaxStarts = 2
    None = None
INVARIANTS
    NoOverbilling
    OneKeyOneContent
    CountedOnce

    
