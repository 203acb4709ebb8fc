CONSTANTS
    i1 = i1
    i2 = i2
    f1 = f1
    f2 = f2
    Items = {i1, i2}
    Folders = {f1, f2}
    Inbox = f1
    Home <- MCHome
    Old = {i1}
    FlushEvery = 2
    MaxChanges = 3
    MaxFaults = 1
SPECIFICATION FairSpec
INVARIANTS TypeOK TokenBehindRows ContentBehindToken OrphansOnlyByFault
PROPERTY MirrorCatchesUp
