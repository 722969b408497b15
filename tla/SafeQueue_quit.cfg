SPECIFICATION FairSpec
CONSTANTS
    Pushers = {p1}
    Poppers = {c1, c2}
    SizeMax = 1
    MaxPushes = 3
    Nobody = Nobody
PROPERTY QuitEndsCalls
