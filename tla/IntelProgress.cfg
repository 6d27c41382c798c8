SPECIFICATION FairSpec
CONSTANTS
    f1 = f1
    f2 = f2
    Feeds = {f1, f2}
    Loop = loop
    Clients = {c1}
    Faults = {"fetch", "nft", "read", "apply"}
    MaxRequests = 2
    MaxFaults = 2
PROPERTIES EventuallyPopulated
