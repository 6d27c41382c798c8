SPECIFICATION Spec
CONSTANTS
    f1 = f1
    f2 = f2
    Feeds = {f1, f2}
    Loop = loop
    Clients = {}
    Faults = {"fetch", "nft", "read"}
    MaxRequests = 4
    MaxFaults = 3
SYMMETRY FeedSymmetry
INVARIANTS IntelTypeOK SetsFollowPolicy
