SPECIFICATION Spec
CONSTANTS
    f1 = f1
    f2 = f2
    Feeds = {f1, f2}
    Loop = loop
    Clients = {c1}
    Faults = {}
    MaxRequests = 2
    MaxFaults = 0
INVARIANTS SetsFollowPolicy
