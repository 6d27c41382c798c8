SPECIFICATION Spec
CONSTANTS
    f1 = f1
    f2 = f2
    Feeds = {f1, f2}
    Loop = loop
    Clients = {}
    Faults = {"fetch"}
    MaxRequests = 0
    MaxFaults = 1
INVARIANTS FetchFailureReturned
