CONSTANTS
    Session = {s0, s1}
    clients <- MCClients
    Shard <- MCShard
    Workers = 4
SPECIFICATION Spec
INVARIANTS SeedsPaired JoinedConnected 
 
CHECK_DEADLOCK FALSE
