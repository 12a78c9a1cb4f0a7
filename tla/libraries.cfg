SPECIFICATION Spec
CONSTANTS
    Parts = {"gate", "netpack", "buffer", "seri", "sproto", "sharedata", "shareconf", "multicast",
             "runtime"}
    Clients = {c1, c2}
INVARIANTS
    GateForwards
    GateFinds
    NetPackReturns
    BufferReads
    SeriReturns
    SprotoReturns
    ConfReturns
    ConfAlive
    
    PackageAlive
    NodeIsSubscribed
    ResumedOnce
    
    
CHECK_DEADLOCK FALSE
