\* daemonproxy start-up over six descriptors, four of them possibly inherited.
SPECIFICATION Spec
CONSTANTS
    MaxDesc = 6
    InheritMax = 4
    MaxLaterOpens = 2
INVARIANTS
    TypeOK
    NullHandleIntact
    ControllerFdsUnnamed
    InitNeverExits
