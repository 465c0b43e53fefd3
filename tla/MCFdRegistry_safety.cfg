CONSTANTS
    o1 = o1
    o2 = o2
    o3 = o3
    NoSlot = NoSlot
    Slots <- MCSlots
    UserNames <- MCUserNames
    NullName <- MCNullName
    MaxFd = 4
    ParentOpen <- MCParentOpen
INIT Init
NEXT Next
INVARIANT TypeOK
\* a NULL dereference in fd_open ends the process
CHECK_DEADLOCK FALSE
