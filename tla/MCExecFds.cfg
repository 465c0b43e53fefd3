CONSTANTS
    F1 = F1
    F2 = F2
    NullFd = NullFd
    AFd = AFd
    DashTok = DashTok
    EmptyTok = EmptyTok
    Closed = Closed
    MaxDesc = 5
    MaxSpecLen = 3
    Files <- MCFiles
    FdNames <- MCFdNames
    NullName = NullFd
    Dash = DashTok
    Empty = EmptyTok
SPECIFICATION Spec
INVARIANTS
    ExecPlumbing
    AbortsOnlyWhenForced
