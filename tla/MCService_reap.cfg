SPECIFICATION Spec
CONSTANTS
    s1 = s1  s2 = s2  p1 = p1  p2 = p2  p3 = p3
    Svc <- MCSvc
    Pids <- MCPidsAmple
    NoSvc = NoSvc  NoPid = NoPid  NoKill = NoKill
    TickOrder <- DaemonproxyTick
    FORK_RETRY_DELAY = 1
    SERVICE_RESTART_INTERVAL = 2
    WAKE_INTERVAL = 3
    StartDelays = {0, 2}
    MaxTime = 3
    MaxDeletes = 1
    MaxCmdsPerTick = 1
SYMMETRY MCSymmetry
INVARIANT LiveChildReapable
