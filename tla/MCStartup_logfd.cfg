\* Start-up over six descriptors: does the log descriptor 2 ever name another file?
SPECIFICATION Spec
CONSTANTS
    MaxDesc = 6
    InheritMax = 4
    MaxLaterOpens = 2
INVARIANT
    LogFdNotReused
