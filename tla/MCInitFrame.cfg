\* init-frame.c main(): option parsing over command lines of up to three
\* arguments, then start-up with every open() and ctl_new() failing or not.
SPECIFICATION Spec
CONSTANTS
    LongNames <- MCLongNames
    Clusters <- MCClusters
    MaxArgs = 3
    MaxEnv = 1
INVARIANTS
    TypeOK
    OptionsAsWritten
    MalformedIsFatal
    SourcesOpened
