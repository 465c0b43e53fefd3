---------------------------- MODULE MCFdRegistry ----------------------------
EXTENDS FdRegistry

CONSTANTS o1, o2, o3

MCSlots == {o1, o2, o3}
\* "a" is a prefix of "ab"; "nu" stands for "null"
MCUserNames == {<<"a">>, <<"a", "b">>}
MCNullName == <<"n", "u">>

\* the parent leaves 0, 1 and 2 open, or stdin closed
MCParentOpen == {{0, 1, 2}, {1, 2}}
\* stdin closed: /dev/null opens on 0
MCStdinClosed == {{1, 2}}
\* a parent that leaves 0, 1 and 2 open
MCStdOpen == {Inherited}
=============================================================================
