------------------------------ MODULE MCExecFds ------------------------------
(* ExecFds with two files, the names "null" and "a", and specs of up to   *)
(* three tokens.                                                           *)
EXTENDS ExecFds

CONSTANTS F1, F2, NullFd, AFd, DashTok, EmptyTok

MCFiles == {F1, F2}
MCFdNames == {NullFd, AFd}

=============================================================================
