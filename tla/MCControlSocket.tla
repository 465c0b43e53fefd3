--------------------------- MODULE MCControlSocket ---------------------------
(* ControlSocket with two controllers, the file types that exercise each   *)
(* branch of remove_any_socket, and the log sink of MCLog.                 *)
EXTENDS ControlSocket

CONSTANTS c1, c2, me, other

MCCtls == {c1, c2}
MCOwners == {me, other}
\* nothing, a socket, a regular file, a directory, a FIFO
MCModes == {0, 49152, 32768, 16384, 4096}
MCMsgSizes == {2, 3}

=============================================================================
