-------------------------------- MODULE MCLog --------------------------------
(* Log with a six-byte buffer, a four-byte reader side and records of two   *)
(* and three bytes.                                                        *)
EXTENDS Log

MCMsgSizesFit == {2, 3}
MCMsgSizesLong == {2, 7}

=============================================================================
