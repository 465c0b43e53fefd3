---------------------------- MODULE MCInitFrame ----------------------------
(* Model-checking instance of InitFrame: command lines of up to three      *)
(* arguments over a few options, unknown ones included.                    *)
EXTENDS InitFrame

\* --config-file, --stdin and a name option_table does not have
MCLongNames == {"config-file", "stdin", "bogus"}

\* -c, -E, -F, -v, -q, the unknown -x, "-cF" (two letters, one taking an
\* argument), "-vq", and "-" alone
MCClusters == {<<"c">>, <<"E">>, <<"F">>, <<"v">>, <<"q">>, <<"x">>,
               <<"c", "F">>, <<"v", "q">>, <<>>}
=============================================================================
