----------------------------- MODULE MCVarStore -----------------------------
EXTENDS VarStore

\* one-letter names keep the area small; values of lengths 0, 1 and 2
MCArgs == <<"a">>
MCFds == <<"f">>
MCValues == {<<>>, <<"x">>, <<"y", "y">>}
=============================================================================
