------------------------------- MODULE VarStore -------------------------------
(***************************************************************************)
(* The variables of a service (src/src/service.c: svc_get_var,             *)
(* svc_set_var, svc_set_argv, svc_set_fds) packed as "name=value\0"        *)
(* strings in the part of the service object's buffer after its name, and  *)
(* the tokenizer they are parsed with (src/src/strseg.c).                  *)
(*                                                                         *)
(* The area is modelled byte by byte because the tokenizer's length        *)
(* arithmetic is the subject: `area` holds the Cap bytes of the variable   *)
(* area and, at index Cap, the first byte after the service object.        *)
(* Characters are single-letter strings; NUL is "0".                       *)
(***************************************************************************)
EXTENDS Integers, Sequences, SequencesExt

CONSTANTS
    Args,       \* the name "args"
    Fds,        \* the name "fds"
    Values,     \* values a command may set (sequences of characters)
    DefaultFds, \* the value "null\tnull\tnull", stored as unset
    Unset,      \* no value
    Cap         \* svc->size - sizeof(service_t) - name_len - 1

ASSUME Cap \in Nat \ {0}

NUL == "0"
Names == {Args, Fds}
Chars == {NUL, "="} \cup UNION {ToSet(s) : s \in Names \cup Values}

VARIABLES
    area,      \* the bytes of the variable area, and the byte past it
    varsLen,   \* svc->vars_len
    intended,  \* history: the value of each name set by the last successful set
    overflow   \* history: some write went past the variable area

vars == <<area, varsLen, intended, overflow>>

-----------------------------------------------------------------------------
(* strseg.c                                                                *)

\* A strseg_t over the area: first index and length
Seg(p, l) == [pos |-> p, len |-> l]

\* strseg_cmp(seg, s) == 0
SegEq(a, seg, s) ==
    seg.len = Len(s) /\ \A i \in 1..Len(s) : a[seg.pos + i - 1] = s[i]

\* strseg_tok_next(&seg, sep, &tok): fails on a negative length; otherwise the
\* token runs to the first sep or the end, and seg moves past token and sep
\* (its length going to -1 when no sep was found)
TokNext(a, seg, sep) ==
    LET stops == {i \in 0..(seg.len - 1) : a[seg.pos + i] = sep}
        l == IF stops = {} THEN seg.len ELSE Min(stops)
    IN IF seg.len < 0 THEN [ok |-> FALSE, rest |-> seg]
       ELSE [ok |-> TRUE, tok |-> Seg(seg.pos, l),
             rest |-> Seg(seg.pos + l + 1, seg.len - l - 1)]

-----------------------------------------------------------------------------
(* service.c                                                               *)

\* The loop shared by svc_get_var and svc_set_var:
\*   while (strseg_tok_next(&var_buf, '\0', &val) && var_buf.len > 0)
\*     if (strseg_tok_next(&val, '=', &key) && key == name) found
\* It yields whether the name was found, its value, and var_buf at the end.
RECURSIVE Lookup(_, _, _)
Lookup(a, n, buf) ==
    LET t == TokNext(a, buf, NUL) IN
    IF ~t.ok THEN [found |-> FALSE, rest |-> buf]
    ELSE IF t.rest.len <= 0 THEN [found |-> FALSE, rest |-> t.rest]
    ELSE LET k == TokNext(a, t.tok, "=") IN
         IF k.ok /\ SegEq(a, k.tok, n)
           THEN [found |-> TRUE, val |-> k.rest, rest |-> t.rest]
           ELSE Lookup(a, n, t.rest)

VarBuf == Seg(0, varsLen)

\* svc_get_var: the value found, or Unset
svc_get_var(n) ==
    LET r == Lookup(area, n, VarBuf) IN
    IF r.found THEN [i \in 1..r.val.len |-> area[r.val.pos + i - 1]] ELSE Unset

\* memcpy/memmove of the bytes `src` to index p (bytes past the object's
\* first following byte are not represented; `overflow` records them)
Put(a, p, src) ==
    [i \in DOMAIN a |-> IF i >= p /\ i < p + Len(src) THEN src[i - p + 1] ELSE a[i]]

\* memmove(dst, src, len) within the area
MemMove(a, dst, src, len) ==
    Put(a, dst, [i \in 1..len |-> a[src + i - 1]])

\* svc_set_var(svc, name, value) with value Unset for NULL: sizediff, the
\* room check, moving the tail, writing "name=", writing the value
SetVarStep(n, v) ==
    LET r == Lookup(area, n, VarBuf)
        bufFree == Cap - varsLen
        sizediff ==
            IF r.found THEN (IF v # Unset THEN Len(v) - r.val.len
                                          ELSE -(r.val.len + 1 + Len(n) + 1))
            ELSE (IF v # Unset THEN Len(n) + 1 + Len(v) + 1 ELSE 0)
        moved == sizediff # 0 /\ r.rest.len > 0
        a1 == IF moved THEN MemMove(area, r.rest.pos + sizediff, r.rest.pos, r.rest.len)
              ELSE area
        fresh == ~r.found /\ v # Unset
        a2 == IF fresh THEN Put(a1, r.rest.pos, n \o <<"=">>) ELSE a1
        valPos == IF fresh THEN r.rest.pos + Len(n) + 1 ELSE r.val.pos
        a3 == IF v # Unset THEN Put(a2, valPos, v \o <<NUL>>) ELSE a2
        \* the last index each of the three writes touches
        top == (IF moved THEN {r.rest.pos + sizediff + r.rest.len - 1} ELSE {})
               \cup (IF fresh THEN {r.rest.pos + Len(n)} ELSE {})
               \cup (IF v # Unset THEN {valPos + Len(v)} ELSE {})
    IN IF sizediff > bufFree
       THEN UNCHANGED vars
       ELSE /\ area' = a3
            /\ varsLen' = varsLen + sizediff
            /\ intended' = [intended EXCEPT ![n] = v]
            /\ overflow' = (overflow \/ \E i \in top : i >= Cap)

\* svc_set_argv(svc, new_argv)
svc_set_argv(v) == SetVarStep(Args, v)

\* svc_set_fds(svc, new_fds): the default is stored as unset
svc_set_fds(v) == SetVarStep(Fds, IF v = DefaultFds THEN Unset ELSE v)

\* svc_by_name creating the service: vars_len = 0 over a pool that svc_init
\* zeroed
Init ==
    /\ area = [i \in 0..Cap |-> NUL]
    /\ varsLen = 0
    /\ intended = [n \in Names |-> Unset]
    /\ overflow = FALSE

Next ==
    \/ \E v \in Values : svc_set_argv(v)
    \/ \E v \in Values \cup {DefaultFds} : svc_set_fds(v)

Spec == Init /\ [][Next]_vars

-----------------------------------------------------------------------------
(* Properties                                                              *)

TypeOK ==
    /\ area \in [0..Cap -> Chars]
    /\ varsLen \in 0..Cap
    /\ intended \in [Names -> Values \cup {Unset}]
    /\ overflow \in BOOLEAN

\* svc_check's assertion, run at the end of svc_set_var: the variable area
\* ends with a NUL.
VarAreaTerminated == varsLen > 0 => area[varsLen - 1] = NUL

\* What svc_get_argv and svc_get_fds read is what the last successful
\* svc_set_argv or svc_set_fds stored (unset meaning the default).
GetReturnsLastSet == \A n \in Names : svc_get_var(n) = intended[n]

\* svc_set_var never writes past the variable area into the next object.
WritesInBounds == ~overflow

=============================================================================
