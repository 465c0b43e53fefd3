------------------------------- MODULE ExecFds -------------------------------
(***************************************************************************)
(* The descriptor plumbing svc_do_exec (src/src/service.c) performs in the *)
(* forked child before exec: resolve the service's tab-separated fd spec   *)
(* to descriptor numbers, move every number below the spec's length out of *)
(* the way with dup(), dup2() each into its slot (or close the slot for    *)
(* "-"), and close everything above.                                       *)
(*                                                                         *)
(* The child's descriptor table maps each number below MaxDesc (its        *)
(* RLIMIT_NOFILE) to the open file it refers to, or Closed. The algorithm  *)
(* is a composition of operators over the table; the state machine only    *)
(* chooses an input: the table, the registry's name -> number map and the  *)
(* spec.                                                                   *)
(***************************************************************************)
EXTENDS Integers, Sequences, FiniteSets, SequencesExt

CONSTANTS
    MaxDesc,    \* descriptors 0..MaxDesc-1
    Files,      \* open files a descriptor may refer to
    Closed,     \* no file
    FdNames,    \* names the registry may hold ("null" among them)
    NullName,   \* "null"
    Dash,       \* "-": leave the slot closed
    Empty,      \* a zero-length token (two adjacent tabs)
    MaxSpecLen  \* longest spec considered

ASSUME Closed \notin Files /\ NullName \in FdNames /\ {Dash, Empty} \cap FdNames = {}

Desc == 0..(MaxDesc - 1)

VARIABLES
    table,  \* the child's descriptor table at fork
    named,  \* fd_by_name: name -> descriptor number, for the names registered
    spec    \* the service's fd spec, as its sequence of tab-separated tokens
            \* (<<Empty>> is the empty string)

vars == <<table, named, spec>>

\* The result of a step: ok, or the abort() the code calls
Ok(t, x) == [ok |-> TRUE, table |-> t, val |-> x]
Abort == [ok |-> FALSE]

-----------------------------------------------------------------------------
(* The kernel                                                              *)

\* dup(d): EBADF on a closed d, EMFILE with no free number, else the lowest
\* free number now refers to d's file
Dup(t, d) ==
    LET free == {n \in Desc : t[n] = Closed} IN
    IF t[d] = Closed \/ free = {} THEN Abort
    ELSE Ok([t EXCEPT ![Min(free)] = t[d]], Min(free))

\* dup2(d, n): EBADF on a closed d or an n past the limit; n first closed
\* if open
Dup2(t, d, n) ==
    IF t[d] = Closed \/ n \notin Desc THEN Abort ELSE Ok([t EXCEPT ![n] = t[d]], n)

-----------------------------------------------------------------------------
(* svc_do_exec                                                             *)

\* Resolve the spec: zero-length tokens are skipped, "-" is -1, a name its
\* number, an unknown name aborts; the empty string means "null" three times
\* (-1 if there is no null)
Resolve(sp, nm) ==
    LET toks == SelectSeq(sp, LAMBDA x : x # Empty) IN
    IF sp = <<Empty>>
      THEN Ok(<<>>, [i \in 1..3 |-> IF NullName \in DOMAIN nm THEN nm[NullName] ELSE -1])
    ELSE IF \E i \in 1..Len(toks) : toks[i] # Dash /\ toks[i] \notin DOMAIN nm THEN Abort
    ELSE Ok(<<>>, [i \in 1..Len(toks) |-> IF toks[i] = Dash THEN -1 ELSE nm[toks[i]]])

\* Mutant of Relocate: a single dup, not repeated until the number is high
\* enough
Relocate_NoRepeat(t, d, count) ==
    IF d >= 0 /\ d < count
      THEN LET r == Dup(t, d) IN IF r.ok THEN Ok(r.table, r.val) ELSE Abort
      ELSE Ok(t, d)

\* Mutant of Relocate: the loop also moves a descriptor equal to fd_count
RECURSIVE Relocate_LeOffByOne(_, _, _)
Relocate_LeOffByOne(t, d, count) ==
    IF d >= 0 /\ d <= count
      THEN LET r == Dup(t, d) IN IF r.ok THEN Relocate_LeOffByOne(r.table, r.val, count) ELSE Abort
      ELSE Ok(t, d)

\* while (fd_list[i] >= 0 && fd_list[i] < fd_count) fd_list[i]= dup(fd_list[i]);
RECURSIVE Relocate(_, _, _)
Relocate(t, d, count) ==
    IF d >= 0 /\ d < count
      THEN LET r == Dup(t, d) IN IF r.ok THEN Relocate(r.table, r.val, count) ELSE Abort
      ELSE Ok(t, d)

\* the first loop, over entries i..count
RECURSIVE RelocateAll(_, _, _)
RelocateAll(t, lst, i) ==
    IF i > Len(lst) THEN Ok(t, lst)
    ELSE LET r == Relocate(t, lst[i], Len(lst)) IN
         IF r.ok THEN RelocateAll(r.table, [lst EXCEPT ![i] = r.val], i + 1) ELSE Abort

\* the second loop: dup2 each entry into slot i-1, or close the slot
RECURSIVE PlaceAll(_, _, _)
PlaceAll(t, lst, i) ==
    IF i > Len(lst) THEN Ok(t, lst)
    ELSE IF lst[i] >= 0
      THEN LET r == Dup2(t, lst[i], i - 1) IN
           IF r.ok THEN PlaceAll(r.table, lst, i + 1) ELSE Abort
      ELSE PlaceAll([t EXCEPT ![i - 1] = Closed], lst, i + 1)

\* while (i < FD_SETSIZE) close(i++);
CloseRest(t, count) == [n \in Desc |-> IF n >= count THEN Closed ELSE t[n]]

\* The table the child execs with, or Abort
svc_do_exec(t, nm, sp) ==
    LET res == Resolve(sp, nm)
        rel == IF res.ok THEN RelocateAll(t, res.val, 1) ELSE Abort
        pla == IF rel.ok THEN PlaceAll(rel.table, rel.val, 1) ELSE Abort
    IN IF pla.ok THEN Ok(CloseRest(pla.table, Len(res.val)), res.val) ELSE Abort

-----------------------------------------------------------------------------

\* The inputs: any table, any registration of names to descriptor numbers
\* (open or not: fd objects may hold a closed number), any spec
Init ==
    /\ table \in [Desc -> Files \cup {Closed}]
    /\ named \in UNION {[N -> Desc] : N \in SUBSET FdNames}
    /\ spec \in UNION {[1..k -> FdNames \cup {Dash, Empty}] : k \in 1..MaxSpecLen}

Next == UNCHANGED vars

Spec == Init /\ [][Next]_vars

-----------------------------------------------------------------------------
(* Properties                                                              *)

\* The reference: slot i-1 refers to the file the i-th entry names, or is
\* closed for "-"; every other descriptor is closed
Expected(t, lst) ==
    [n \in Desc |-> IF n < Len(lst) /\ lst[n + 1] >= 0 THEN t[lst[n + 1]] ELSE Closed]

\* Every registered name refers to an open descriptor (the registry's own
\* invariant; FdRegistry's fd_close run shows how it is lost)
RegistryOpen == \A n \in DOMAIN named : table[named[n]] # Closed

\* When svc_do_exec reaches exec, descriptor i is the i-th named file and
\* nothing else is open: moving sources out of the way first means no dup2
\* overwrites a descriptor a later entry still needs.
ExecPlumbing ==
    LET r == svc_do_exec(table, named, spec) IN
    RegistryOpen /\ r.ok => r.table = Expected(table, r.val)

\* The child aborts only when it must: the spec names an unknown or closed
\* descriptor, or the table has too few free numbers to move the sources.
AbortsOnlyWhenForced ==
    LET res == Resolve(spec, named)
        free == {n \in Desc : table[n] = Closed}
    IN ~svc_do_exec(table, named, spec).ok =>
         \/ ~res.ok
         \/ \E i \in 1..Len(res.val) : res.val[i] >= 0 /\ table[res.val[i]] = Closed
         \/ Cardinality(free) < Len(res.val) + Cardinality({n \in free : n < Len(res.val)})

=============================================================================
