------------------------------ MODULE FdRegistry ------------------------------
(***************************************************************************)
(* The registry of named file descriptors of daemonproxy (src/src/fd.c):   *)
(* a preallocated pool of fd_t objects, a name index (RB tree ordered by   *)
(* fd_by_name_compare), a free list threaded through the objects, and the  *)
(* per-process descriptor table of the kernel that open(), pipe() and      *)
(* close() act on.                                                         *)
(*                                                                         *)
(* Names are sequences of characters so that the strncmp of                *)
(* fd_by_name_compare, which compares only the length of the name looked   *)
(* up, is modelled by what it does: a prefix test.                         *)
(*                                                                         *)
(* The whole registry is one record, so that a function that calls         *)
(* fd_by_name twice and fd_delete twice (fd_pipe) is a composition of      *)
(* operators on it, evaluated in the order of the code.                    *)
(***************************************************************************)
EXTENDS Integers, Sequences, SequencesExt, FiniteSets

CONSTANTS
    Slots,      \* the fd_t objects of fd_pool
    NoSlot,     \* NULL fd_t pointer
    UserNames,  \* names the controller may use (sequences of characters)
    NullName,   \* the name "null"
    MaxFd,      \* descriptors 0..MaxFd are all the process may hold (EMFILE)
    ParentOpen  \* the sets of 0, 1 and 2 the parent may leave open

ASSUME NoSlot \notin Slots /\ NullName \notin UserNames
ASSUME MaxFd \in Nat /\ MaxFd >= 3

\* FD_TYPE_* of fd.c
UNDEF == "UNDEF"  FILE == "FILE"  PIPE_R == "PIPE_R"  PIPE_W == "PIPE_W"
INTERNAL == "INTERNAL"
Types == {UNDEF, FILE, PIPE_R, PIPE_W, INTERNAL}

Names == UserNames \cup {NullName}
FdNums == 0..MaxFd
Inherited == {0, 1, 2}     \* stdin, stdout, stderr of the process
ASSUME ParentOpen \subseteq SUBSET Inherited

VARIABLES
    reg,       \* the registry and the kernel's descriptor table (see Init)
    crashed    \* the process dereferenced NULL

vars == <<reg, crashed>>

-----------------------------------------------------------------------------
(* The kernel                                                              *)

\* close(d); on a descriptor already closed it fails with EBADF
Close(r, d) == [r EXCEPT !.kopen = @ \ {d}]

\* open() and pipe() return the lowest numbers not in use
FreeFds(r) == FdNums \ r.kopen

-----------------------------------------------------------------------------
(* fd.c                                                                    *)

\* fd_by_name_compare: strncmp(name, obj->buffer, name.len) == 0, i.e. the
\* name looked up is a prefix of the object's name
Matches(r, n) == {o \in r.idx : IsPrefix(n, r.name[o])}

\* fd_by_name(name, create=true): RBTree_Find stops at whichever matching
\* node its path meets first; otherwise the head of the free list, or NULL
ByName(r, n) == IF Matches(r, n) # {} THEN Matches(r, n) ELSE {r.head}

\* The state after fd_by_name returned o: a new object is popped from the
\* free list (through next_free, the storage of pipe_peer), zeroed by memset
\* (so its fd is 0), named and added to the index
Take(r, n, o) ==
    IF o = NoSlot \/ o \in r.idx THEN r
    ELSE [r EXCEPT !.head = r.peer[o], !.idx = @ \cup {o},
                   !.type[o] = UNDEF, !.fd[o] = 0, !.const[o] = FALSE,
                   !.peer[o] = NoSlot, !.name[o] = n]

\* fd_delete: unlink the pipe peer, close, prune the name, push on the free
\* list (next_free shares its storage with pipe_peer). The descriptor, flag
\* and name a free object keeps are never read again (fd_by_name's memset
\* overwrites them), so they are cleared here to keep states apart only by
\* what matters.
fd_delete(r, o) ==
    LET r1 == IF r.type[o] \in {PIPE_R, PIPE_W} /\ r.peer[o] # NoSlot
                THEN [r EXCEPT !.peer[r.peer[o]] = NoSlot] ELSE r
        r2 == IF r1.fd[o] >= 0 THEN Close(r1, r1.fd[o]) ELSE r1
    IN [r2 EXCEPT !.idx = @ \ {o}, !.type[o] = UNDEF,
                  !.peer[o] = r2.head, !.head = o,
                  !.fd[o] = 0, !.const[o] = FALSE, !.name[o] = NullName]

\* fd_pipe, fail_cleanup: delete whichever end is still undefined
PipeCleanup(r, o1, o2) ==
    LET r1 == IF o1 # NoSlot /\ r.type[o1] = UNDEF THEN fd_delete(r, o1) ELSE r
    IN IF o2 # NoSlot /\ r1.type[o2] = UNDEF THEN fd_delete(r1, o2) ELSE r1

\* fd_pipe past pipe(): the ends being "overwritten" are closed when their
\* type is UNDEF; then fd1 becomes the read end and fd2 the write end
PipeInstall(r, o1, o2) ==
    LET rd == Min(FreeFds(r))
        wr == Min(FreeFds(r) \ {rd})
        r1 == [r EXCEPT !.kopen = @ \cup {rd, wr}]
        r2 == IF r1.type[o1] = UNDEF /\ r1.fd[o1] >= 0 THEN Close(r1, r1.fd[o1]) ELSE r1
        r3 == IF r2.type[o2] = UNDEF /\ r2.fd[o2] >= 0 THEN Close(r2, r2.fd[o2]) ELSE r2
    IN [r3 EXCEPT !.type[o1] = PIPE_R, !.fd[o1] = rd, !.peer[o1] = o2,
                  !.type[o2] = PIPE_W, !.fd[o2] = wr, !.peer[o2] = o1]

\* fd_pipe(name1, name2)
FdPipe(n1, n2) ==
    /\ ~crashed
    /\ \E o1 \in ByName(reg, n1) :
         LET r1 == Take(reg, n1, o1) IN
         \E o2 \in ByName(r1, n2) :
           LET r2 == Take(r1, n2, o2) IN
           reg' = IF \/ o1 = NoSlot \/ o2 = NoSlot
                     \/ r2.const[o1] \/ r2.const[o2]
                     \/ Cardinality(FreeFds(r2)) < 2
                  THEN PipeCleanup(r2, o1, o2)
                  ELSE PipeInstall(r2, o1, o2)
    /\ UNCHANGED crashed

\* Mutant of FdOpen: the result of open() is stored before it is tested
FdOpen_StoreBeforeCheck(n, opened) ==
    /\ ~crashed
    /\ \E o \in ByName(reg, n) :
         IF o = NoSlot THEN crashed' = TRUE /\ UNCHANGED reg
         ELSE LET r == Take(reg, n, o) IN
              /\ crashed' = FALSE
              /\ reg' =
                   IF r.const[o] THEN r
                   ELSE IF ~opened \/ FreeFds(r) = {}
                   THEN IF r.type[o] = UNDEF THEN fd_delete(r, o)
                        ELSE [r EXCEPT !.fd[o] = -1]
                   ELSE LET d == Min(FreeFds(r))
                            r1 == [r EXCEPT !.kopen = @ \cup {d}]
                            r2 == IF r1.type[o] # UNDEF /\ r1.fd[o] >= 0
                                    THEN Close(r1, r1.fd[o]) ELSE r1
                        IN [r2 EXCEPT !.fd[o] = d, !.type[o] = FILE,
                                      !.peer[o] = NoSlot]

\* fd_open(name, path, opts): `opened` is whether open(path) succeeds;
\* fd_by_name returning NULL is dereferenced at once
FdOpen(n, opened) ==
    /\ ~crashed
    /\ \E o \in ByName(reg, n) :
         IF o = NoSlot THEN crashed' = TRUE /\ UNCHANGED reg
         ELSE LET r == Take(reg, n, o) IN
              /\ crashed' = FALSE
              /\ reg' =
                   IF r.const[o] THEN r
                   ELSE IF ~opened \/ FreeFds(r) = {}
                   THEN IF r.type[o] = UNDEF THEN fd_delete(r, o) ELSE r
                   ELSE LET d == Min(FreeFds(r))
                            r1 == [r EXCEPT !.kopen = @ \cup {d}]
                            r2 == IF r1.type[o] # UNDEF /\ r1.fd[o] >= 0
                                    THEN Close(r1, r1.fd[o]) ELSE r1
                        IN [r2 EXCEPT !.fd[o] = d, !.type[o] = FILE,
                                      !.peer[o] = NoSlot]

\* fd.delete (the controller, not in this repository): look the name up
\* without creating it and fd_delete the object found
FdDeleteCmd(n) ==
    /\ ~crashed
    /\ \E o \in Matches(reg, n) : reg' = fd_delete(reg, o)
    /\ UNCHANGED crashed

\* fd_assign(name, fd, is_const, description): the registries it may yield
fd_assign(r, n, d, c) ==
    { LET r1 == Take(r, n, o)
          r2 == IF r1.type[o] # UNDEF /\ r1.fd[o] >= 0 THEN Close(r1, r1.fd[o]) ELSE r1
      IN [r2 EXCEPT !.type[o] = INTERNAL, !.fd[o] = d, !.const[o] = c,
                    !.peer[o] = NoSlot] : o \in ByName(r, n) }

\* fd_init: every object zeroed and chained through next_free in pool
\* order, the index empty; the process holds what the parent left open
fd_init ==
    LET pool == SetToSeq(Slots)
        at(i) == IF i <= Len(pool) THEN pool[i] ELSE NoSlot
        pos(o) == CHOOSE i \in 1..Len(pool) : pool[i] = o
    IN [type |-> [o \in Slots |-> UNDEF], fd |-> [o \in Slots |-> 0],
        const |-> [o \in Slots |-> FALSE],
        peer |-> [o \in Slots |-> at(pos(o) + 1)],
        name |-> [o \in Slots |-> NullName], idx |-> {},
        head |-> at(1), kopen |-> Inherited]

\* main: fd_init, with whichever of 0, 1 and 2 the parent left open, then
\* open("/dev/null") on the lowest free number (on failure fatal() and, in
\* failsafe mode, descriptor 2 instead) and fd_assign("null", f, true, ...)
Init ==
    /\ crashed = FALSE
    /\ \E inh \in ParentOpen :
         LET r0 == [fd_init EXCEPT !.kopen = inh] IN
         \/ reg \in fd_assign([r0 EXCEPT !.kopen = @ \cup {Min(FreeFds(r0))}],
                              NullName, Min(FreeFds(r0)), TRUE)
         \/ reg \in fd_assign(r0, NullName, 2, TRUE)

Next ==
    \/ \E n1, n2 \in Names : FdPipe(n1, n2)
    \/ \E n \in Names, ok \in BOOLEAN : FdOpen(n, ok)
    \/ \E n \in Names : FdDeleteCmd(n)

Spec == Init /\ [][Next]_vars

-----------------------------------------------------------------------------
(* Properties                                                              *)

TypeOK ==
    /\ crashed \in BOOLEAN
    /\ reg.type \in [Slots -> Types]
    /\ reg.fd \in [Slots -> FdNums]
    /\ reg.const \in [Slots -> BOOLEAN]
    /\ reg.peer \in [Slots -> Slots \cup {NoSlot}]
    /\ reg.name \in [Slots -> Names]
    /\ reg.idx \subseteq Slots
    /\ reg.head \in Slots \cup {NoSlot}
    /\ reg.kopen \subseteq FdNums

PipePeerSymmetric ==
    \A o \in reg.idx : reg.type[o] \in {PIPE_R, PIPE_W} /\ reg.peer[o] # NoSlot =>
        /\ reg.peer[o] \in reg.idx
        /\ reg.type[reg.peer[o]] \in {PIPE_R, PIPE_W}
        /\ reg.peer[reg.peer[o]] = o

\* Every descriptor the process opened through the registry is held by a
\* named object: fd_open, fd_pipe and fd_delete never lose one.
NoDescriptorLeak ==
    \A d \in reg.kopen \ Inherited :
        \E o \in reg.idx : reg.type[o] # UNDEF /\ reg.fd[o] = d

\* A descriptor an object holds is open and no other object holds it: a
\* close() through one object never pulls a descriptor from under another.
HeldDescriptorOpen ==
    \A o \in reg.idx : reg.type[o] \notin {UNDEF} =>
        /\ reg.fd[o] \in reg.kopen
        /\ \A q \in reg.idx \ {o} : reg.type[q] # UNDEF => reg.fd[q] # reg.fd[o]

\* The objects met following next_free from the head of the free list, up
\* to the first one met twice
RECURSIVE FreeWalk(_, _, _)
FreeWalk(r, o, seen) ==
    IF o = NoSlot \/ o \in ToSet(seen) THEN seen
    ELSE FreeWalk(r, r.peer[o], Append(seen, o))

\* The free list and the index partition the pool: no object is on the free
\* list twice, the list does not loop, and no object is both free and named
\* (fd_delete pushes, fd_by_name pops).
FreeListSound ==
    LET w == FreeWalk(reg, reg.head, <<>>) IN
    /\ w = <<>> \/ reg.peer[Last(w)] = NoSlot
    /\ ToSet(w) \cap reg.idx = {}
    /\ ToSet(w) \cup reg.idx = Slots

\* No command makes the process dereference NULL (fd_open when the pool is
\* exhausted).
NeverCrashes == ~crashed

=============================================================================
