------------------------------- MODULE Startup -------------------------------
(***************************************************************************)
(* The start-up of src/src/daemonproxy.c main(), from fd_init to the main  *)
(* loop, over the process's descriptor table: the /dev/null handle, the    *)
(* registration of every inherited descriptor (register_open_fds), the     *)
(* control socket, the interactive and config-file controllers and         *)
(* daemonize(). Then the running loop opens descriptors of its own         *)
(* (accept, fd.pipe, fd.open), each the lowest free number.                *)
(*                                                                         *)
(* fd_init_special_handles, fd_new_file, fd_set_fdnum and ctl_new are not  *)
(* in the repository: the null handle is a const entry on the /dev/null    *)
(* descriptor, a name is an entry holding a descriptor number, and a       *)
(* controller reads and writes the descriptors it is given (spec.md 3,     *)
(* "At registry creation, a null entry referring to /dev/null is           *)
(* pre-installed ... stdin/stdout/stderr are pre-installed from 0/1/2").   *)
(* A name is the number register_open_fds registered it for: 0, 1 and 2   *)
(* are "stdin", "stdout" and "stderr", N >= 3 is "fd_N".                   *)
(***************************************************************************)
EXTENDS Integers, FiniteSets, TLC

CONSTANTS
    MaxDesc,        \* descriptors 0..MaxDesc-1 (register_open_fds scans 1024)
    InheritMax,     \* the parent may leave descriptors 0..InheritMax-1 open
    MaxLaterOpens   \* bound on descriptors the running loop opens

ASSUME InheritMax \in 1..MaxDesc - 1 /\ MaxLaterOpens \in Nat

Desc == 0..(MaxDesc - 1)
Closed == "closed"
\* what a descriptor refers to: a file inherited from the parent, /dev/null,
\* the config file, the control socket, or one the running loop opened
Files == {"inherited", "null", "config", "socket", "later"}

\* log_init: log_fd= 2; nothing in the repository changes it afterwards
LogFd == 2

VARIABLES
    table,      \* the kernel's descriptor table
    devNull,    \* fd_dev_null, the null handle's descriptor
    named,      \* the registry: name -> descriptor number (-1: a failed dup)
    ctlFds,     \* descriptors a controller reads or writes
    opts,       \* the command line and pid 1 defaults
    pc,         \* the start-up step main() is at
    later,      \* descriptors the running loop has opened
    interactive \* interactive_controller is set

vars == <<table, devNull, named, ctlFds, opts, pc, later, interactive>>

-----------------------------------------------------------------------------
(* The kernel                                                              *)

\* open(), socket(), dup(): the lowest free number, or -1 (EMFILE)
Lowest(t) == IF \E d \in Desc : t[d] = Closed
               THEN CHOOSE d \in Desc : t[d] = Closed /\ \A e \in Desc : t[e] = Closed => d <= e
               ELSE -1

\* A new descriptor for file f: the table after it and its number
OpenAs(t, f) ==
    LET n == Lowest(t) IN
    [t |-> IF n = -1 THEN t ELSE [t EXCEPT ![n] = f], fd |-> n]

\* dup(d): EBADF on a closed or negative d
Dup(t, d) == IF d < 0 \/ t[d] = Closed THEN [t |-> t, fd |-> -1] ELSE OpenAs(t, t[d])

-----------------------------------------------------------------------------
(* register_open_fds and fd_to_dev_null                                    *)

\* Mutant of IsOpen: the /dev/null descriptor counts as an inherited one
IsOpen_NoNullTest(t, i) == t[i] # Closed

\* is_open= i != fd_dev_null && fcntl(i, F_GETFL) != -1
IsOpen(t, i) == i # devNull /\ t[i] # Closed

\* The loop over i: an open descriptor is registered with its own number;
\* stdin, stdout and stderr are registered even if closed, as a dup of
\* /dev/null (fd_new_file is assumed to succeed)
RECURSIVE RegisterFrom(_, _, _)
RegisterFrom(t, nm, i) ==
    IF i >= MaxDesc THEN [t |-> t, nm |-> nm]
    ELSE IF IsOpen(t, i) THEN RegisterFrom(t, nm @@ (i :> i), i + 1)
    ELSE IF i < 3
      THEN LET r == Dup(t, devNull) IN RegisterFrom(r.t, nm @@ (i :> r.fd), i + 1)
    ELSE RegisterFrom(t, nm, i + 1)

\* fd_to_dev_null(fd): the entry now holds a fresh dup of /dev/null (-1 if
\* dup fails); its old descriptor is left as it is
fd_to_dev_null(t, nm, n) ==
    LET r == Dup(t, devNull) IN [t |-> r.t, nm |-> [nm EXCEPT ![n] = r.fd]]

\* daemonize()'s child: for i in 0..2, an entry still holding descriptor i
\* is moved to /dev/null and i is closed
RECURSIVE DetachStd(_, _, _)
DetachStd(t, nm, i) ==
    IF i >= 3 THEN [t |-> t, nm |-> nm]
    ELSE IF i \in DOMAIN nm /\ nm[i] = i
      THEN LET r == fd_to_dev_null(t, nm, i) IN
           DetachStd([r.t EXCEPT ![i] = Closed], r.nm, i + 1)
    ELSE DetachStd(t, nm, i + 1)

-----------------------------------------------------------------------------
(* main()                                                                  *)

\* fatal(): exit, unless terminate-guard lets start-up go on
Fatal(next) == pc' = IF opts.guard THEN next ELSE "exit"

\* fd_init_special_handles: /dev/null opened on the lowest free number
SpecialHandles ==
    /\ pc = "special"
    /\ LET r == OpenAs(table, "null") IN
       /\ table' = r.t /\ devNull' = r.fd
    /\ pc' = "register"
    /\ UNCHANGED <<named, ctlFds, opts, later, interactive>>

\* register_open_fds() (its result is always true here)
RegisterOpenFds ==
    /\ pc = "register"
    /\ LET r == RegisterFrom(table, named, 0) IN
       /\ table' = r.t /\ named' = r.nm
    /\ pc' = "socket"
    /\ UNCHANGED <<devNull, ctlFds, opts, later, interactive>>

\* control_socket_start with -S: the listening socket's descriptor
SocketStart ==
    /\ pc = "socket"
    /\ table' = IF opts.socket THEN OpenAs(table, "socket").t ELSE table
    /\ pc' = "interactive"
    /\ UNCHANGED <<devNull, named, ctlFds, opts, later, interactive>>

\* setup_interactive_mode with -i: a controller on descriptors 0 and 1, and
\* the names stdin and stdout moved to /dev/null
setup_interactive_mode ==
    /\ pc = "interactive"
    /\ IF opts.interactive
         THEN LET r1 == fd_to_dev_null(table, named, 0)
                  r2 == fd_to_dev_null(r1.t, r1.nm, 1)
              IN /\ ctlFds' = ctlFds \cup {0, 1}
                 /\ table' = r2.t /\ named' = r2.nm
         ELSE UNCHANGED <<table, named, ctlFds>>
    /\ interactive' = opts.interactive
    /\ pc' = "config"
    /\ UNCHANGED <<devNull, opts, later>>

\* Mutant of ClaimStdin: stdin is not moved to /dev/null
ClaimStdin_Keep(t, nm) == [t |-> t, nm |-> nm]

\* "stdin is used, so make the named stdin handle a dup of /dev/null"
ClaimStdin(t, nm) == fd_to_dev_null(t, nm, 0)

\* Mutant of ConfigOpened: open()'s result is not tested
ConfigOpened_NoCheck(fd) == TRUE

\* if (f == -1) { log_error(...); return false; }
ConfigOpened(fd) == fd # -1

\* setup_config_file with -c: "-" needs the name stdin on descriptor 0,
\* which the controller then reads, stdin moving to /dev/null; a path is
\* opened on the lowest free number. A failure is fatal().
setup_config_file ==
    /\ pc = "config"
    /\ \/ /\ opts.config = "none"
          /\ pc' = "daemonize" /\ UNCHANGED <<table, named, ctlFds>>
       \/ /\ opts.config = "-" /\ named[0] # 0
          /\ Fatal("daemonize") /\ UNCHANGED <<table, named, ctlFds>>
       \/ /\ opts.config = "-" /\ named[0] = 0
          /\ LET r == ClaimStdin(table, named) IN
             /\ ctlFds' = ctlFds \cup {0}
             /\ table' = r.t /\ named' = r.nm
          /\ pc' = "daemonize"
       \/ /\ opts.config = "file"
          /\ LET r == OpenAs(table, "config") IN
             IF ConfigOpened(r.fd)
               THEN /\ table' = r.t /\ ctlFds' = ctlFds \cup {r.fd}
                    /\ pc' = "daemonize" /\ UNCHANGED named
               ELSE Fatal("daemonize") /\ UNCHANGED <<table, named, ctlFds>>
    /\ UNCHANGED <<devNull, opts, later, interactive>>

\* --daemonize: ignored as pid 1 or with -i; otherwise the parent exits
\* after fork and the child detaches 0..2 and calls setsid()
daemonize ==
    /\ pc = "daemonize"
    /\ IF opts.daemonize /\ ~opts.pid1 /\ ~opts.interactive
         THEN LET r == DetachStd(table, named, 0) IN
              table' = r.t /\ named' = r.nm
         ELSE UNCHANGED <<table, named>>
    /\ pc' = "loop"
    /\ UNCHANGED <<devNull, ctlFds, opts, later, interactive>>

\* The running loop opens a descriptor: an accepted connection, a pipe end,
\* a file of fd.open
LaterOpen ==
    /\ pc = "loop" /\ later < MaxLaterOpens
    /\ table' = OpenAs(table, "later").t
    /\ later' = later + 1
    /\ UNCHANGED <<devNull, named, ctlFds, opts, pc, interactive>>

\* Mutant of main_notify_controller_freed: the terminate-guard is not tested
main_notify_controller_freed_NoGuard == pc' = "exit"

\* the interactive controller is freed (end of its input, controller.c):
\* without terminate-guard the loop is asked to terminate, and main()
\* returns; with it, the controller is only detached
main_notify_controller_freed ==
    pc' = IF opts.guard THEN pc ELSE "exit"

SessionEnds ==
    /\ pc = "loop" /\ interactive
    /\ interactive' = FALSE
    /\ main_notify_controller_freed
    /\ UNCHANGED <<table, devNull, named, ctlFds, opts, later>>

\* Start-up ended in exit(), or the loop has opened all it may
Done ==
    /\ \/ pc = "exit"
       \/ pc = "loop" /\ later = MaxLaterOpens /\ ~interactive
    /\ UNCHANGED vars

\* Options as the command line and getpid() == 1 set them: pid 1 defaults
\* to a config file and terminate-guard; -F sets terminate-guard; one of -i,
\* -c, -S is required (checked before fd_init, so fatal() happens first)
Opts ==
    {o \in [interactive : BOOLEAN, config : {"none", "-", "file"},
            socket : BOOLEAN, daemonize : BOOLEAN, pid1 : BOOLEAN,
            guard : BOOLEAN] :
        /\ o.pid1 => o.guard /\ o.config # "none"
        /\ o.interactive \/ o.config # "none" \/ o.socket}

Init ==
    /\ table \in {[d \in Desc |-> IF d \in S THEN "inherited" ELSE Closed] :
                    S \in SUBSET (0..(InheritMax - 1))}
    /\ devNull = -1
    /\ named = <<>>
    /\ ctlFds = {}
    /\ opts \in Opts
    /\ pc = "special"
    /\ later = 0
    /\ interactive = FALSE

Next ==
    \/ SpecialHandles \/ RegisterOpenFds \/ SocketStart
    \/ setup_interactive_mode \/ setup_config_file \/ daemonize
    \/ LaterOpen \/ SessionEnds \/ Done

Spec == Init /\ [][Next]_vars

-----------------------------------------------------------------------------
(* Properties                                                              *)

TypeOK ==
    /\ table \in [Desc -> Files \cup {Closed}]
    /\ devNull \in Desc \cup {-1}
    /\ DOMAIN named \subseteq Desc
    /\ \A n \in DOMAIN named : named[n] \in Desc \cup {-1}
    /\ ctlFds \subseteq Desc
    /\ opts \in Opts
    /\ pc \in {"special", "register", "socket", "interactive", "config",
               "daemonize", "loop", "exit"}
    /\ later \in 0..MaxLaterOpens
    /\ interactive \in BOOLEAN

\* The /dev/null descriptor stays open on /dev/null and no name holds it,
\* so neither daemonize's close nor a name's fd.delete can close it from
\* under the null handle (register_open_fds' i != fd_dev_null test).
NullHandleIntact ==
    devNull # -1 =>
        /\ table[devNull] = "null"
        /\ \A n \in DOMAIN named : named[n] # devNull

\* No name holds a descriptor a controller reads or writes: the config and
\* interactive set-up move stdin and stdout to /dev/null first, so no
\* service fds spec or fd.delete reaches the controller's stream.
ControllerFdsUnnamed ==
    \A n \in DOMAIN named : named[n] \notin ctlFds

\* The log keeps writing to what descriptor 2 was at log_init (the
\* inherited stderr or, after registration, a /dev/null dup): never to a
\* config file, socket, pipe or connection that later got number 2.
LogFdNotReused == table[LogFd] \notin {"config", "socket", "later"}

\* As pid 1 daemonproxy never leaves main(): terminate-guard is on by
\* default, so neither a fatal() of start-up nor the end of the
\* interactive session (main_notify_controller_freed) ends the process
\* (spec.md: "When PID 1, terminate-guard defaults on and exit is
\* suppressed").
InitNeverExits == opts.pid1 => pc # "exit"

\* Every name holds an open descriptor (or -1): no start-up step closes a
\* descriptor that a name other than the one detached still holds.
NamesHeldOpen ==
    \A n \in DOMAIN named : named[n] = -1 \/ table[named[n]] # Closed

=============================================================================
