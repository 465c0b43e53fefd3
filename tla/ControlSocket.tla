---------------------------- MODULE ControlSocket ----------------------------
(***************************************************************************)
(* The control socket of src/src/control-socket.c, composed with the log   *)
(* sink it reports to (Log) within the main loop's tick.                   *)
(*                                                                         *)
(* control_socket_start runs once, at start-up (daemonproxy.c, option -S): *)
(* it is the initial state, over what the file system holds at the socket  *)
(* path. Each tick, control_socket_run takes a controller from the pool    *)
(* and accepts one pending connection when the select woke on the socket;  *)
(* with the pool empty it logs a warning and backs off. The controller     *)
(* pool (ctl_alloc, ctl_free, ctl_ctor, ctl_dtor) is in controller.c,      *)
(* which is not in the repository: it is a free list whose head ctl_alloc  *)
(* pops and onto which ctl_free pushes, as the spec describes it.          *)
(***************************************************************************)
EXTENDS Log, FiniteSets, Bitwise

CONSTANTS
    Ctls,       \* the controller pool
    Backlog,    \* listen(control_socket, 2)
    Modes,      \* st_mode file types that may be at the socket path
    Owners,     \* st_uid values: the daemon's euid and another
    Me,         \* geteuid()
    WarnSize,   \* bytes of "warning: No free controllers to accpet ...\n"
    MaxFreeLen  \* bound: accept() fails only while the free list is shorter

\* The st_mode file type bits of <sys/stat.h>
S_IFSOCK == 49152   \* 0140000
S_IFDIR  == 16384   \* 0040000
NoFile == 0         \* stat() fails: nothing at the path

VARIABLES
    listening,  \* control_socket >= 0
    pathMode,   \* the file type at the socket path, or NoFile
    removed,    \* history: the file type remove_any_socket unlinked, or NoFile
    ctlFree,    \* the controller pool's free list
    ctlLive,    \* controllers constructed and running
    pending,    \* connections in the listen backlog
    wantRd,     \* control_socket_run called wake_on_readable(control_socket)
    wokeRd,     \* woke_on_readable(control_socket) for this tick
    backoff,    \* wake->next lowered to now + 5 s this tick
    csRan       \* control_socket_run has run this tick

csVars == <<listening, pathMode, removed, ctlFree, ctlLive, pending, wantRd,
            wokeRd, backoff, csRan>>
allVars == <<vars, csVars>>

-----------------------------------------------------------------------------
(* control_socket_start                                                    *)

\* remove_any_socket(path): nothing there is fine; otherwise unlink it if
\* (st_mode & S_IFSOCK) and it is ours. Returns the outcome and the file
\* type it removed. unlink() of a directory fails (EISDIR).
remove_any_socket(mode, owner) ==
    IF mode = NoFile THEN [ok |-> TRUE, gone |-> NoFile]
    ELSE IF (mode & S_IFSOCK) = 0 \/ owner # Me THEN [ok |-> FALSE, gone |-> NoFile]
    ELSE IF mode = S_IFDIR THEN [ok |-> FALSE, gone |-> NoFile]
    ELSE [ok |-> TRUE, gone |-> mode]

\* control_socket_start(path) at start-up: remove what is in the way, then
\* socket/bind/listen/nonblock, any of which may fail (ok is their
\* outcome); on a failure after bind, control_socket_stop unlinks the
\* socket just bound. A failed start is fatal() unless terminate-guard
\* lets the loop run on without a socket.
control_socket_start(mode, owner, ok) ==
    LET r == remove_any_socket(mode, owner) IN
    [listening |-> r.ok /\ ok,
     pathMode  |-> IF ~r.ok THEN mode ELSE NoFile,
     removed   |-> r.gone]

-----------------------------------------------------------------------------
(* control_socket_run                                                      *)

\* log_warn(...) from the loop: a log_write, as long as the bound on
\* log_write calls is not reached
LogWarn(k) ==
    IF issued < MaxIssued THEN log_write(k)
    ELSE UNCHANGED <<bufPos, msgLost, blocked, retry, wantWr, wokeWr, room,
                     phase, issued, accepted, reported>>

\* Mutant of control_socket_run: an empty pool returns without backing off
control_socket_run_NoBackoff(acc, ctorOk) ==
    /\ phase = "work" /\ ~csRan
    /\ csRan' = TRUE
    /\ IF listening /\ wokeRd /\ ctlFree = <<>>
         THEN /\ LogWarn(WarnSize)
              /\ UNCHANGED <<backoff, wantRd, ctlFree, ctlLive, pending>>
         ELSE /\ UNCHANGED vars
              /\ IF listening /\ wokeRd
                   THEN LET c == Head(ctlFree)
                            f1 == IF acc = "ok" THEN Tail(ctlFree) ELSE ctlFree
                        IN /\ pending' = IF acc = "emfile" THEN pending ELSE pending - 1
                           /\ IF ctorOk
                                THEN ctlLive' = ctlLive \cup {c} /\ ctlFree' = f1
                                ELSE ctlFree' = Cons(c, f1) /\ UNCHANGED ctlLive
                   ELSE UNCHANGED <<ctlFree, ctlLive, pending>>
              /\ wantRd' = listening
              /\ UNCHANGED backoff
    /\ UNCHANGED <<listening, pathMode, removed, wokeRd>>

\* Mutant of control_socket_run: a failed ctl_ctor does not give the
\* controller back
control_socket_run_NoFreeOnCtorFail(acc, ctorOk) ==
    /\ phase = "work" /\ ~csRan
    /\ csRan' = TRUE
    /\ IF listening /\ wokeRd /\ ctlFree = <<>>
         THEN /\ LogWarn(WarnSize)
              /\ backoff' = TRUE
              /\ UNCHANGED <<wantRd, ctlFree, ctlLive, pending>>
         ELSE /\ UNCHANGED vars
              /\ IF listening /\ wokeRd
                   THEN LET c == Head(ctlFree)
                            f1 == IF acc = "ok" THEN Tail(ctlFree) ELSE ctlFree
                        IN /\ pending' = IF acc = "emfile" THEN pending ELSE pending - 1
                           /\ IF ctorOk
                                THEN ctlLive' = ctlLive \cup {c} /\ ctlFree' = f1
                                ELSE ctlFree' = f1 /\ UNCHANGED ctlLive
                   ELSE UNCHANGED <<ctlFree, ctlLive, pending>>
              /\ wantRd' = listening
              /\ UNCHANGED backoff
    /\ UNCHANGED <<listening, pathMode, removed, wokeRd>>

\* control_socket_run with accept()'s outcome acc ("ok"; "aborted": the
\* connection is gone; "emfile": it stays queued) and ctl_ctor's result.
\* ctl_alloc pops the free list; a failed accept ctl_frees the controller
\* (pushing it back) and still goes on to ctl_ctor it with fd -1; a failed
\* ctl_ctor ctl_frees it (again). An empty pool logs a warning, lowers
\* wake->next to now + 5 s and returns before wake_on_readable.
control_socket_run(acc, ctorOk) ==
    /\ phase = "work" /\ ~csRan
    /\ csRan' = TRUE
    /\ IF listening /\ wokeRd /\ ctlFree = <<>>
         THEN /\ LogWarn(WarnSize)
              /\ backoff' = TRUE
              /\ UNCHANGED <<wantRd, ctlFree, ctlLive, pending>>
         ELSE /\ UNCHANGED vars
              /\ IF listening /\ wokeRd
                   THEN LET c == Head(ctlFree)
                            f1 == IF acc = "ok" THEN Tail(ctlFree) ELSE ctlFree
                        IN /\ pending' = IF acc = "emfile" THEN pending ELSE pending - 1
                           /\ IF ctorOk
                                THEN ctlLive' = ctlLive \cup {c} /\ ctlFree' = f1
                                ELSE ctlFree' = Cons(c, f1) /\ UNCHANGED ctlLive
                   ELSE UNCHANGED <<ctlFree, ctlLive, pending>>
              /\ wantRd' = listening
              /\ UNCHANGED backoff
    /\ UNCHANGED <<listening, pathMode, removed, wokeRd>>

-----------------------------------------------------------------------------
(* The environment and the rest of the tick                                *)

\* A client connects; the kernel queues it up to the backlog
ClientConnect ==
    /\ listening /\ pending < Backlog
    /\ pending' = pending + 1
    /\ UNCHANGED <<vars, listening, pathMode, removed, ctlFree, ctlLive,
                   wantRd, wokeRd, backoff, csRan>>

\* A controller's client hangs up: ctl_run destroys it and ctl_frees it
CtlRelease(c) ==
    /\ phase = "work" /\ c \in ctlLive
    /\ ctlLive' = ctlLive \ {c}
    /\ ctlFree' = Cons(c, ctlFree)
    /\ UNCHANGED <<vars, listening, pathMode, removed, pending, wantRd, wokeRd,
                   backoff, csRan>>

\* The tick's work ends after control_socket_run
TickEnd ==
    /\ csRan /\ EndWork
    /\ csRan' = FALSE
    /\ UNCHANGED <<listening, pathMode, removed, ctlFree, ctlLive, pending,
                   wantRd, wokeRd, backoff>>

\* select(): it reports the socket readable if it was asked to watch it and
\* a connection is queued; wake->next and the watch set start afresh
SelectReturns(S) ==
    /\ S
    /\ wokeRd' = (wantRd /\ pending > 0)
    /\ wantRd' = FALSE /\ backoff' = FALSE
    /\ UNCHANGED <<listening, pathMode, removed, ctlFree, ctlLive, pending, csRan>>

\* What accept() may return: a failing accept can push a controller onto the
\* free list twice, so failures are offered only below the MaxFreeLen bound
AcceptOutcomes ==
    IF Len(ctlFree) < MaxFreeLen THEN {"ok", "aborted", "emfile"} ELSE {"ok"}

SocketInit ==
    /\ Init
    /\ \E mode \in Modes, owner \in Owners, ok \in BOOLEAN :
         LET s == control_socket_start(mode, owner, ok) IN
         /\ listening = s.listening
         /\ pathMode = s.pathMode
         /\ removed = s.removed
    /\ ctlFree = SetToSeq(Ctls)
    /\ ctlLive = {}
    /\ pending = 0
    /\ wantRd = listening   \* wake_on_readable at the end of a good start
    /\ wokeRd = FALSE /\ backoff = FALSE /\ csRan = FALSE

SocketNext ==
    \/ \E k \in MsgSizes : log_write(k) /\ UNCHANGED csVars
    \/ \E acc \in AcceptOutcomes, ctorOk \in BOOLEAN : control_socket_run(acc, ctorOk)
    \/ \E c \in Ctls : CtlRelease(c)
    \/ ClientConnect
    \/ TickEnd
    \/ log_run /\ UNCHANGED csVars
    \/ SelectReturns(Sleep)
    \/ SelectReturns(SleepPastDeadline)
    \/ Drain /\ UNCHANGED csVars

\* The loop's own steps are weakly fair (SleepPastDeadline strongly, as the
\* clock passes the deadline); clients and the reader are environment, the
\* reader fair as in Log.
SocketFairness ==
    /\ WF_allVars(\E acc \in AcceptOutcomes, ctorOk \in BOOLEAN :
                    control_socket_run(acc, ctorOk))
    /\ WF_allVars(TickEnd) /\ WF_allVars(log_run /\ UNCHANGED csVars)
    /\ WF_allVars(SelectReturns(Sleep) \/ SelectReturns(SleepPastDeadline))
    /\ SF_allVars(SelectReturns(SleepPastDeadline))
    /\ WF_allVars(Drain /\ UNCHANGED csVars)

SocketSpec == SocketInit /\ [][SocketNext]_allVars /\ SocketFairness

-----------------------------------------------------------------------------
(* Properties                                                              *)

\* No controller leaks out of the pool on any path through
\* control_socket_run (failed accept, failed ctl_ctor, empty pool): each is
\* running or on the free list.
NoControllerLeak == ToSet(ctlFree) \cup ctlLive = Ctls

\* Each controller is either running or free, and on the free list once:
\* ctl_alloc can never hand out a controller twice.
PoolSound ==
    /\ ToSet(ctlFree) \cap ctlLive = {}
    /\ Len(ctlFree) = Cardinality(ToSet(ctlFree))

\* The loop never goes to sleep with a listening socket it neither watches
\* for connections nor will wake up within 5 s to look at again.
AcceptWatched == phase = "sleep" /\ listening => wantRd \/ backoff

\* Start-up removes what is at the socket path only if it is a socket (the
\* spec: "if the path exists and is a socket owned by the effective UID, it
\* is unlinked first").
StartRemovesOnlySocket == removed \in {NoFile, S_IFSOCK}

=============================================================================
