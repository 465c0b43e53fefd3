------------------------------- MODULE Service -------------------------------
(***************************************************************************)
(* The service state machine of daemonproxy (src/src/service.c) driven by  *)
(* the main loop of src/src/daemonproxy.c, together with the part of the   *)
(* kernel it depends on: the process table that fork() draws pids from and *)
(* waitpid() returns them to.                                              *)
(*                                                                         *)
(* One tick of the loop is a sequence of phases: reap every zombie         *)
(* ("reap"), run svc_run on each service of the active list ("svc"), run   *)
(* the controllers, whose commands call svc_handle_start, svc_send_signal, *)
(* svc_delete and svc_by_name ("ctl"), then sleep in select() ("sleep").   *)
(* Inside svc_run the "goto re_switch_state" loop is kept: each pass       *)
(* through the switch is one step, and the service being run is `running`. *)
(*                                                                         *)
(* Time is the 32.32 monotonic clock, modelled as whole units; the clock   *)
(* stops advancing at MaxTime (deadlines beyond it are simply never due).  *)
(***************************************************************************)
EXTENDS Integers, Sequences, SequencesExt, FiniteSets

CONSTANTS
    Svc,                      \* service object slots of the preallocated pool
    Pids,                     \* process ids the kernel can hand out
    NoSvc,                    \* NULL service pointer
    NoPid,                    \* pid 0
    FORK_RETRY_DELAY,         \* delay before retrying a failed fork
    SERVICE_RESTART_INTERVAL, \* minimum time between automatic restarts
    WAKE_INTERVAL,            \* the loop wakes at least this often (200 s)
    StartDelays,              \* offsets from now a start command may ask for
    MaxTime,                  \* the clock stops here
    MaxDeletes,               \* bound on service.delete commands
    MaxCmdsPerTick,           \* bound on commands ctl_run handles in one tick
    NoKill,                   \* no kill() issued yet
    TickOrder                 \* the order of the phases in one tick

ASSUME NoSvc \notin Svc /\ NoPid \notin Pids
ASSUME {FORK_RETRY_DELAY, SERVICE_RESTART_INTERVAL, WAKE_INTERVAL} \subseteq Nat \ {0}
ASSUME StartDelays \subseteq Nat /\ 0 \in StartDelays
ASSUME TickOrder \in Seq({"reap", "svc", "ctl", "sleep"}) /\ TickOrder[1] = "reap"
ASSUME MaxTime \in Nat \ {0} /\ MaxDeletes \in Nat /\ MaxCmdsPerTick \in Nat \ {0}

\* service states, as the SVC_STATE_* constants
UNDEF == "UNDEF"  DOWN == "DOWN"  START_PENDING == "START_PENDING"
START == "START"  UP == "UP"  REAPED == "REAPED"
States == {UNDEF, DOWN, START_PENDING, START, UP, REAPED}

VARIABLES
    phase,      \* where the main loop is in its tick
    running,    \* the service inside svc_run, or NoSvc
    toRun,      \* rest of the active list svc_run_active still has to visit
    now,        \* wake->now
    next,       \* wake->next
    state,      \* svc->state
    pid,        \* svc->pid
    startTime,  \* svc->start_time
    reapTime,   \* svc->reap_time
    autoRestart,\* svc->auto_restart
    active,     \* svc_active_list, head first
    freeList,   \* svc_free_list, head first
    pidIndex,   \* svc_by_pid_index: pid -> service
    proc,       \* kernel: "free", "running" or "zombie" per pid
    childOf,    \* history: which service forked the process holding a pid
    prevFork,   \* history: time of the service's last successful fork
    autoPending,\* history: the pending start was scheduled by auto-restart
    deletes,    \* number of service.delete commands so far
    lastKill,   \* history: the last kill(): sender, pid, owner of that pid
    cmds        \* commands ctl_run has handled in this tick

vars == <<phase, running, toRun, now, next, state, pid, startTime, reapTime,
          autoRestart, active, freeList, pidIndex, proc, childOf, prevFork,
          autoPending, deletes, lastKill, cmds>>

InUse == Svc \ ToSet(freeList)

\* daemonproxy.c's loop: reap, svc_run_active, then ctl_run and log_run
DaemonproxyTick == <<"reap", "svc", "ctl", "sleep">>

\* Mutant of InitFrameTick: svc_run_active before ctl_run
InitFrameTick_SvcFirst == <<"reap", "svc", "ctl", "sleep">>

\* init-frame.c's loop: reap, ctl_run, then svc_run_active and ctl_flush
InitFrameTick == <<"reap", "ctl", "svc", "sleep">>

\* The loop moves on to the phase after this one; entering svc_run_active
\* it takes the active list to walk
EndPhase ==
    LET i == CHOOSE j \in 1..(Len(TickOrder) - 1) : TickOrder[j] = phase
        p == TickOrder[i + 1]
    IN /\ phase' = p
       /\ toRun' = IF p = "svc" THEN active ELSE toRun

-----------------------------------------------------------------------------
(* Helpers of service.c                                                    *)

\* "if (svc->start_time == 0) svc->start_time++;  // 0 means undefined"
NonZero(t) == IF t = 0 THEN 1 ELSE t

\* svc_set_active: insert at the head if absent, or unlink
svc_set_active(lst, s, activate) ==
    IF activate THEN IF s \in ToSet(lst) THEN lst ELSE Cons(s, lst)
    ELSE Remove(lst, s)

\* RBTreeNode_Prune of the service's pid node: it only leaves the tree if it
\* was ever added to it
PrunePid(idx, s) == [q \in Pids |-> IF idx[q] = s THEN NoSvc ELSE idx[q]]

\* RBTree_Add rejects a key already present; the return value is ignored
AddPid(idx, p, s) == IF idx[p] = NoSvc THEN [idx EXCEPT ![p] = s] ELSE idx

\* Mutant of svc_change_pid: the old pid's index node is not pruned
svc_change_pid_NoPrune(s, p) ==
    /\ pidIndex' = IF p # NoPid THEN AddPid(pidIndex, p, s) ELSE pidIndex
    /\ pid' = [pid EXCEPT ![s] = p]

\* svc_change_pid(svc, p)
svc_change_pid(s, p) ==
    /\ pidIndex' = LET pruned == IF pid[s] # NoPid THEN PrunePid(pidIndex, s)
                                                    ELSE pidIndex
                   IN IF p # NoPid THEN AddPid(pruned, p, s) ELSE pruned
    /\ pid' = [pid EXCEPT ![s] = p]

\* The body of svc_handle_start past its state check
StartService(s, when) ==
    /\ state' = [state EXCEPT ![s] = IF when - now > 0 THEN START_PENDING ELSE START]
    /\ startTime' = [startTime EXCEPT ![s] = NonZero(IF when - now > 0 THEN when ELSE now)]
    /\ svc_change_pid(s, NoPid)
    /\ reapTime' = [reapTime EXCEPT ![s] = 0]
    /\ active' = svc_set_active(active, s, TRUE)

\* svc_handle_start: refused unless the service is down or pending
svc_handle_start(s, when) ==
    /\ state[s] \in {DOWN, START_PENDING}
    /\ StartService(s, when)

-----------------------------------------------------------------------------
(* Main loop: reaping (daemonproxy.c, waitpid loop)                        *)

\* svc_by_pid: the pid index lookup (NoSvc when absent)
svc_by_pid(p) == pidIndex[p]

\* Mutant of svc_handle_reaped: svc_set_active(svc, true) is forgotten
svc_handle_reaped_NoActivate(s) ==
    IF state[s] = UP
      THEN /\ state' = [state EXCEPT ![s] = REAPED]
           /\ reapTime' = [reapTime EXCEPT ![s] = now]
           /\ UNCHANGED active
      ELSE UNCHANGED <<state, reapTime, active>>

\* Mutant of svc_handle_reaped: the state == UP test is dropped
svc_handle_reaped_AnyState(s) ==
    /\ state' = [state EXCEPT ![s] = REAPED]
    /\ reapTime' = [reapTime EXCEPT ![s] = now]
    /\ active' = svc_set_active(active, s, TRUE)

\* svc_handle_reaped: only a service that is UP takes notice
svc_handle_reaped(s) ==
    IF state[s] = UP
      THEN /\ state' = [state EXCEPT ![s] = REAPED]
           /\ reapTime' = [reapTime EXCEPT ![s] = now]
           /\ active' = svc_set_active(active, s, TRUE)
      ELSE UNCHANGED <<state, reapTime, active>>

\* waitpid(-1, WNOHANG) returns a zombie, which the kernel frees; the
\* service svc_by_pid finds for it, if any, is told
Reap(p) ==
    /\ phase = "reap"
    /\ proc[p] = "zombie"
    /\ proc' = [proc EXCEPT ![p] = "free"]
    /\ childOf' = [childOf EXCEPT ![p] = NoSvc]
    /\ IF svc_by_pid(p) # NoSvc THEN svc_handle_reaped(svc_by_pid(p))
                                ELSE UNCHANGED <<state, reapTime, active>>
    /\ UNCHANGED <<phase, running, toRun, now, next, pid, startTime,
                   autoRestart, freeList, pidIndex, prevFork, autoPending, deletes, lastKill, cmds>>

\* waitpid returned 0: go on with the tick
ReapDone ==
    /\ phase = "reap"
    /\ \A p \in Pids : proc[p] # "zombie"
    /\ EndPhase
    /\ UNCHANGED <<running, now, next, state, pid, startTime, reapTime,
                   autoRestart, active, freeList, pidIndex, proc, childOf,
                   prevFork, autoPending, deletes, lastKill, cmds>>

-----------------------------------------------------------------------------
(* svc_run_active and the cases of svc_run                                 *)

\* svc_run_active: take the next service of the list (its successor was
\* read before svc_run, and svc_run only links or unlinks the service itself)
SvcRunNext ==
    /\ phase = "svc" /\ running = NoSvc /\ toRun # <<>>
    /\ running' = Head(toRun)
    /\ toRun' = Tail(toRun)
    /\ UNCHANGED <<phase, now, next, state, pid, startTime, reapTime,
                   autoRestart, active, freeList, pidIndex, proc, childOf,
                   prevFork, autoPending, deletes, lastKill, cmds>>

SvcRunDone ==
    /\ phase = "svc" /\ running = NoSvc /\ toRun = <<>>
    /\ EndPhase
    /\ UNCHANGED <<running, now, next, state, pid, startTime, reapTime,
                   autoRestart, active, freeList, pidIndex, proc, childOf,
                   prevFork, autoPending, deletes, lastKill, cmds>>

\* case START_PENDING, deadline not reached: lower wake->next, stay active
RunPendingWait(s) ==
    /\ running = s /\ state[s] = START_PENDING
    /\ startTime[s] - now > 0
    /\ next' = IF startTime[s] - next < 0 THEN startTime[s] ELSE next
    /\ active' = svc_set_active(active, s, TRUE)
    /\ running' = NoSvc
    /\ UNCHANGED <<phase, toRun, now, state, pid, startTime, reapTime,
                   autoRestart, freeList, pidIndex, proc, childOf, prevFork,
                   autoPending, deletes, lastKill, cmds>>

\* case START_PENDING, deadline reached: fall through to START
RunPendingDue(s) ==
    /\ running = s /\ state[s] = START_PENDING
    /\ ~(startTime[s] - now > 0)
    /\ state' = [state EXCEPT ![s] = START]
    /\ UNCHANGED <<phase, running, toRun, now, next, pid, startTime, reapTime,
                   autoRestart, active, freeList, pidIndex, proc, childOf,
                   prevFork, autoPending, deletes, lastKill, cmds>>

\* case START, fork() > 0: the kernel gives the child a free pid
RunForkOk(s, p) ==
    /\ running = s /\ state[s] = START
    /\ proc[p] = "free"
    /\ proc' = [proc EXCEPT ![p] = "running"]
    /\ childOf' = [childOf EXCEPT ![p] = s]
    /\ svc_change_pid(s, p)
    /\ startTime' = [startTime EXCEPT ![s] = NonZero(now)]
    /\ state' = [state EXCEPT ![s] = UP]
    /\ prevFork' = [prevFork EXCEPT ![s] = now]
    /\ UNCHANGED <<phase, running, toRun, now, next, reapTime, autoRestart,
                   active, freeList, autoPending, deletes, lastKill, cmds>>

\* Mutant of RunForkFail: the -1 returned by fork() is stored as the pid
RunForkFail_StorePid(s) ==
    /\ running = s /\ state[s] = START
    /\ pid' = [pid EXCEPT ![s] = -1]
    /\ UNCHANGED <<phase, running, toRun, now, next, state, startTime, reapTime,
                   autoRestart, active, freeList, pidIndex, proc, childOf,
                   prevFork, autoPending, deletes, lastKill, cmds>>

\* case START, fork() < 0: svc_handle_start(svc, now + FORK_RETRY_DELAY)
\* is called while the state is still START, so its state check refuses it
\* and nothing changes; "goto re_switch_state" then lands in case START again.
RunForkFail(s) ==
    /\ running = s /\ state[s] = START
    /\ ~(state[s] \in {DOWN, START_PENDING})
    /\ UNCHANGED vars

\* Mutant of RunUp: the UP case jumps back to re_switch_state instead of break
RunUp_NoBreak(s) ==
    /\ running = s /\ state[s] = UP
    /\ active' = svc_set_active(active, s, FALSE)
    /\ UNCHANGED <<phase, running, toRun, now, next, state, pid, startTime, reapTime,
                   autoRestart, freeList, pidIndex, proc, childOf, prevFork,
                   autoPending, deletes, lastKill, cmds>>

\* case UP: leave the active list until waitpid reactivates the service
RunUp(s) ==
    /\ running = s /\ state[s] = UP
    /\ active' = svc_set_active(active, s, FALSE)
    /\ running' = NoSvc
    /\ UNCHANGED <<phase, toRun, now, next, state, pid, startTime, reapTime,
                   autoRestart, freeList, pidIndex, proc, childOf, prevFork,
                   autoPending, deletes, lastKill, cmds>>

\* Mutant of RunReaped: the restart-interval test is reversed
RunReaped_SwappedTest(s) ==
    /\ running = s /\ state[s] = REAPED
    /\ IF autoRestart[s]
         THEN /\ StartService(s, IF reapTime[s] - startTime[s] > SERVICE_RESTART_INTERVAL
                                   THEN now + SERVICE_RESTART_INTERVAL ELSE now)
              /\ autoPending' = [autoPending EXCEPT ![s] = TRUE]
         ELSE /\ state' = [state EXCEPT ![s] = DOWN]
              /\ UNCHANGED <<startTime, pid, pidIndex, reapTime, active, autoPending>>
    /\ UNCHANGED <<phase, running, toRun, now, next, autoRestart, freeList,
                   proc, childOf, prevFork, deletes, lastKill, cmds>>

\* case REAPED: go DOWN, and restart if auto_restart, delayed when the
\* child lived less than SERVICE_RESTART_INTERVAL
RunReaped(s) ==
    /\ running = s /\ state[s] = REAPED
    /\ IF autoRestart[s]
         THEN /\ StartService(s, IF reapTime[s] - startTime[s] < SERVICE_RESTART_INTERVAL
                                   THEN now + SERVICE_RESTART_INTERVAL ELSE now)
              /\ autoPending' = [autoPending EXCEPT ![s] = TRUE]
         ELSE /\ state' = [state EXCEPT ![s] = DOWN]
              /\ UNCHANGED <<startTime, pid, pidIndex, reapTime, active, autoPending>>
    /\ UNCHANGED <<phase, running, toRun, now, next, autoRestart, freeList,
                   proc, childOf, prevFork, deletes, lastKill, cmds>>

\* case DOWN: leave the active list
RunDown(s) ==
    /\ running = s /\ state[s] = DOWN
    /\ active' = svc_set_active(active, s, FALSE)
    /\ running' = NoSvc
    /\ UNCHANGED <<phase, toRun, now, next, state, pid, startTime, reapTime,
                   autoRestart, freeList, pidIndex, proc, childOf, prevFork,
                   autoPending, deletes, lastKill, cmds>>

SvcRun(s) ==
    \/ RunPendingWait(s) \/ RunPendingDue(s)
    \/ \E p \in Pids : RunForkOk(s, p)
    \/ RunForkFail(s) \/ RunUp(s) \/ RunReaped(s) \/ RunDown(s)

-----------------------------------------------------------------------------
(* Controller commands (ctl_run) and the rest of the tick                  *)

CmdVars == <<phase, running, toRun, now, next, proc, childOf, prevFork>>

\* ctl_run reads a command line; each command is one step
CmdStep == phase = "ctl" /\ cmds < MaxCmdsPerTick /\ cmds' = cmds + 1

\* svc_by_name(name, create=true) on a new name: pop the free list
CmdCreate ==
    LET s == Head(freeList) IN
    /\ CmdStep /\ freeList # <<>>
    /\ freeList' = Tail(freeList)
    /\ state' = [state EXCEPT ![s] = DOWN]
    /\ pid' = [pid EXCEPT ![s] = NoPid]
    /\ autoRestart' = [autoRestart EXCEPT ![s] = FALSE]
    /\ startTime' = [startTime EXCEPT ![s] = 0]
    /\ reapTime' = [reapTime EXCEPT ![s] = 0]
    /\ UNCHANGED <<CmdVars, active, pidIndex, autoPending, deletes, lastKill>>

\* service.auto-restart: sets svc->auto_restart
CmdAutoRestart(s, b) ==
    /\ CmdStep /\ s \in InUse
    /\ autoRestart' = [autoRestart EXCEPT ![s] = b]
    /\ UNCHANGED <<CmdVars, state, pid, startTime, reapTime, active, freeList,
                   pidIndex, autoPending, deletes, lastKill>>

\* service.start: svc_handle_start(svc, now + d)
CmdStart(s, d) ==
    /\ CmdStep /\ s \in InUse
    /\ svc_handle_start(s, now + d)
    /\ autoPending' = [autoPending EXCEPT ![s] = FALSE]
    /\ UNCHANGED <<CmdVars, autoRestart, freeList, deletes, lastKill>>

\* kill(svc->pid, sig) as svc_send_signal and svc_delete issue it
Kill(s) == lastKill' = [svc |-> s, pid |-> pid[s], owner |-> childOf[pid[s]]]

\* service.signal: svc_send_signal sends iff svc->pid > 0 (the child's
\* reaction, if any, is a ChildExit)
CmdSignal(s) ==
    /\ CmdStep /\ s \in InUse
    /\ pid[s] # NoPid
    /\ Kill(s)
    /\ UNCHANGED <<CmdVars, state, pid, startTime, reapTime, autoRestart, active,
                   freeList, pidIndex, autoPending, deletes>>

\* Mutant of CmdDelete: the pid node is pruned only while the service is UP
CmdDelete_PruneIfUp(s) ==
    /\ CmdStep /\ s \in InUse
    /\ deletes < MaxDeletes
    /\ active' = svc_set_active(active, s, FALSE)
    /\ IF pid[s] # NoPid
         THEN Kill(s) /\ pidIndex' = IF state[s] = UP THEN PrunePid(pidIndex, s) ELSE pidIndex
         ELSE UNCHANGED <<lastKill, pidIndex>>
    /\ freeList' = Cons(s, freeList)
    /\ deletes' = deletes + 1
    /\ UNCHANGED <<CmdVars, state, pid, startTime, reapTime, autoRestart,
                   autoPending>>

\* service.delete: svc_delete (SIGTERM to svc->pid if set, prune both
\* indexes, push the slot on the free list)
CmdDelete(s) ==
    /\ CmdStep /\ s \in InUse
    /\ deletes < MaxDeletes
    /\ active' = svc_set_active(active, s, FALSE)
    /\ IF pid[s] # NoPid
         THEN Kill(s) /\ pidIndex' = PrunePid(pidIndex, s)
         ELSE UNCHANGED <<lastKill, pidIndex>>
    /\ freeList' = Cons(s, freeList)
    /\ deletes' = deletes + 1
    /\ UNCHANGED <<CmdVars, state, pid, startTime, reapTime, autoRestart,
                   autoPending>>

\* ctl_run (and in daemonproxy.c log_run) is done
CtlDone ==
    /\ phase = "ctl"
    /\ EndPhase
    /\ UNCHANGED <<running, now, next, state, pid, startTime, reapTime,
                   autoRestart, active, freeList, pidIndex, proc, childOf,
                   prevFork, autoPending, deletes, lastKill, cmds>>

\* select() with timeout max(0, next - now), woken early by any fd event;
\* then the top of the loop sets next = now + 200 s
Sleep ==
    /\ phase = "sleep"
    /\ \E t \in now .. (IF next - now > 0 THEN next ELSE now) :
         /\ now' = IF t > MaxTime THEN MaxTime ELSE t
         /\ next' = now' + WAKE_INTERVAL
    /\ phase' = "reap"
    /\ cmds' = 0
    /\ lastKill' = NoKill
    /\ UNCHANGED <<running, toRun, state, pid, startTime, reapTime, autoRestart,
                   active, freeList, pidIndex, proc, childOf, prevFork,
                   autoPending, deletes>>

\* kernel: a child exits and becomes a zombie (at any time)
ChildExit(p) ==
    /\ proc[p] = "running"
    /\ proc' = [proc EXCEPT ![p] = "zombie"]
    /\ UNCHANGED <<phase, running, toRun, now, next, state, pid, startTime,
                   reapTime, autoRestart, active, freeList, pidIndex, childOf,
                   prevFork, autoPending, deletes, lastKill, cmds>>

-----------------------------------------------------------------------------

\* svc_init: all slots zeroed and on the free list; the loop starts a tick
Init ==
    /\ phase = "reap"
    /\ running = NoSvc
    /\ toRun = <<>>
    /\ now = 1
    /\ next = 1 + WAKE_INTERVAL
    /\ state = [s \in Svc |-> UNDEF]
    /\ pid = [s \in Svc |-> NoPid]
    /\ startTime = [s \in Svc |-> 0]
    /\ reapTime = [s \in Svc |-> 0]
    /\ autoRestart = [s \in Svc |-> FALSE]
    /\ active = <<>>
    /\ freeList = SetToSeq(Svc)
    /\ pidIndex = [p \in Pids |-> NoSvc]
    /\ proc = [p \in Pids |-> "free"]
    /\ childOf = [p \in Pids |-> NoSvc]
    /\ prevFork = [s \in Svc |-> 0]
    /\ autoPending = [s \in Svc |-> FALSE]
    /\ deletes = 0
    /\ lastKill = NoKill
    /\ cmds = 0

\* the daemonproxy process itself: every step of its loop
LoopStep ==
    \/ \E p \in Pids : Reap(p)
    \/ ReapDone \/ SvcRunNext \/ SvcRunDone
    \/ \E s \in Svc : SvcRun(s)
    \/ CtlDone \/ Sleep

\* what the controllers and the children do
Environment ==
    \/ CmdCreate
    \/ \E s \in Svc, b \in BOOLEAN : CmdAutoRestart(s, b)
    \/ \E s \in Svc, d \in StartDelays : CmdStart(s, d)
    \/ \E s \in Svc : CmdSignal(s) \/ CmdDelete(s)
    \/ \E p \in Pids : ChildExit(p)

Next == LoopStep \/ Environment

\* The loop is a single thread that never blocks except in select(), whose
\* timeout always expires: it is weakly fair. Controllers and children are not.
Spec == Init /\ [][Next]_vars /\ WF_vars(LoopStep)

-----------------------------------------------------------------------------
(* Properties                                                              *)

TypeOK ==
    /\ phase \in {"reap", "svc", "ctl", "sleep"}
    /\ running \in Svc \cup {NoSvc}
    /\ toRun \in Seq(Svc)
    /\ now \in Nat /\ next \in Nat
    /\ state \in [Svc -> States]
    /\ pid \in [Svc -> Pids \cup {NoPid}]
    /\ startTime \in [Svc -> Nat] /\ reapTime \in [Svc -> Nat]
    /\ autoRestart \in [Svc -> BOOLEAN]
    /\ active \in Seq(Svc) /\ freeList \in Seq(Svc)
    /\ pidIndex \in [Pids -> Svc \cup {NoSvc}]
    /\ proc \in [Pids -> {"free", "running", "zombie"}]
    /\ childOf \in [Pids -> Svc \cup {NoSvc}]
    /\ prevFork \in [Svc -> Nat] /\ autoPending \in [Svc -> BOOLEAN]
    /\ deletes \in 0..MaxDeletes
    /\ cmds \in 0..MaxCmdsPerTick
    /\ lastKill \in {NoKill} \cup
         [svc : Svc, pid : Pids, owner : Svc \cup {NoSvc}]

\* Every slot is either on the free list or in use, never both, and the
\* active list only holds services in use that still have work: exactly
\* those pending, starting or reaped, whenever no svc_run is in progress.
\* A service left off the list stalls for good (svc_set_active in
\* svc_handle_start, svc_handle_reaped, svc_run and svc_delete).
ActiveListExact ==
    running = NoSvc =>
        ToSet(active) = {s \in InUse : state[s] \in {START_PENDING, START, REAPED}}

\* The pid index never leads waitpid to a freed slot or to a service whose
\* pid is another one: svc_change_pid and svc_delete keep it in step.
PidIndexSound ==
    \A p \in Pids : pidIndex[p] # NoSvc =>
        /\ pidIndex[p] \in InUse
        /\ pid[pidIndex[p]] = p

\* An automatic restart (case REAPED with auto_restart) never forks sooner
\* than SERVICE_RESTART_INTERVAL after the previous fork of that service,
\* unless a service.start command intervened.
RestartRateLimited ==
    [][\A s \in Svc :
         (state[s] = START /\ state'[s] = UP /\ autoPending[s])
            => now - prevFork[s] >= SERVICE_RESTART_INTERVAL]_vars

\* The main loop always gets back to select(): no svc_run, reap loop or
\* command processing runs forever.
LoopNeverHangs == []<>(phase = "sleep")

\* Whenever a child of a running service is alive, waitpid will find that
\* service through svc_by_pid (the spec: a nonzero pid is in the pid map).
LiveChildReapable ==
    \A p \in Pids :
        (proc[p] # "free" /\ childOf[p] \in InUse /\ state[childOf[p]] = UP)
            => pidIndex[p] = childOf[p]

\* svc_send_signal and svc_delete only ever signal the service's own child
\* (or a pid no process holds): never a process of another service.
SignalOnlyOwnChild ==
    lastKill # NoKill => lastKill.owner \in {lastKill.svc, NoSvc}

\* When the loop goes to sleep, it is due to wake no later than any service
\* needs it: a START service at once, a pending one by its start time.
StartDeadlineWakes ==
    phase = "sleep" =>
        \A s \in InUse :
            /\ state[s] = START => next - now <= 0
            /\ state[s] = START_PENDING => next - startTime[s] <= 0

-----------------------------------------------------------------------------
(* Refinement of the service lifecycle                                     *)

\* The lifecycle state a slot's svc->state stands for
LifeOf(s) ==
    IF s \notin InUse THEN "free"
    ELSE CASE state[s] = DOWN -> "down"
           [] state[s] \in {START_PENDING, START} -> "starting"
           [] state[s] = UP -> "up"
           [] state[s] = REAPED -> "reaped"
           [] state[s] = UNDEF -> "undefined"

\* The service's own child runs: its pid is held by a running process the
\* service forked
OwnChildRuns(s) ==
    s \in InUse /\ pid[s] # NoPid /\ proc[pid[s]] = "running" /\ childOf[pid[s]] = s

Life == INSTANCE ServiceLifecycle
            WITH life <- [s \in Svc |-> LifeOf(s)],
                 child <- [s \in Svc |-> OwnChildRuns(s)]

\* Every step of the loop, the commands and the children is a step of the
\* lifecycle of spec.md 4.5.2: in particular the reap pass (waitpid,
\* svc_by_pid, svc_handle_reaped) marks a service reaped only after its own
\* child has exited, never on another process's exit found through a stale
\* pid index entry.
LifecycleRefined == Life!Spec

=============================================================================
