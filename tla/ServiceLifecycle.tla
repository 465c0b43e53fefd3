--------------------------- MODULE ServiceLifecycle ---------------------------
(***************************************************************************)
(* What a service slot promises, as spec.md section 4.5.2 describes it,    *)
(* without the pid index, the active list, time or the loop's phases: a    *)
(* slot is free or holds a service that is down, starting (start-pending   *)
(* or start), up or reaped; an up service has one child, and the reap pass *)
(* moves it to reaped only once that child has exited. Deletion returns    *)
(* the slot whatever its state, leaving any child to run on unowned.       *)
(***************************************************************************)
CONSTANTS Svc

VARIABLES
    life,   \* per slot: "free", "down", "starting", "up" or "reaped"
    child   \* per slot: the service's own child process is running

lifeVars == <<life, child>>

Lives == {"free", "down", "starting", "up", "reaped"}

Set(s, l) == life' = [life EXCEPT ![s] = l]

\* a free slot becomes a service that is down
Create(s) == life[s] = "free" /\ Set(s, "down") /\ UNCHANGED child

\* handle_start on a service down or already waiting to start
Request(s) == life[s] \in {"down", "starting"} /\ Set(s, "starting") /\ UNCHANGED child

\* a successful fork: the service is up and its child runs
Launch(s) ==
    /\ life[s] = "starting" /\ Set(s, "up")
    /\ child' = [child EXCEPT ![s] = TRUE]

\* the child exits (it is not reaped yet)
ChildExits(s) == child[s] /\ child' = [child EXCEPT ![s] = FALSE] /\ UNCHANGED life

\* the reap pass: up -> reaped, only after the service's own child exited
Exit(s) == life[s] = "up" /\ ~child[s] /\ Set(s, "reaped") /\ UNCHANGED child

\* the reaped case: down, or back into the start sequence on auto-restart
Settle(s) ==
    /\ life[s] = "reaped"
    /\ \E l \in {"down", "starting"} : Set(s, l)
    /\ UNCHANGED child

\* delete: the slot is free again; a running child is no longer the slot's
Delete(s) ==
    /\ life[s] # "free" /\ Set(s, "free")
    /\ child' = [child EXCEPT ![s] = FALSE]

Init == life = [s \in Svc |-> "free"] /\ child = [s \in Svc |-> FALSE]

Next ==
    \E s \in Svc :
        \/ Create(s) \/ Request(s) \/ Launch(s) \/ ChildExits(s)
        \/ Exit(s) \/ Settle(s) \/ Delete(s)

Spec == Init /\ [][Next]_lifeVars

=============================================================================
