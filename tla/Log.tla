--------------------------------- MODULE Log ---------------------------------
(***************************************************************************)
(* The log sink of src/src/log.c: the record buffer, the blocked/retry     *)
(* state and the lost-message counter, driven by the main loop's log_run   *)
(* once per tick and by log_write from anywhere in the tick.               *)
(*                                                                         *)
(* Records are abstracted to their byte counts: a record of size k is      *)
(* "level: message\n". The descriptor is the one log_init attaches         *)
(* (log_fd = 2; nothing in the repository resets it). What a write() on it *)
(* accepts is the free room of the reader's side (a pipe or terminal),     *)
(* which a reader drains. Time is abstracted to where the retry deadline   *)
(* log_blocked_next_attempt stands: none (0), pending or due.              *)
(***************************************************************************)
EXTENDS Integers, SequencesExt

CONSTANTS
    BufCap,     \* sizeof(log_buffer)
    PipeCap,    \* what the reader's side holds when drained
    MsgSizes,   \* byte counts of the records components log
    LostBase,   \* length of "warning: lost  log messages\n" without the number
    MaxIssued   \* bound on log_write calls

ASSUME BufCap \in Nat \ {0} /\ PipeCap \in Nat \ {0} /\ MsgSizes \subseteq Nat \ {0}

VARIABLES
    bufPos,    \* log_buf_pos
    msgLost,   \* log_msg_lost
    blocked,   \* log_blocked
    retry,     \* log_blocked_next_attempt: "none" (0), "pending" or "due"
    wantWr,    \* log_run called wake_on_writeable_only(log_fd) for this sleep
    wokeWr,    \* woke_on_writeable_only(log_fd): the sleep ended on writability
    room,      \* bytes the reader's side accepts before write() blocks
    phase,     \* where the main loop's tick is: "work", "run" or "sleep"
    issued,    \* history: log_write calls that passed the level filter
    accepted,  \* history: records appended to the buffer
    reported   \* history: messages counted by "lost N" records appended

vars == <<bufPos, msgLost, blocked, retry, wantWr, wokeWr, room, phase,
          issued, accepted, reported>>

-----------------------------------------------------------------------------

\* The number of characters %d prints for k >= 0
RECURSIVE Digits(_)
Digits(k) == IF k < 10 THEN 1 ELSE 1 + Digits(k \div 10)

\* snprintf(..., "warning: lost %d log messages\n", k)
LostLen(k) == LostBase + Digits(k)

\* The sink's state as a record, so that log_flush is an operator
Sink == [pos |-> bufPos, lost |-> msgLost, blocked |-> blocked, room |-> room,
         reported |-> reported]

SetSink(s) ==
    /\ bufPos' = s.pos
    /\ msgLost' = s.lost
    /\ blocked' = s.blocked
    /\ room' = s.room
    /\ reported' = s.reported

\* The while loop of log_flush: write() takes what the reader has room for
\* (a write with no room blocks until the LOG_WRITE_TIMEOUT timer interrupts
\* it, and fails); after each write the "lost N" record is appended if it
\* fits with its NUL
RECURSIVE FlushLoop(_)
FlushLoop(s) ==
    IF s.pos = 0 THEN s
    ELSE IF s.room = 0 THEN [s EXCEPT !.blocked = TRUE]
    ELSE LET n == Min({s.room, s.pos})
             s1 == [s EXCEPT !.pos = @ - n, !.room = @ - n]
         IN FlushLoop(IF s1.lost > 0 /\ LostLen(s1.lost) < BufCap - s1.pos
                        THEN [s1 EXCEPT !.pos = @ + LostLen(s1.lost),
                                        !.reported = @ + s1.lost, !.lost = 0]
                        ELSE s1)

\* log_flush: nothing while blocked (log_fd is never negative)
log_flush(s) == IF s.blocked THEN s ELSE FlushLoop(s)

\* Mutant of log_write: a record that does not fit is dropped uncounted
log_write_NoCount(size) ==
    /\ phase = "work" /\ issued < MaxIssued
    /\ issued' = issued + 1
    /\ IF msgLost > 0
         THEN /\ msgLost' = msgLost + 1
              /\ UNCHANGED <<bufPos, blocked, room, accepted, reported>>
       ELSE IF size > BufCap - bufPos
         THEN UNCHANGED <<bufPos, msgLost, blocked, room, accepted, reported>>
       ELSE /\ SetSink(log_flush([Sink EXCEPT !.pos = @ + size]))
            /\ accepted' = accepted + 1
    /\ UNCHANGED <<retry, wantWr, wokeWr, phase>>

\* Mutant of log_write: the room test lets a record one byte too long in
log_write_FitOffByOne(size) ==
    /\ phase = "work" /\ issued < MaxIssued
    /\ issued' = issued + 1
    /\ IF msgLost > 0
         THEN /\ msgLost' = msgLost + 1
              /\ UNCHANGED <<bufPos, blocked, room, accepted, reported>>
       ELSE IF size > BufCap - bufPos + 1
         THEN /\ msgLost' = msgLost + 1
              /\ UNCHANGED <<bufPos, blocked, room, accepted, reported>>
       ELSE /\ SetSink(log_flush([Sink EXCEPT !.pos = @ + size]))
            /\ accepted' = accepted + 1
    /\ UNCHANGED <<retry, wantWr, wokeWr, phase>>

\* log_write(level, ...) of a record of `size` bytes that passed the filter:
\* dropped and counted while messages are already lost or when the prefix or
\* the message does not fit with its NUL (together: size > free space);
\* otherwise appended and flushed
log_write(size) ==
    /\ phase = "work" /\ issued < MaxIssued
    /\ issued' = issued + 1
    /\ IF msgLost > 0
         THEN /\ msgLost' = msgLost + 1
              /\ UNCHANGED <<bufPos, blocked, room, accepted, reported>>
       ELSE IF size > BufCap - bufPos
         THEN /\ msgLost' = msgLost + 1
              /\ UNCHANGED <<bufPos, blocked, room, accepted, reported>>
       ELSE /\ SetSink(log_flush([Sink EXCEPT !.pos = @ + size]))
            /\ accepted' = accepted + 1
    /\ UNCHANGED <<retry, wantWr, wokeWr, phase>>

\* The rest of the tick's work is done; the loop calls log_run
EndWork ==
    /\ phase = "work"
    /\ phase' = "run"
    /\ UNCHANGED <<bufPos, msgLost, blocked, retry, wantWr, wokeWr, room,
                   issued, accepted, reported>>

\* Mutant of log_run: a blocked sink without a deadline asks for no
\* writable wake-up
log_run_NoWriteWake ==
    /\ phase = "run"
    /\ phase' = "sleep"
    /\ IF blocked /\ (wokeWr \/ retry = "due")
         THEN LET s == log_flush([Sink EXCEPT !.blocked = FALSE]) IN
              /\ SetSink(s)
              /\ retry' = IF s.blocked THEN "pending" ELSE "none"
              /\ wantWr' = FALSE
         ELSE /\ wantWr' = FALSE
              /\ UNCHANGED <<bufPos, msgLost, blocked, retry, room, reported>>
    /\ UNCHANGED <<wokeWr, issued, accepted>>

\* log_run: when blocked and woken on writability or past the deadline,
\* unblock and flush; a failed retry sets the deadline LOG_RETRY_DELAY away.
\* Still blocked, it asks the select for the deadline if one is set, else
\* for writability.
log_run ==
    /\ phase = "run"
    /\ phase' = "sleep"
    /\ IF blocked /\ (wokeWr \/ retry = "due")
         THEN LET s == log_flush([Sink EXCEPT !.blocked = FALSE]) IN
              /\ SetSink(s)
              /\ retry' = IF s.blocked THEN "pending" ELSE "none"
              /\ wantWr' = FALSE
         ELSE /\ wantWr' = (blocked /\ retry = "none")
              /\ UNCHANGED <<bufPos, msgLost, blocked, retry, room, reported>>
    /\ UNCHANGED <<wokeWr, issued, accepted>>

\* select() returns before the deadline (another event, or the writable
\* log fd it was asked to watch)
Sleep ==
    /\ phase = "sleep"
    /\ phase' = "work"
    /\ wokeWr' = (wantWr /\ room > 0)
    /\ wantWr' = FALSE
    /\ UNCHANGED <<bufPos, msgLost, blocked, retry, room, issued, accepted, reported>>

\* select() sleeps past log_blocked_next_attempt: the clock passes it
SleepPastDeadline ==
    /\ phase = "sleep" /\ retry = "pending"
    /\ phase' = "work"
    /\ retry' = "due"
    /\ wokeWr' = (wantWr /\ room > 0)
    /\ wantWr' = FALSE
    /\ UNCHANGED <<bufPos, msgLost, blocked, room, issued, accepted, reported>>

\* The reader takes what was written
Drain ==
    /\ room < PipeCap
    /\ room' = PipeCap
    /\ UNCHANGED <<bufPos, msgLost, blocked, retry, wantWr, wokeWr, phase,
                   issued, accepted, reported>>

\* log_init: log_fd = 2, and log_fd_attach sees it valid: not blocked, no
\* deadline, nothing to flush
Init ==
    /\ bufPos = 0 /\ msgLost = 0
    /\ blocked = FALSE /\ retry = "none"
    /\ wantWr = FALSE /\ wokeWr = FALSE
    /\ room \in 0..PipeCap
    /\ phase = "work"
    /\ issued = 0 /\ accepted = 0 /\ reported = 0

Next ==
    \/ \E k \in MsgSizes : log_write(k)
    \/ EndWork
    \/ log_run
    \/ Sleep
    \/ SleepPastDeadline
    \/ Drain

\* The loop is one thread that always gets back to log_run and select();
\* the monotonic clock passes any deadline the loop keeps sleeping towards;
\* the reader keeps reading. Components logging get no fairness.
Fairness ==
    /\ WF_vars(EndWork) /\ WF_vars(log_run)
    /\ WF_vars(Sleep \/ SleepPastDeadline) /\ SF_vars(SleepPastDeadline)
    /\ WF_vars(Drain)

Spec == Init /\ [][Next]_vars /\ Fairness

-----------------------------------------------------------------------------
(* Properties                                                              *)

TypeOK ==
    /\ bufPos \in 0..BufCap
    /\ msgLost \in 0..MaxIssued
    /\ blocked \in BOOLEAN
    /\ retry \in {"none", "pending", "due"}
    /\ wantWr \in BOOLEAN /\ wokeWr \in BOOLEAN
    /\ room \in 0..PipeCap
    /\ phase \in {"work", "run", "sleep"}
    /\ issued \in 0..MaxIssued /\ accepted \in 0..MaxIssued
    /\ reported \in 0..MaxIssued

\* Every record log_write was given is appended, counted in a "lost N"
\* record already appended, or counted in log_msg_lost: the counter of
\* log_write and its reset in log_flush lose nothing.
MessagesAccounted == issued = accepted + reported + msgLost

\* Once messages are lost, the "lost N" record eventually reports them and
\* the counter is reset, as long as the reader keeps reading.
LostEventuallyReported == msgLost > 0 ~> msgLost = 0

=============================================================================
