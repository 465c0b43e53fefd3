------------------------------ MODULE InitFrame ------------------------------
(***************************************************************************)
(* The command line of src/init-frame.c: parse_opts walks argv through    *)
(* parse_option and its option_table, whose handlers set the main_*       *)
(* globals, and every error goes through this file's fatal(), which       *)
(* execs the exec-on-exit program if one is set and returns only in       *)
(* failsafe mode.                                                          *)
(*                                                                         *)
(* argv is a sequence of abstract arguments: a long option ("--name"), a  *)
(* cluster of short options ("-cF", or "-" alone), or a word (a path that  *)
(* stat() finds or not). The process's memory after argv's NULL holds the *)
(* environment, words ending in their own NULL, which is where argv++     *)
(* lands if the pointer is moved past argv's end.                          *)
(*                                                                         *)
(* After the options, main() opens /dev/null as the "null" handle, the     *)
(* config file and the stdin controller, locks memory, and runs the main   *)
(* loop (modelled in Service) until a controller sets main_terminate;      *)
(* every failure on the way again goes through fatal().                    *)
(***************************************************************************)
EXTENDS Integers, Sequences, SequencesExt

CONSTANTS
    LongNames,   \* names after "--" the command lines use
    Clusters,    \* option letters after "-" the command lines use
    MaxArgs,     \* bound on the length of argv
    MaxEnv       \* bound on the number of environment strings

ASSUME MaxArgs \in Nat /\ MaxEnv \in Nat

NULL == [kind |-> "null"]
NoShort == "none"
\* CONFIG_FILE_DEFAULT_PATH
DefaultCfg == [kind |-> "default"]

Args ==
    [kind : {"long"}, name : LongNames]
    \cup [kind : {"short"}, chars : Clusters]
    \cup [kind : {"word"}, exists : BOOLEAN]

\* environment strings: NAME=value, never an option
EnvStrings == [kind : {"word"}, exists : {FALSE}]

\* option_table, in order: letter, long name, argument count, handler
option_table ==
    << [short |-> "v", long |-> "verbose", argc |-> 0],
       [short |-> "q", long |-> "quiet", argc |-> 0],
       [short |-> "c", long |-> "config-file", argc |-> 1],
       [short |-> NoShort, long |-> "stdin", argc |-> 0],
       [short |-> "M", long |-> "mlockall", argc |-> 0],
       [short |-> "F", long |-> "failsafe", argc |-> 0],
       [short |-> "E", long |-> "exec-on-exit", argc |-> 1] >>

\* main_loglevel's default, LOG_LEVEL_INFO
LOG_LEVEL_INFO == 0

VARIABLES
    argv,    \* the arguments after argv[0]
    envp,    \* the environment, laid out after argv's NULL
    pos,     \* index in Mem of the element argv points at
    cluster, \* letters of the "-..." argument still to parse
    opt,     \* the main_* globals the handlers set
    pc,      \* "parse", "cluster", "parsed", "config", "stdin", "mlock",
             \* "loop", "exit" or "exec"
    pid1,    \* getpid() == 1
    errors,  \* steps whose fatal() returned (failsafe)
    nullFd,  \* what fd_assign("null", f, ...) got: "devnull", "stderr"
    onStdin, \* config_on_stdin
    ctls,    \* controllers ctl_new created: source and auto final newline
    mlocked  \* mlockall() succeeded

boot == <<nullFd, onStdin, ctls, mlocked>>
vars == <<argv, envp, pos, cluster, opt, pc, pid1, errors, nullFd, onStdin, ctls, mlocked>>

\* the memory argv points into
Mem == argv \o <<NULL>> \o envp \o <<NULL>>

\* stat(path) succeeds
Stat(a) == a.kind = "word" /\ a.exists

\* strcmp(main_cfgfile, "-") == 0: the argument "-" alone
IsDash(a) == a.kind = "short" /\ a.chars = <<>>

-----------------------------------------------------------------------------
(* fatal() and the handlers                                                *)

\* fatal(): execl(main_exec_on_exit) replaces the process if it works;
\* otherwise failsafe prints the message and goes on with `cont`, and
\* anything else exits
Fatal(cont) ==
    \/ /\ opt.exec # NULL /\ Stat(opt.exec)
       /\ pc' = "exec" /\ UNCHANGED <<pos, cluster, opt, errors, boot>>
    \/ IF opt.failsafe THEN cont /\ errors' = errors + 1
                       ELSE pc' = "exit" /\ UNCHANGED <<pos, cluster, opt, errors, boot>>

\* set_opt_*: the globals after the handler of entry en, given argv[0] = a
Handler(en, a) ==
    CASE en.long = "verbose" -> [opt EXCEPT !.loglevel = @ - 1]
      [] en.long = "quiet" -> [opt EXCEPT !.loglevel = @ + 1]
      [] en.long = "config-file" -> [opt EXCEPT !.cfgfile = a]
      [] en.long = "stdin" -> [opt EXCEPT !.stdin = TRUE]
      [] en.long = "mlockall" -> [opt EXCEPT !.mlockall = TRUE]
      [] en.long = "failsafe" -> [opt EXCEPT !.failsafe = TRUE]
      [] en.long = "exec-on-exit" -> [opt EXCEPT !.exec = a]

\* Mutant of HandlerFails: the stat() result is not tested
HandlerFails_NoStat(en, a) == FALSE

\* the handler calls fatal() when stat() fails on its argument
HandlerFails(en, a) == en.argc = 1 /\ ~Stat(a)

\* the first entry of option_table for the letter c or the long name n
Matches(en, c, n) == (c # NoShort /\ c = en.short) \/ (n # NoShort /\ n = en.long)
Known(c, n) == \E i \in DOMAIN option_table : Matches(option_table[i], c, n)
Entry(c, n) ==
    option_table[CHOOSE i \in DOMAIN option_table :
                    /\ Matches(option_table[i], c, n)
                    /\ \A j \in 1..(i - 1) : ~Matches(option_table[j], c, n)]

\* a required argument is NULL: argv ends before it
MissingArg(en, p) == \E i \in 0..(en.argc - 1) : Mem[p + i] = NULL

\* Mutant of Advance: the argument is not skipped
Advance_NoSkip(en, p) == p

\* Mutant of Advance: one element too many is skipped
Advance_SkipOneMore(en, p) == p + en.argc + 1

\* (*argv)+= entry->argc
Advance(en, p) == p + en.argc

\* parse_option(c, n, &argv) with argv at p, then `back` (where parse_opts
\* goes on): the missing-argument check and the handler each call fatal()
\* on error, which in failsafe mode returns; an unknown option is fatal
parse_option(c, n, p, back) ==
    IF ~Known(c, n)
    THEN Fatal(pos' = p /\ back /\ UNCHANGED opt)
    ELSE LET en == Entry(c, n)
             done == /\ opt' = Handler(en, Mem[p])
                     /\ pos' = Advance(en, p) /\ back
         IN IF MissingArg(en, p) \/ HandlerFails(en, Mem[p])
              THEN Fatal(done) ELSE done /\ UNCHANGED errors

-----------------------------------------------------------------------------
(* parse_opts                                                              *)

\* while ((current= *argv++)): a long option, a cluster of letters, or a
\* word, which is fatal; the NULL ends the loop
ParseArg ==
    LET a == Mem[pos] IN
    /\ pc = "parse"
    /\ CASE a = NULL ->
              pos' = pos + 1 /\ pc' = "parsed" /\ UNCHANGED <<cluster, opt, errors>>
         [] a.kind = "long" ->
              parse_option(NoShort, a.name, pos + 1, UNCHANGED <<pc, cluster>>)
         [] a.kind = "short" ->
              /\ pos' = pos + 1 /\ cluster' = a.chars
              /\ pc' = "cluster" /\ UNCHANGED <<opt, errors>>
         [] a.kind = "word" ->
              Fatal(pos' = pos + 1 /\ UNCHANGED <<pc, cluster, opt>>)
    /\ UNCHANGED <<argv, envp, pid1, boot>>

\* for (++current; *current; current++) parse_option(*current, NULL, &argv)
ParseLetter ==
    /\ pc = "cluster"
    /\ IF cluster = <<>>
         THEN pc' = "parse" /\ UNCHANGED <<pos, cluster, opt, errors>>
         ELSE parse_option(Head(cluster), NoShort, pos,
                           cluster' = Tail(cluster) /\ UNCHANGED pc)
    /\ UNCHANGED <<argv, envp, pid1, boot>>

-----------------------------------------------------------------------------
(* The rest of main()                                                      *)

\* the step after a fatal() of main() that returned
Then(p, b) == pc' = p /\ b /\ UNCHANGED <<pos, cluster, opt>>

\* open("/dev/null") and fd_assign("null", f, ...): failing, fatal() and
\* stderr (f= 2) as the "null" handle
OpenNull ==
    /\ pc = "parsed"
    /\ \E ok \in BOOLEAN :
         IF ok THEN Then("config", nullFd' = "devnull") /\ UNCHANGED errors
               ELSE Fatal(Then("config", nullFd' = "stderr"))
    /\ UNCHANGED <<argv, envp, pid1, onStdin, ctls, mlocked>>

\* the paths open() may find: CONFIG_FILE_DEFAULT_PATH or a path stat()
\* found during parsing (which need not still open)
MayOpen(a) == a = DefaultCfg \/ Stat(a)

\* Mutant of OpenConfig: a config file that will not open is skipped
OpenConfig_NoFatal ==
    /\ pc = "config"
    /\ CASE opt.cfgfile = NULL -> Then("stdin", UNCHANGED onStdin) /\ UNCHANGED errors
         [] IsDash(opt.cfgfile) -> Then("stdin", onStdin' = TRUE) /\ UNCHANGED errors
         [] OTHER -> Then("stdin", UNCHANGED onStdin) /\ UNCHANGED errors
    /\ UNCHANGED <<argv, envp, pid1, nullFd, ctls, mlocked>>

\* if (main_cfgfile): "-" means the config comes on stdin; otherwise open
\* it and give it a controller with auto final newline; a failed open()
\* or ctl_new() is fatal
OpenConfig ==
    /\ pc = "config"
    /\ CASE opt.cfgfile = NULL -> Then("stdin", UNCHANGED <<onStdin, ctls>>) /\ UNCHANGED errors
         [] IsDash(opt.cfgfile) -> Then("stdin", onStdin' = TRUE /\ UNCHANGED ctls) /\ UNCHANGED errors
         [] OTHER ->
              \E opened \in IF MayOpen(opt.cfgfile) THEN BOOLEAN ELSE {FALSE},
                 allocated \in BOOLEAN :
                   IF opened /\ allocated
                   THEN /\ Then("stdin", ctls' = ctls \cup {[src |-> "cfg", autonl |-> TRUE]})
                        /\ UNCHANGED <<onStdin, errors>>
                   ELSE Fatal(Then("stdin", UNCHANGED <<onStdin, ctls>>))
    /\ UNCHANGED <<argv, envp, pid1, nullFd, mlocked>>

\* if (main_use_stdin || config_on_stdin): ctl_new(0, 1), with auto final
\* newline only for a config file on stdin; failing, fatal()
StdinCtl ==
    /\ pc = "stdin"
    /\ IF opt.stdin \/ onStdin
       THEN \E allocated \in BOOLEAN :
              IF allocated
              THEN /\ Then("mlock", ctls' = ctls \cup {[src |-> "stdin", autonl |-> onStdin]})
                   /\ UNCHANGED errors
              ELSE Fatal(Then("mlock", UNCHANGED ctls))
       ELSE Then("mlock", UNCHANGED ctls) /\ UNCHANGED errors
    /\ UNCHANGED <<argv, envp, pid1, nullFd, onStdin, mlocked>>

\* if (main_mlockall) mlockall(): a failure is only reported
MlockAll ==
    /\ pc = "mlock"
    /\ \E ok \in BOOLEAN : mlocked' = (opt.mlockall /\ ok)
    /\ pc' = "loop"
    /\ UNCHANGED <<argv, envp, pos, cluster, opt, pid1, errors, nullFd, onStdin, ctls>>

\* a controller's command sets main_terminate (controller.c); the loop
\* ends and main() calls fatal(0, ...) if exec-on-exit is set, else returns
Terminate ==
    /\ pc = "loop"
    /\ ctls # {}
    /\ IF opt.exec # NULL
       THEN Fatal(Then("exit", UNCHANGED boot))
       ELSE Then("exit", UNCHANGED boot) /\ UNCHANGED errors
    /\ UNCHANGED <<argv, envp, pid1>>

\* the main loop runs on (Service), or the process has exited or exec'd
Done == pc \in {"loop", "exit", "exec"} /\ UNCHANGED vars

\* getpid() == 1 sets the default config file and failsafe before parsing
Init ==
    /\ argv \in UNION {[1..n -> Args] : n \in 0..MaxArgs}
    /\ envp \in UNION {[1..n -> EnvStrings] : n \in 0..MaxEnv}
    /\ pos = 1
    /\ cluster = <<>>
    /\ pid1 \in BOOLEAN
    /\ opt = [loglevel |-> LOG_LEVEL_INFO, stdin |-> FALSE, mlockall |-> FALSE,
              failsafe |-> pid1, cfgfile |-> IF pid1 THEN DefaultCfg ELSE NULL,
              exec |-> NULL]
    /\ pc = "parse"
    /\ errors = 0
    /\ nullFd = "none"
    /\ onStdin = FALSE
    /\ ctls = {}
    /\ mlocked = FALSE

Next ==
    \/ ParseArg \/ ParseLetter
    \/ OpenNull \/ OpenConfig \/ StdinCtl \/ MlockAll \/ Terminate
    \/ Done

Spec == Init /\ [][Next]_vars

-----------------------------------------------------------------------------
(* What the command line asks for                                          *)

\* The option an argument letter or name selects, or "unknown"
Named(c, n) == IF Known(c, n) THEN Entry(c, n).long ELSE "unknown"
ArgcOf(o) == IF o \in {"config-file", "exec-on-exit"} THEN 1 ELSE 0

\* Read left to right, argv is a list of uses of options, each with the
\* argument it takes (NULL past the end), and of stray words
RECURSIVE UsesFrom(_, _, _)
UsesFrom(av, i, cs) ==
    LET Use(o) == [opt |-> o, arg |-> IF ArgcOf(o) = 1 /\ i <= Len(av) THEN av[i] ELSE NULL]
    IN
    CASE cs # <<>> ->
           LET o == Named(Head(cs), NoShort)
           IN <<Use(o)>> \o UsesFrom(av, i + ArgcOf(o), Tail(cs))
      [] i > Len(av) -> <<>>
      [] av[i].kind = "short" -> UsesFrom(av, i + 1, av[i].chars)
      [] av[i].kind = "word" ->
           <<[opt |-> "unexpected", arg |-> NULL]>> \o UsesFrom(av, i + 1, <<>>)
      [] av[i].kind = "long" ->
           LET o == Named(NoShort, av[i].name)
               rest == UsesFrom(av, i + 1 + ArgcOf(o), <<>>)
           IN <<[opt |-> o, arg |-> IF ArgcOf(o) = 1 /\ i < Len(av) THEN av[i + 1] ELSE NULL]>>
              \o rest

Uses(av) == UsesFrom(av, 1, <<>>)

\* every option is known, every path exists
WellFormed(av) ==
    \A k \in DOMAIN Uses(av) :
        /\ Uses(av)[k].opt \notin {"unknown", "unexpected"}
        /\ ArgcOf(Uses(av)[k].opt) = 1 => Stat(Uses(av)[k].arg)

Count(av, o) == Len(SelectSeq(Uses(av), LAMBDA u : u.opt = o))

\* the argument of the last use of o, or dflt
LastArg(av, o, dflt) ==
    LET ks == {k \in DOMAIN Uses(av) : Uses(av)[k].opt = o}
    IN IF ks = {} THEN dflt ELSE Uses(av)[Max(ks)].arg

\* the globals a well-formed command line sets
Expected(av) ==
    [loglevel |-> LOG_LEVEL_INFO - Count(av, "verbose") + Count(av, "quiet"),
     stdin |-> Count(av, "stdin") > 0,
     mlockall |-> Count(av, "mlockall") > 0,
     failsafe |-> pid1 \/ Count(av, "failsafe") > 0,
     cfgfile |-> LastArg(av, "config-file", IF pid1 THEN DefaultCfg ELSE NULL),
     exec |-> LastArg(av, "exec-on-exit", NULL)]

-----------------------------------------------------------------------------
(* Properties                                                              *)

TypeOK ==
    /\ pos \in 1..(Len(Mem) + 1)
    /\ pc \in {"parse", "cluster"} => pos <= Len(Mem)
    /\ cluster \in Seq(UNION {Range(c) : c \in Clusters})
    /\ pc \in {"parse", "cluster", "parsed", "config", "stdin", "mlock", "loop", "exit", "exec"}
    /\ errors \in Nat
    /\ nullFd \in {"none", "devnull", "stderr"}
    /\ ctls \subseteq [src : {"cfg", "stdin"}, autonl : BOOLEAN]

\* A command line whose options are all known and whose paths exist is
\* parsed without a single fatal() into exactly the globals its options
\* name, the last -c and -E winning (parse_opts, parse_option and the
\* argc skip of each option_table entry).
OptionsAsWritten ==
    pc = "parsed" /\ WellFormed(argv) => errors = 0 /\ opt = Expected(argv)

\* A command line with an unknown option, a stray word or a missing or
\* unreadable path never reaches the rest of main() unless failsafe: every
\* error path of parse_opts, parse_option and the handlers calls fatal().
MalformedIsFatal ==
    pc = "parsed" => WellFormed(argv) \/ opt.failsafe

\* The command sources main() was asked for: the config file (on stdin
\* for "-") and --stdin; and the ones that got a controller
Asked ==
    (IF opt.cfgfile = NULL THEN {} ELSE IF IsDash(opt.cfgfile) THEN {"stdin"} ELSE {"cfg"})
    \cup (IF opt.stdin THEN {"stdin"} ELSE {})
Sources == {c.src : c \in ctls}

\* When the main loop starts, every command source the options and the
\* pid-1 default asked for has its controller, and no other does, unless a
\* fatal() was survived on the way (the open() and ctl_new() checks of
\* main() after parse_opts).
SourcesOpened == pc = "loop" => Sources = Asked \/ errors > 0

\* parse_opts reads only argv: argv++ never moves past argv's NULL into
\* the environment (the missing-argument check of parse_option).
ParseStaysInArgv ==
    pc \in {"parse", "cluster"} => pos <= Len(argv) + 1

=============================================================================
