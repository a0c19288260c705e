----------------------------- MODULE Subprocess -----------------------------
(***************************************************************************)
(* run_process of subprocesses.py on POSIX: one external tool, started as  *)
(* the leader of its own process group, with its output read to the end or *)
(* streamed by two pump threads.  The call ends when the tool does, on its *)
(* timeout, on Ctrl-C, or because the command itself is terminated; in     *)
(* the last three the whole group is to be stopped.                        *)
(*                                                                         *)
(* Data.  The tool may fork a helper, which stays in the group, and a      *)
(* daemon, which leaves it (setsid); each process that has not closed it   *)
(* holds the write end of the pipes.  `dying' is a process whose signal is *)
(* pending.  The two pipes and their pumps are one.                        *)
(***************************************************************************)
EXTENDS Naturals, FiniteSets

CONSTANTS InterruptLimit    \* bound: Ctrl-C presses during one call

VARIABLES
    stream,       \* is a stream callback given
    proc,         \* state of every process
    deaf,         \* processes that ignore SIGTERM
    writers,      \* processes that hold the pipes
    pump,         \* the pump threads: none, reading, ended, broken
    call,         \* pc of the call and the exception it carries
    interrupts

callVars == <<stream, proc, deaf, writers, pump, call, interrupts>>

Processes == {"tool", "helper", "daemon"}
Group == {"tool", "helper"}
Alive == {p \in Processes : proc[p] = "alive"}
Exited(p) == proc[p] = "dead"
CallAt(pc) == call.pc = pc
CallTo(pc) == call' = [call EXCEPT !.pc = pc]
Ended == call.pc \in {"returned", "raised", "terminated"}

CallInit ==
    /\ stream \in BOOLEAN
    /\ proc = [p \in Processes |-> "none"]
    /\ deaf \in SUBSET Group
    /\ writers = {}
    /\ pump = "none"
    /\ call = [pc |-> "idle", carries |-> "nothing"]
    /\ interrupts = 0

(*----------------------------- the processes ----------------------------*)
Fork(parent, p) ==
    /\ p # "tool" /\ proc[p] = "none" /\ parent \in Alive \cap Group
    /\ proc' = [proc EXCEPT ![p] = "alive"]
    /\ writers' = IF parent \in writers THEN writers \cup {p} ELSE writers
    /\ UNCHANGED <<stream, deaf, pump, call, interrupts>>

Exit(p) ==
    /\ p \in Alive
    /\ proc' = [proc EXCEPT ![p] = "dead"]
    /\ writers' = writers \ {p}
    /\ UNCHANGED <<stream, deaf, pump, call, interrupts>>

ClosePipe(p) ==
    /\ p \in Alive \cap writers
    /\ writers' = writers \ {p}
    /\ UNCHANGED <<stream, proc, deaf, pump, call, interrupts>>

Die(p) ==
    /\ proc[p] = "dying"
    /\ proc' = [proc EXCEPT ![p] = "dead"]
    /\ writers' = writers \ {p}
    /\ UNCHANGED <<stream, deaf, pump, call, interrupts>>

(* os.killpg: SIGKILL, or SIGTERM for those that do not ignore it. *)
SignalTree(force) ==
    proc' = [p \in Processes |->
        IF p \in Group \cap Alive /\ (force \/ p \notin deaf) THEN "dying" ELSE proc[p]]

(*-------------------------------- the call ------------------------------*)
Popen ==
    /\ CallAt("idle")
    /\ proc' = [proc EXCEPT !["tool"] = "alive"]
    /\ writers' = {"tool"}
    /\ pump' = IF stream THEN "reading" ELSE "none"
    /\ CallTo("waiting")
    /\ UNCHANGED <<stream, deaf, interrupts>>

(* communicate needs the end of the pipes too; wait only the exit. *)
ToolEnds ==
    /\ CallAt("waiting") /\ Exited("tool")
    /\ stream \/ writers = {}
    /\ CallTo(IF stream THEN "joining" ELSE "returned")
    /\ UNCHANGED <<stream, proc, deaf, writers, pump, interrupts>>

TimesOut ==
    /\ CallAt("waiting")
    /\ SignalTree(TRUE)
    /\ call' = [pc |-> "reaping", carries |-> "timeout"]
    /\ UNCHANGED <<stream, deaf, writers, pump, interrupts>>

Interrupted ==
    /\ CallAt("waiting") /\ interrupts < InterruptLimit
    /\ interrupts' = interrupts + 1
    /\ SignalTree(FALSE)
    /\ call' = [pc |-> "grace", carries |-> "interrupt"]
    /\ UNCHANGED <<stream, deaf, writers, pump>>

(* Mutant: only a tool that outlived its grace is killed. *)
GraceEndsIfStuck ==
    /\ CallAt("grace")
    /\ IF Exited("tool") THEN UNCHANGED proc ELSE SignalTree(TRUE)
    /\ CallTo("reaping")
    /\ UNCHANGED <<stream, deaf, writers, pump, interrupts>>

(* The tool exits within two seconds or not: the group is killed anyway. *)
GraceEnds ==
    /\ CallAt("grace")
    /\ SignalTree(TRUE)
    /\ CallTo("reaping")
    /\ UNCHANGED <<stream, deaf, writers, pump, interrupts>>

(* A Ctrl-C inside the clean-up of the first leaves it at once. *)
InterruptedAgain ==
    /\ call.pc \in {"grace", "reaping", "draining", "joining"} /\ interrupts < InterruptLimit
    /\ interrupts' = interrupts + 1
    /\ call' = [pc |-> IF stream /\ ~CallAt("joining") THEN "joining" ELSE "raised",
                carries |-> "late interrupt"]
    /\ UNCHANGED <<stream, proc, deaf, writers, pump>>

(* Mutant: the pipes are drained after an interrupt as well. *)
ReapedAlwaysDrains ==
    /\ CallAt("reaping") /\ Exited("tool")
    /\ CallTo(IF stream THEN "joining" ELSE "draining")
    /\ UNCHANGED <<stream, proc, deaf, writers, pump, interrupts>>

Reaped ==
    /\ CallAt("reaping") /\ Exited("tool")
    /\ CallTo(IF stream THEN "joining" ELSE IF call.carries = "timeout" THEN "draining" ELSE "raised")
    /\ UNCHANGED <<stream, proc, deaf, writers, pump, interrupts>>

(* After a timeout communicate() reads the pipes to their end, unbounded. *)
Drained ==
    /\ CallAt("draining") /\ writers = {}
    /\ CallTo("raised")
    /\ UNCHANGED <<stream, proc, deaf, writers, pump, interrupts>>

(* pump: readline until the end; a callback that raises ends the thread. *)
PumpEnds ==
    /\ pump = "reading"
    /\ \/ writers = {} /\ pump' = "ended"
       \/ pump' = "broken"
    /\ UNCHANGED <<stream, proc, deaf, writers, call, interrupts>>

(* join(timeout=2): the pump may still be reading when it returns. *)
Joined ==
    /\ CallAt("joining")
    /\ CallTo(IF call.carries = "nothing" THEN "returned" ELSE "raised")
    /\ UNCHANGED <<stream, proc, deaf, writers, pump, interrupts>>

(* _forward_sigterm: while the call waits, SIGTERM stops the group first. *)
Terminated ==
    /\ call.pc \notin {"idle", "returned", "raised", "terminated"}
    /\ IF CallAt("waiting")
       THEN SignalTree(TRUE) /\ call' = [call EXCEPT !.pc = "terminated"]
       ELSE UNCHANGED proc /\ call' = [pc |-> "terminated", carries |-> "stopping"]
    /\ UNCHANGED <<stream, deaf, writers, pump, interrupts>>

CallProgress == Popen \/ ToolEnds \/ TimesOut \/ GraceEnds \/ Reaped \/ Drained \/ Joined
CallNext ==
    \/ \E p \in Processes : Exit(p) \/ ClosePipe(p) \/ Die(p) \/ \E parent \in Group : Fork(parent, p)
    \/ Popen \/ ToolEnds \/ TimesOut \/ GraceEnds \/ Reaped \/ Drained \/ Joined
    \/ Interrupted \/ InterruptedAgain \/ PumpEnds \/ Terminated

CallSpec == CallInit /\ [][CallNext]_callVars /\ WF_callVars(CallProgress)
            /\ \A p \in Processes : WF_callVars(Die(p))

(*-------------------------- inductive invariant -------------------------*)
CallTypes ==
    /\ proc \in [Processes -> {"none", "alive", "dying", "dead"}]
    /\ call \in [pc : {"idle", "waiting", "grace", "reaping", "draining", "joining",
                       "returned", "raised", "terminated"},
                 carries : {"nothing", "timeout", "interrupt", "late interrupt", "stopping"}]

(* What the call carries at each step of its clean-up. *)
CarriedInv ==
    /\ call.pc \in {"idle", "waiting"} => call.carries = "nothing"
    /\ CallAt("grace") => call.carries = "interrupt"
    /\ call.pc \in {"reaping", "draining", "raised"} => call.carries # "nothing"

(* From the kill on no process of the group is alive, and a dead group    *)
(* forks nothing.                                                         *)
GroupKilled ==
    \/ /\ call.pc \in {"reaping", "draining", "joining", "raised", "terminated"}
       /\ call.carries \in {"timeout", "interrupt"}
    \/ CallAt("terminated") /\ call.carries = "nothing"
StoppedInv == GroupKilled => Group \cap Alive = {}

CallInv == CallTypes /\ CarriedInv /\ StoppedInv

(*------------------------------ properties ------------------------------*)
(* A call that raised its timeout or a Ctrl-C, or that a SIGTERM ended     *)
(* while it waited, leaves no process of the tool's group running, also    *)
(* when the tool itself is gone and a helper ignores SIGTERM.  A signal    *)
(* that arrives during the clean-up itself gives this up (_stop_tree).     *)
TreeStopped ==
    call.pc \in {"raised", "terminated"} /\ call.carries \in {"nothing", "timeout", "interrupt"}
        => Group \cap Alive = {}

(* Every call ends, whatever the tool does, unless after a timeout a       *)
(* process that left the group keeps the pipes open (run_process).         *)
CallEnds ==
    CallAt("waiting") ~> (Ended \/ (CallAt("draining") /\ call.carries = "timeout" /\ "daemon" \in writers))
=============================================================================
