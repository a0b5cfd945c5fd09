---------------------------- MODULE CommandProcess ----------------------------
(***************************************************************************)
(* run_command_process (isvtest/core/process.py), on POSIX: one command in *)
(* a process group of its own, its output read through pipes, under a      *)
(* watchdog and under Ctrl-C.                                              *)
(*                                                                         *)
(* The parent is the orchestrator's thread.  The command (Leader) and what *)
(* it forks are the environment: at any time one of them may fork, leave   *)
(* the group, close the inherited pipes or exit, with or without having    *)
(* been signalled.  SIGTERM and SIGINT are requests; SIGKILL ends every    *)
(* member of the group.  A time limit may expire at any moment.            *)
(***************************************************************************)
EXTENDS Naturals, FiniteSets

CONSTANTS
    Leader,        \* the direct child: session and group leader
    Descendants    \* processes that may be forked below it

ASSUME ProcessAssumption == Leader \notin Descendants

Procs == {Leader} \cup Descendants

VARIABLES
    pc,         \* where run_command_process is
    watchdog,   \* timeout is not None
    alive,      \* processes that exist
    unborn,     \* processes not forked yet
    group,      \* members of the group led by Leader
    holders,    \* processes holding a write end of the pipes
    reaped,     \* the exit status of Leader has been collected
    asked       \* the group has been sent SIGTERM or SIGINT

vars == <<pc, watchdog, alive, unborn, group, holders, reaped, asked>>
tree == <<alive, unborn, group, holders>>

Waiting == {"communicate", "grace", "drain", "interrupt_grace"}
Ends == {"returned", "timed_out", "interrupted", "escaped"}

Init ==
    /\ pc = "communicate"
    /\ watchdog \in BOOLEAN
    /\ alive = {Leader}
    /\ unborn = Descendants
    /\ group = {Leader}
    /\ holders = {Leader}
    /\ reaped = FALSE
    /\ asked = FALSE

--------------------------------------------------------------------------------
(* The environment: the process tree.                                      *)
Fork(p, d) ==
    /\ p \in alive /\ d \in unborn
    /\ alive' = alive \cup {d}
    /\ unborn' = unborn \ {d}
    /\ group' = IF p \in group THEN group \cup {d} ELSE group
    /\ holders' = IF p \in holders THEN holders \cup {d} ELSE holders
    /\ UNCHANGED <<pc, watchdog, reaped, asked>>

(* setsid: a session leader cannot, so Leader stays in its group.          *)
LeaveGroup(d) ==
    /\ d \in alive \cap group \cap Descendants
    /\ group' = group \ {d}
    /\ UNCHANGED <<pc, watchdog, alive, unborn, holders, reaped, asked>>

ClosePipes(p) ==
    /\ p \in alive \cap holders
    /\ holders' = holders \ {p}
    /\ UNCHANGED <<pc, watchdog, alive, unborn, group, reaped, asked>>

Exit(p) ==
    /\ p \in alive
    /\ alive' = alive \ {p}
    /\ holders' = holders \ {p}
    /\ UNCHANGED <<pc, watchdog, unborn, group, reaped, asked>>

Environment ==
    \/ \E p \in Procs, d \in Descendants : Fork(p, d)
    \/ \E p \in Procs : LeaveGroup(p) \/ ClosePipes(p) \/ Exit(p)

--------------------------------------------------------------------------------
(* communicate() comes back when the pipes are at end of file and the      *)
(* direct child has been waited for.                                       *)
CommunicateDone == holders = {} /\ Leader \notin alive

(* _killpg with SIGTERM or SIGINT, after poll() reaped an exited leader.   *)
Ask ==
    /\ asked' = TRUE
    /\ reaped' = (reaped \/ Leader \notin alive)
    /\ UNCHANGED <<watchdog, tree>>

MutantPipesSurvive == alive' = alive \ group /\ UNCHANGED holders

(* _kill_process_tree: SIGKILL to the group.                               *)
KillGroup ==
    /\ alive' = alive \ group
    /\ holders' = holders \ group

Return ==
    /\ pc = "communicate"
    /\ CommunicateDone
    /\ pc' = "returned"
    /\ reaped' = TRUE
    /\ UNCHANGED <<watchdog, tree, asked>>

MutantKillAtOnce ==
    /\ pc = "communicate"
    /\ watchdog
    /\ pc' = "drain"
    /\ KillGroup
    /\ UNCHANGED <<watchdog, unborn, group, reaped, asked>>

(* TimeoutExpired: _terminate_process_tree, then wait for a while.         *)
Timeout ==
    /\ pc = "communicate"
    /\ watchdog
    /\ pc' = "grace"
    /\ Ask

MutantGroupNotKilled ==
    /\ pc = "grace"
    /\ CommunicateDone
    /\ pc' = "timed_out"
    /\ reaped' = TRUE
    /\ UNCHANGED <<watchdog, tree, asked>>

(* The direct child went along; a descendant that closed the pipes may     *)
(* still be there, so the group is killed anyway.                          *)
GraceEnds ==
    /\ pc = "grace"
    /\ CommunicateDone
    /\ pc' = "timed_out"
    /\ reaped' = TRUE
    /\ KillGroup
    /\ UNCHANGED <<watchdog, unborn, group, asked>>

GraceExpires ==
    /\ pc = "grace"
    /\ pc' = "drain"
    /\ reaped' = (reaped \/ Leader \notin alive)
    /\ KillGroup
    /\ UNCHANGED <<watchdog, unborn, group, asked>>

(* _drain_after_kill: the rest of the output, or, when a descendant        *)
(* outside the group holds the pipes, no output and just the wait.         *)
Drained ==
    /\ pc = "drain"
    /\ CommunicateDone
    /\ pc' = "timed_out"
    /\ reaped' = TRUE
    /\ UNCHANGED <<watchdog, tree, asked>>

MutantNoWait ==
    /\ pc = "drain"
    /\ pc' = "timed_out"
    /\ UNCHANGED <<watchdog, tree, reaped, asked>>

MutantDrainForever == Drained

DrainExpires ==
    /\ pc = "drain"
    /\ Leader \notin alive     \* process.wait()
    /\ pc' = "timed_out"
    /\ reaped' = TRUE
    /\ UNCHANGED <<watchdog, tree, asked>>

MutantGraceUnbounded ==
    /\ pc = "interrupt_grace"
    /\ CommunicateDone
    /\ pc' = "interrupted"
    /\ KillGroup
    /\ reaped' = TRUE
    /\ UNCHANGED <<watchdog, unborn, group, asked>>

(* KeyboardInterrupt in the first communicate(): forwarded, then a grace   *)
(* period, then the kill and the wait for the direct child.                *)
Interrupt ==
    /\ pc = "communicate"
    /\ pc' = "interrupt_grace"
    /\ Ask

InterruptGraceOver ==
    /\ pc = "interrupt_grace"
    /\ pc' = "interrupted"
    /\ KillGroup
    /\ reaped' = TRUE
    /\ UNCHANGED <<watchdog, unborn, group, asked>>

(* KeyboardInterrupt while a handler is at work: no handler is left to     *)
(* catch it.                                                               *)
InterruptAgain ==
    /\ pc \in {"grace", "drain", "interrupt_grace"}
    /\ pc' = "escaped"
    /\ UNCHANGED <<watchdog, tree, reaped, asked>>

(* What the parent does by itself: react to the pipes and to its clock.    *)
Parent ==
    \/ Return
    \/ Timeout
    \/ GraceEnds
    \/ GraceExpires
    \/ Drained
    \/ DrainExpires
    \/ InterruptGraceOver

Next == Environment \/ Parent \/ Interrupt \/ InterruptAgain \/ (pc \in Ends /\ UNCHANGED vars)

(* Deadlines expire and an end of file is noticed; nothing is assumed of   *)
(* the processes or of the user.                                           *)
Spec == Init /\ [][Next]_vars /\ WF_vars(Parent)

--------------------------------------------------------------------------------
(* Types of the state; a process is in the group or holds the pipes only   *)
(* once it was forked.                                                     *)
TypeOK ==
    /\ pc \in Waiting \cup Ends
    /\ watchdog \in BOOLEAN
    /\ alive \subseteq Procs
    /\ unborn \subseteq Descendants
    /\ group \subseteq Procs
    /\ holders \subseteq alive
    /\ alive \cap unborn = {}
    /\ group \cap unborn = {}
    /\ Leader \in group
    /\ reaped \in BOOLEAN
    /\ asked \in BOOLEAN

(* A step reported as timed out, or given up after one Ctrl-C, leaves no   *)
(* member of its process group behind, not even one that ignored the       *)
(* request, outlived the leader or closed its pipes                        *)
(* ("a timed-out step's whole process group is stopped").                  *)
GroupStopped ==
    pc \in {"timed_out", "interrupted"} => alive \cap group = {}

(* The direct child has been waited for on every path that finishes.       *)
NoZombie == pc \in {"returned", "timed_out", "interrupted"} => reaped /\ Leader \notin alive

(* The group is killed only after it was asked to stop: a step that kills  *)
(* a live process other than by its own exit follows SIGTERM or SIGINT.    *)
KilledOnlyAfterAsking ==
    [][pc' # pc /\ alive' # alive => asked /\ alive' = alive \ group]_vars

(* Under a watchdog the parent comes back, whatever the processes do: also *)
(* when a descendant outside the group keeps the pipes open for ever.      *)
WatchdogReturns == watchdog => <>(pc \in Ends)

(* One Ctrl-C is enough to get the parent back, with or without watchdog.  *)
InterruptReturns == (pc = "interrupt_grace") ~> (pc \in Ends)

(* "KeyboardInterrupt: The orchestrator was interrupted. The interrupt is  *)
(* forwarded to the process tree, which is stopped before re-raising"      *)
(* (docstring of run_command_process).                                     *)
InterruptStopsTree ==
    pc \in {"interrupted", "escaped"} => alive \cap group = {}
================================================================================
