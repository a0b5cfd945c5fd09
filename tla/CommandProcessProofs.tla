------------------------- MODULE CommandProcessProofs -------------------------
(***************************************************************************)
(* What CommandProcess guarantees for any number of descendants.           *)
(*                                                                         *)
(* GroupStopped is not inductive: a member of the group that survived into *)
(* "timed_out" could fork.  CommandInv says when the group is already      *)
(* empty (from the kill on, also while draining), that nothing outside the *)
(* group can join it, that the waits only end after the direct child did,  *)
(* and that the two grace periods begin with a request to stop.            *)
(***************************************************************************)
EXTENDS CommandProcess, TLAPS

(* The group has been killed.                                              *)
Killed == {"drain", "timed_out", "interrupted"}

(* The direct child has been waited for.                                   *)
WaitedFor == {"returned", "timed_out", "interrupted"}

(* The inductive invariant behind GroupStopped, NoZombie and               *)
(* KilledOnlyAfterAsking.                                                  *)
CommandInv ==
    /\ TypeOK
    /\ pc \in Killed => alive \cap group = {}
    /\ pc \in WaitedFor => reaped /\ Leader \notin alive
    /\ pc \in {"grace", "drain", "interrupt_grace"} => asked

--------------------------------------------------------------------------------
(* The state of run_command_process and of its process tree keeps its      *)
(* type, and only live processes hold the pipes.                           *)
THEOREM CommandTypeCorrect == Spec => []TypeOK
<1>1. Init => TypeOK
  BY ProcessAssumption DEF Init, TypeOK, Procs, Waiting, Ends
<1>2. TypeOK /\ [Next]_vars => TypeOK'
  <2> SUFFICES ASSUME TypeOK, [Next]_vars PROVE TypeOK'
    OBVIOUS
  <2> USE ProcessAssumption DEF TypeOK, Procs, Waiting, Ends
  <2>1. CASE Environment
    <3>1. ASSUME NEW p \in Procs, NEW d \in Descendants, Fork(p, d) PROVE TypeOK'
      BY <3>1 DEF Fork
    <3>2. ASSUME NEW p \in Procs, LeaveGroup(p) PROVE TypeOK'
      BY <3>2 DEF LeaveGroup
    <3>3. ASSUME NEW p \in Procs, ClosePipes(p) PROVE TypeOK'
      BY <3>3 DEF ClosePipes
    <3>4. ASSUME NEW p \in Procs, Exit(p) PROVE TypeOK'
      BY <3>4 DEF Exit
    <3> QED
      BY <2>1, <3>1, <3>2, <3>3, <3>4 DEF Environment
  <2>2. CASE Return
    BY <2>2 DEF Return, tree
  <2>3. CASE Timeout
    BY <2>3 DEF Timeout, Ask, tree
  <2>4. CASE GraceEnds
    BY <2>4 DEF GraceEnds, KillGroup
  <2>5. CASE GraceExpires
    BY <2>5 DEF GraceExpires, KillGroup
  <2>6. CASE Drained \/ DrainExpires
    BY <2>6 DEF Drained, DrainExpires, tree
  <2>7. CASE InterruptGraceOver
    BY <2>7 DEF InterruptGraceOver, KillGroup
  <2>8. CASE Interrupt
    BY <2>8 DEF Interrupt, Ask, tree
  <2>9. CASE InterruptAgain
    BY <2>9 DEF InterruptAgain, tree
  <2>10. CASE UNCHANGED vars
    BY <2>10 DEF vars
  <2> QED
    BY <2>1, <2>2, <2>3, <2>4, <2>5, <2>6, <2>7, <2>8, <2>9, <2>10 DEF Next, Parent
<1> QED
  BY <1>1, <1>2, PTL DEF Spec

(* CommandInv holds of every run, whatever the processes and the user do.  *)
THEOREM CommandInvariant == Spec => []CommandInv
<1>1. Init => CommandInv
  BY ProcessAssumption DEF Init, CommandInv, TypeOK, Procs, Waiting, Ends, Killed, WaitedFor
<1>2. CommandInv /\ TypeOK' /\ [Next]_vars => CommandInv'
  <2> SUFFICES ASSUME CommandInv, TypeOK', [Next]_vars PROVE CommandInv'
    OBVIOUS
  <2> USE ProcessAssumption DEF CommandInv, Killed, WaitedFor
  <2>1. CASE Environment
    <3>1. ASSUME NEW p \in Procs, NEW d \in Descendants, Fork(p, d) PROVE CommandInv'
      BY <3>1 DEF Fork, TypeOK, Procs
    <3>2. ASSUME NEW p \in Procs, LeaveGroup(p) PROVE CommandInv'
      BY <3>2 DEF LeaveGroup
    <3>3. ASSUME NEW p \in Procs, ClosePipes(p) PROVE CommandInv'
      BY <3>3 DEF ClosePipes
    <3>4. ASSUME NEW p \in Procs, Exit(p) PROVE CommandInv'
      BY <3>4 DEF Exit
    <3> QED
      BY <2>1, <3>1, <3>2, <3>3, <3>4 DEF Environment
  <2>2. CASE Return
    BY <2>2 DEF Return, CommunicateDone, tree
  <2>3. CASE Timeout
    BY <2>3 DEF Timeout, Ask, tree
  <2>4. CASE GraceEnds
    BY <2>4 DEF GraceEnds, KillGroup, CommunicateDone
  <2>5. CASE GraceExpires
    BY <2>5 DEF GraceExpires, KillGroup
  <2>6. CASE Drained \/ DrainExpires
    BY <2>6 DEF Drained, DrainExpires, CommunicateDone, tree
  <2>7. CASE InterruptGraceOver
    BY <2>7 DEF InterruptGraceOver, KillGroup, TypeOK
  <2>8. CASE Interrupt
    BY <2>8 DEF Interrupt, Ask, tree
  <2>9. CASE InterruptAgain
    BY <2>9 DEF InterruptAgain, tree
  <2>10. CASE UNCHANGED vars
    BY <2>10 DEF vars
  <2> QED
    BY <2>1, <2>2, <2>3, <2>4, <2>5, <2>6, <2>7, <2>8, <2>9, <2>10 DEF Next, Parent
<1> QED
  BY <1>1, <1>2, CommandTypeCorrect, PTL DEF Spec

(* A timed-out step, or one given up after a single Ctrl-C, leaves no      *)
(* member of its process group behind, for any process tree.               *)
THEOREM TimedOutGroupStopped == Spec => []GroupStopped
<1>1. CommandInv => GroupStopped
  BY DEF CommandInv, GroupStopped, Killed
<1> QED
  BY <1>1, CommandInvariant, PTL

(* Every path that finishes has waited for the direct child.               *)
THEOREM ChildWaitedFor == Spec => []NoZombie
<1>1. CommandInv => NoZombie
  BY DEF CommandInv, NoZombie, WaitedFor
<1> QED
  BY <1>1, CommandInvariant, PTL

(* The parent kills only its command's group, and only after it was asked  *)
(* to stop.                                                                *)
THEOREM AskedBeforeKilled == Spec => KilledOnlyAfterAsking
<1>1. CommandInv /\ [Next]_vars
         => [pc' # pc /\ alive' # alive => asked /\ alive' = alive \ group]_vars
  <2> SUFFICES ASSUME CommandInv, [Next]_vars, pc' # pc, alive' # alive
               PROVE asked /\ alive' = alive \ group
    OBVIOUS
  <2>1. ~Environment
    BY DEF Environment, Fork, LeaveGroup, ClosePipes, Exit
  <2>2. CASE Return \/ Timeout \/ Drained \/ DrainExpires
    BY <2>2 DEF Return, Timeout, Ask, Drained, DrainExpires, tree
  <2>3. CASE GraceEnds \/ GraceExpires \/ InterruptGraceOver
    BY <2>3 DEF GraceEnds, GraceExpires, InterruptGraceOver, KillGroup, CommandInv
  <2>4. CASE Interrupt \/ InterruptAgain
    BY <2>4 DEF Interrupt, Ask, InterruptAgain, tree
  <2> QED
    BY <2>1, <2>2, <2>3, <2>4 DEF Next, Parent, vars
<1> QED
  BY <1>1, CommandInvariant, PTL DEF Spec, KilledOnlyAfterAsking
================================================================================
