-------------------------- MODULE ProcessRunnerProofs --------------------------
(***************************************************************************)
(* Safety of run_many() for any set of commands: types, and an inductive   *)
(* invariant that follows each command through its life.                   *)
(***************************************************************************)
EXTENDS ProcessRunner, TLAPS

\* A step of one command, whatever it changes, leaves the others alone.
Untouched(d) ==
  /\ call'[d] = call[d] /\ leader'[d] = leader[d] /\ exit'[d] = exit[d]
  /\ helper'[d] = helper[d] /\ holds'[d] = holds[d] /\ foreign'[d] = foreign[d]

\* Until run() gives up on a command nobody signals it; from then on its leader, if
\* it is the service's own, cannot fork any more, and whoever got away did so before
\* the signal.
Progress(c) ==
  /\ call[c] = "new" => leader[c] = "none"
  /\ leader[c] = "none" => helper[c] = "none" /\ foreign[c] = {}
  /\ call[c] \in {"new", "spawning", "communicating"} =>
       leader[c] # "killed" /\ exit[c] # "signal"
  /\ call[c] \in {"reap_timeout", "reap_cancel", "spawn_cancel", "cancelled",
                  "unspawned", "refused"} => leader[c] # "running" \/ ~Mine(c, "leader")
  /\ call[c] \in {"ok", "timed_out"} => leader[c] = "reaped"
  /\ call[c] = "failed" => leader[c] \in {"none", "reaped"}
  /\ (call[c] \in {"reap_timeout", "reap_cancel", "timed_out", "cancelled"}
      /\ foreign[c] = {} /\ helper[c] = "running") => exit[c] \in {"zero", "nonzero"}
  /\ call[c] = "ok" => exit[c] = "zero" /\ (helper[c] \in Alive => ~holds[c])
  /\ many # "running" => call[c] \in Ended
  /\ many = "returned" => call[c] = "ok"

PInv == TypeOK /\ \A c \in Cmds : Progress(c)

LEMMA TypeStep == PInv /\ [Next]_vars => TypeOK'
<1> SUFFICES ASSUME TypeOK, \A c \in Cmds : Progress(c), [Next]_vars PROVE TypeOK'
  BY DEF PInv
<1> USE DEF TypeOK, caller, processes, Ended, GoTo
<1>1. CASE Cancel
  BY <1>1 DEF Cancel
<1>2. CASE Finish
  BY <1>2 DEF Finish
<1>3. ASSUME NEW c \in Cmds, Kernel(c) PROVE TypeOK'
  <2>1. CASE Fork(c)
    BY <2>1 DEF Fork
  <2>2. CASE Exit(c)
    BY <2>2 DEF Exit
  <2>3. CASE Die(c)
    BY <2>3 DEF Die
  <2>4. CASE HelperExit(c)
    BY <2>4 DEF HelperExit
  <2>5. CASE Watch(c)
    BY <2>5 DEF Watch
  <2>6. QED
    BY <1>3, <2>1, <2>2, <2>3, <2>4, <2>5 DEF Kernel
<1>4. ASSUME NEW c \in Cmds, Run(c) PROVE TypeOK'
  <2>1. CASE Spawn(c)
    BY <2>1 DEF Spawn, Progress
  <2>2. CASE Spawned(c)
    BY <2>2 DEF Spawned
  <2>3. CASE Communicated(c)
    BY <2>3 DEF Communicated
  <2>4. CASE TimedOut(c)
    BY <2>4 DEF TimedOut, GiveUp, Kill
  <2>5. CASE Reaped(c)
    BY <2>5 DEF Reaped
  <2>6. QED
    BY <1>4, <2>1, <2>2, <2>3, <2>4, <2>5 DEF Run
<1>5. ASSUME NEW c \in Cmds, CancelRun(c) PROVE TypeOK'
  <2>1. CASE CancelNew(c)
    BY <2>1 DEF CancelNew
  <2>2. CASE CancelSpawn(c)
    BY <2>2 DEF CancelSpawn
  <2>3. CASE CancelCommunicate(c)
    BY <2>3 DEF CancelCommunicate, GiveUp, Kill
  <2>4. CASE CancelReap(c)
    BY <2>4 DEF CancelReap
  <2>5. QED
    BY <1>5, <2>1, <2>2, <2>3, <2>4 DEF CancelRun
<1>6. CASE UNCHANGED vars
  BY <1>6 DEF vars
<1>7. QED
  BY <1>1, <1>2, <1>3, <1>4, <1>5, <1>6 DEF Next

\* However _reap fares, what it leaves behind is what Progress allows.
LEMMA GiveUpStep ==
  ASSUME TypeOK, NEW c \in Cmds, Progress(c), call[c] = "communicating",
         NEW next \in {"reap_timeout", "reap_cancel"}, GiveUp(c, next)
  PROVE  Progress(c)'
<1> USE DEF caller, Ended, Alive, GoTo, Mine, TypeOK, Progress
<1>1. CASE Signalled(c) /\ Kill(c) /\ GoTo(c, next)
  <2>1. leader'[c] # "running" \/ "leader" \in foreign[c]
    BY <1>1 DEF Kill
  <2>2. (foreign[c] = {} /\ helper'[c] = "running") => exit[c] \in {"zero", "nonzero"}
    BY <1>1 DEF Kill
  <2>3. QED
    BY <1>1, <2>1, <2>2 DEF GiveUp, Kill
<1>2. CASE Refusable(c) /\ GoTo(c, "refused") /\ UNCHANGED <<leader, helper>>
  BY <1>2 DEF GiveUp, Refusable
<1>3. CASE EndOfOutput(c) /\ GoTo(c, "failed") /\ UNCHANGED <<leader, helper>>
  BY <1>3 DEF GiveUp, EndOfOutput
<1>4. QED
  BY <1>1, <1>2, <1>3 DEF GiveUp

LEMMA ProgressStep ==
  ASSUME TypeOK, \A c \in Cmds : Progress(c), [Next]_vars
  PROVE  \A c \in Cmds : Progress(c)'
<1> USE DEF caller, processes, Ended, Alive, GoTo, Mine
<1>1. CASE Cancel
  BY <1>1 DEF Cancel, Progress
<1>2. CASE Finish
  BY <1>2 DEF Finish, Gathered, Progress
<1>3. ASSUME NEW c \in Cmds, Kernel(c) \/ Run(c) \/ CancelRun(c)
      PROVE  many' = many /\ \A d \in Cmds \ {c} : Untouched(d)
  <2>1. CASE Kernel(c)
    BY <2>1 DEF Kernel, Fork, Exit, Die, HelperExit, Watch, TypeOK, Untouched
  <2>2. CASE Run(c)
    BY <2>2 DEF Run, Spawn, Spawned, Communicated, TimedOut, GiveUp, Kill, Reaped, TypeOK, Untouched
  <2>3. CASE CancelRun(c)
    BY <2>3 DEF CancelRun, CancelNew, CancelSpawn, CancelCommunicate, GiveUp, Kill, CancelReap,
                TypeOK, Untouched
  <2>4. QED
    BY <1>3, <2>1, <2>2, <2>3
<1>4. ASSUME NEW c \in Cmds, Kernel(c) PROVE Progress(c)'
  <2> USE DEF TypeOK, Progress
  <2>1. CASE Fork(c)
    BY <2>1 DEF Fork
  <2>2. CASE Exit(c)
    BY <2>2 DEF Exit
  <2>3. CASE Die(c)
    BY <2>3 DEF Die
  <2>4. CASE HelperExit(c)
    BY <2>4 DEF HelperExit
  <2>5. CASE Watch(c)
    BY <2>5 DEF Watch
  <2>6. QED
    BY <1>4, <2>1, <2>2, <2>3, <2>4, <2>5 DEF Kernel
<1>5. ASSUME NEW c \in Cmds, Run(c) PROVE Progress(c)'
  <2> USE DEF TypeOK, Progress
  <2>1. CASE Spawn(c)
    BY <2>1 DEF Spawn
  <2>2. CASE Spawned(c)
    BY <2>2 DEF Spawned
  <2>3. CASE Communicated(c)
    BY <2>3 DEF Communicated, EndOfOutput
  <2>4. CASE TimedOut(c)
    BY <2>4, GiveUpStep DEF TimedOut
  <2>5. CASE Reaped(c)
    BY <2>5 DEF Reaped, Waited
  <2>6. QED
    BY <1>5, <2>1, <2>2, <2>3, <2>4, <2>5 DEF Run
<1>6. ASSUME NEW c \in Cmds, CancelRun(c) PROVE Progress(c)'
  <2> USE DEF TypeOK, Progress
  <2>1. CASE CancelNew(c)
    BY <2>1 DEF CancelNew
  <2>2. CASE CancelSpawn(c)
    BY <2>2 DEF CancelSpawn
  <2>3. CASE CancelCommunicate(c)
    BY <2>3, GiveUpStep DEF CancelCommunicate
  <2>4. CASE CancelReap(c)
    BY <2>4 DEF CancelReap
  <2>5. QED
    BY <1>6, <2>1, <2>2, <2>3, <2>4 DEF CancelRun
<1>7. ASSUME NEW d \in Cmds, Untouched(d), many' = many PROVE Progress(d)'
  BY <1>7 DEF Untouched, Progress
<1>8. CASE UNCHANGED vars
  BY <1>8 DEF vars, Progress
<1>9. QED
  BY <1>1, <1>2, <1>3, <1>4, <1>5, <1>6, <1>7, <1>8 DEF Next

\* The inductive invariant: types, and each command's progress.
THEOREM RunnerInvariant == Spec => []PInv
<1>1. Init => \A c \in Cmds : Progress(c)
  BY DEF Init, Progress, Ended
<1>2. PInv /\ [Next]_vars => PInv'
  BY TypeStep, ProgressStep DEF PInv
<1>3. Init => TypeOK
  <2> SUFFICES ASSUME Init PROVE TypeOK
    OBVIOUS
  <2>1. foreign \in [Cmds -> SUBSET {"leader", "helper"}]
    <3>1. {} \in SUBSET {"leader", "helper"}
      OBVIOUS
    <3>2. QED
      BY <3>1 DEF Init
  <2>2. QED
    BY <2>1 DEF Init, TypeOK
<1>4. QED
  BY <1>1, <1>2, <1>3, PTL DEF Spec, PInv

\* Types, for any set of commands, cancelled or not.
THEOREM RunnerTypes == Spec => []TypeOK
<1>1. PInv => TypeOK
  BY DEF PInv
<1>2. QED
  BY <1>1, RunnerInvariant, PTL

\* run_many is never left with a command of the service's own user at work, and
\* never with success while any leader runs, however its commands end and whenever
\* its caller is cancelled (process.py:74-98).
THEOREM OwnCommandsEndAlways == Spec => []OwnCommandsEnd
<1>1. PInv => OwnCommandsEnd
  BY DEF PInv, TypeOK, Progress, OwnCommandsEnd, Ended
<1>2. QED
  BY <1>1, RunnerInvariant, PTL

\* Who outlives a timed-out or cancelled command that _reap killed got away before
\* the signal: its leader had exited by itself (process.py:74-80).
THEOREM GroupsKilled == Spec => []GroupKilled
<1>1. PInv => GroupKilled
  BY DEF PInv, Progress, GroupKilled
<1>2. QED
  BY <1>1, RunnerInvariant, PTL

\* run() returns complete output only (process.py:22-31).
THEOREM CompleteResults == Spec => []ResultsAreComplete
<1>1. PInv => ResultsAreComplete
  BY DEF PInv, Progress, ResultsAreComplete
<1>2. QED
  BY <1>1, RunnerInvariant, PTL

=============================================================================
