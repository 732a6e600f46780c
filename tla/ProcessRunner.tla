---------------------------- MODULE ProcessRunner ----------------------------
(***************************************************************************)
(* core/process.py: run_many() and the run() / _execute() / _reap() of each *)
(* of its commands, with the processes a command consists of.              *)
(*                                                                         *)
(* A command is a leader, the child that was spawned, and the helpers it   *)
(* forked into its process group, kept here as one. A helper may have      *)
(* inherited the leader's pipes, and the pipes are at their end only when  *)
(* everybody who holds them is gone. The event loop learns of an exited    *)
(* leader through asyncio's child watcher, which reaps it: from then on    *)
(* its pid names nothing. A command may run as another user (sudo, setuid);*)
(* the service, a normal user, is not permitted to signal such a process.  *)
(***************************************************************************)
EXTENDS Naturals

CONSTANTS Cmds,        \* the commands of one run_many() call
          Elevated,    \* those that may run, in part, as another user
          MayCancel    \* may the caller of run_many() be cancelled?

ASSUME MayCancelAssumption == MayCancel \in BOOLEAN

VARIABLES
  many,      \* run_many: "running", "returned", "raised", "cancelled"
  cancel,    \* has its caller been cancelled?
  call,      \* where run() is for each command, or how it ended
  leader,    \* "none", "running", "killed" (signal sent), "zombie", "reaped"
  exit,      \* how the leader ended: "none", "zero", "nonzero", "signal"
  helper,    \* "none", "running", "killed", "dead"
  holds,     \* does the helper hold the command's pipes?
  foreign    \* which of the two run as another user, after spawn or fork

caller    == <<many, cancel>>
processes == <<leader, exit, helper, holds, foreign>>
vars == <<caller, call, processes>>

\* How run() can end. "unspawned" was cancelled inside create_subprocess_exec;
\* "refused" could not kill its group, and raised PermissionError.
Ended == {"ok", "failed", "timed_out", "cancelled", "unspawned", "refused"}

Alive == {"running", "killed"}

Init ==
  /\ many = "running" /\ cancel = FALSE
  /\ call = [c \in Cmds |-> "new"]
  /\ leader = [c \in Cmds |-> "none"]
  /\ exit = [c \in Cmds |-> "none"]
  /\ helper = [c \in Cmds |-> "none"]
  /\ holds = [c \in Cmds |-> FALSE]
  /\ foreign = [c \in Cmds |-> {}]

Mine(c, who) == who \notin foreign[c]

GoTo(c, where) == call' = [call EXCEPT ![c] = where]

-----------------------------------------------------------------------------
\* The operating system: a leader forks a helper, and either of them exits.

Fork(c) ==
  /\ leader[c] = "running" /\ helper[c] = "none"
  /\ helper' = [helper EXCEPT ![c] = "running"]
  /\ \E inherits \in BOOLEAN : holds' = [holds EXCEPT ![c] = inherits]
  /\ \/ UNCHANGED foreign
     \/ c \in Elevated /\ foreign' = [foreign EXCEPT ![c] = @ \union {"helper"}]
  /\ UNCHANGED <<caller, call, leader, exit>>

Exit(c) ==
  /\ leader[c] = "running"
  /\ leader' = [leader EXCEPT ![c] = "zombie"]
  /\ \E status \in {"zero", "nonzero"} : exit' = [exit EXCEPT ![c] = status]
  /\ UNCHANGED <<caller, call, helper, holds, foreign>>

Die(c) ==
  /\ leader[c] = "killed"
  /\ leader' = [leader EXCEPT ![c] = "zombie"]
  /\ exit' = [exit EXCEPT ![c] = "signal"]
  /\ UNCHANGED <<caller, call, helper, holds, foreign>>

HelperExit(c) ==
  /\ helper[c] \in Alive
  /\ helper' = [helper EXCEPT ![c] = "dead"]
  /\ UNCHANGED <<caller, call, leader, exit, holds, foreign>>

\* asyncio's child watcher waits for the leader and sets its returncode.
Watch(c) ==
  /\ leader[c] = "zombie"
  /\ leader' = [leader EXCEPT ![c] = "reaped"]
  /\ UNCHANGED <<caller, call, exit, helper, holds, foreign>>

-----------------------------------------------------------------------------
\* _execute: create_subprocess_exec forks at once and then waits for the pipes
\* to be connected; a missing binary or an empty command raises instead.
Spawn(c) ==
  /\ call[c] = "new" /\ ~cancel
  /\ \/ /\ GoTo(c, "spawning")
        /\ leader' = [leader EXCEPT ![c] = "running"]
        /\ \/ UNCHANGED foreign
           \/ c \in Elevated /\ foreign' = [foreign EXCEPT ![c] = {"leader"}]
     \/ /\ GoTo(c, "failed")
        /\ UNCHANGED <<leader, foreign>>
  /\ UNCHANGED <<caller, exit, helper, holds>>

Spawned(c) ==
  /\ call[c] = "spawning" /\ ~cancel
  /\ GoTo(c, "communicating")
  /\ UNCHANGED <<caller, processes>>

\* communicate() needs the end of both pipes and the returncode.
EndOfOutput_LeaderOnly(c) == leader[c] = "reaped"
EndOfOutput(c) == leader[c] = "reaped" /\ ~(helper[c] \in Alive /\ holds[c])

\* run() accepts exit code 0 and output that decodes.
Communicated(c) ==
  /\ call[c] = "communicating"
  /\ EndOfOutput(c)
  /\ \E outcome \in IF exit[c] = "zero" THEN {"ok", "failed"} ELSE {"failed"} :
       GoTo(c, outcome)
  /\ UNCHANGED <<caller, processes>>

\* _reap: as long as the leader's pid is known, killpg() reaches everyone in the
\* group whom the service may signal. For a reaped leader getpgid() raises.
Kill_LeaderOnly(c) ==
  IF leader[c] = "running" /\ Mine(c, "leader")
  THEN leader' = [leader EXCEPT ![c] = "killed"] /\ UNCHANGED helper
  ELSE UNCHANGED <<leader, helper>>

Kill_EvenZombies(c) ==
  /\ leader' = [leader EXCEPT ![c] = "killed"]
  /\ helper' = [helper EXCEPT ![c] = IF @ = "running" THEN "killed" ELSE @]

Kill(c) ==
  IF leader[c] = "reaped"
  THEN UNCHANGED <<leader, helper>>
  ELSE /\ leader' = [leader EXCEPT ![c] =
                       IF @ = "running" /\ Mine(c, "leader") THEN "killed" ELSE @]
       /\ helper' = [helper EXCEPT ![c] =
                       IF @ = "running" /\ Mine(c, "helper") THEN "killed" ELSE @]

\* With nobody there whom it may signal killpg() is refused, and so is kill(). Two
\* cases are open: kill() may pass over a leader that has exited, and a dead helper
\* is still there for killpg() until its parent has waited for it.
Refusable(c) ==
  /\ leader[c] \in {"running", "zombie"} /\ ~Mine(c, "leader")
  /\ helper[c] \in Alive => ~Mine(c, "helper")
Signalled(c) ==
  Refusable(c) => leader[c] = "zombie" \/ (helper[c] = "dead" /\ Mine(c, "helper"))

\* _reap signals and goes on to wait, or its exception ends run(): PermissionError,
\* or ProcessLookupError of kill() once the leader's transport is closed.
GiveUp(c, next) ==
  /\ \/ Signalled(c) /\ Kill(c) /\ GoTo(c, next)
     \/ Refusable(c) /\ GoTo(c, "refused") /\ UNCHANGED <<leader, helper>>
     \/ EndOfOutput(c) /\ GoTo(c, "failed") /\ UNCHANGED <<leader, helper>>
  /\ UNCHANGED <<caller, exit, holds, foreign>>

TimedOut(c) ==
  /\ call[c] = "communicating" /\ ~cancel
  /\ GiveUp(c, "reap_timeout")

\* _reap awaits the leader and then the pending exception goes on.
Waited_ForOutput(c) == EndOfOutput(c)
Waited(c) == leader[c] = "reaped"

Reaped(c) ==
  /\ Waited(c)
  /\ \/ call[c] = "reap_timeout" /\ GoTo(c, "timed_out")
     \/ call[c] = "reap_cancel"  /\ GoTo(c, "cancelled")
     \/ call[c] = "spawn_cancel" /\ GoTo(c, "unspawned")
  /\ UNCHANGED <<caller, processes>>

-----------------------------------------------------------------------------
\* The caller of run_many is cancelled, so gather() cancels every run().
Cancel ==
  /\ MayCancel /\ many = "running" /\ ~cancel
  /\ cancel' = TRUE
  /\ UNCHANGED <<many, call, processes>>

\* A run() that has not begun never does.
CancelNew(c) ==
  /\ cancel /\ call[c] = "new"
  /\ GoTo(c, "cancelled")
  /\ UNCHANGED <<caller, processes>>

\* Inside create_subprocess_exec asyncio closes the transport: the leader alone is
\* killed, and waited for. If it cannot be killed, that raises at once, or (in newer
\* versions of asyncio) it is waited for all the same.
CancelSpawn(c) ==
  /\ cancel /\ call[c] = "spawning"
  /\ \/ /\ GoTo(c, "spawn_cancel")
        /\ leader' = [leader EXCEPT ![c] =
                        IF @ = "running" /\ Mine(c, "leader") THEN "killed" ELSE @]
     \/ /\ leader[c] = "running" /\ ~Mine(c, "leader")
        /\ GoTo(c, "unspawned")
        /\ UNCHANGED leader
  /\ UNCHANGED <<caller, exit, helper, holds, foreign>>

CancelCommunicate(c) ==
  /\ cancel /\ call[c] = "communicating"
  /\ GiveUp(c, "reap_cancel")

\* _reap for a timeout is cut short; whoever can be killed has been signalled.
CancelReap(c) ==
  /\ cancel /\ call[c] = "reap_timeout"
  /\ GoTo(c, "cancelled")
  /\ UNCHANGED <<caller, processes>>

\* gather() has every result; a cancelled one raises whatever they are.
Gathered_FirstOnly == \E c \in Cmds : call[c] \in Ended
Gathered == \A c \in Cmds : call[c] \in Ended

Finish ==
  /\ many = "running" /\ Gathered
  /\ many' = IF cancel THEN "cancelled"
             ELSE IF \A c \in Cmds : call[c] = "ok" THEN "returned" ELSE "raised"
  /\ UNCHANGED <<cancel, call, processes>>

-----------------------------------------------------------------------------
Kernel(c) == Fork(c) \/ Exit(c) \/ Die(c) \/ HelperExit(c) \/ Watch(c)

Run(c) == Spawn(c) \/ Spawned(c) \/ Communicated(c) \/ TimedOut(c) \/ Reaped(c)

CancelRun(c) == CancelNew(c) \/ CancelSpawn(c) \/ CancelCommunicate(c) \/ CancelReap(c)

Next == Cancel \/ Finish \/ \E c \in Cmds : Kernel(c) \/ Run(c) \/ CancelRun(c)

Spec == Init /\ [][Next]_vars

\* The event loop runs, a killed process dies and the watcher sees it. Nothing
\* says that a command, or a helper, ever ends by itself.
Fairness ==
  /\ WF_vars(Finish)
  /\ \A c \in Cmds : WF_vars(Run(c)) /\ WF_vars(CancelRun(c)) /\ WF_vars(Die(c)) /\ WF_vars(Watch(c))

FairSpec == Spec /\ Fairness

-----------------------------------------------------------------------------
\* Types, and a leader has an exit status exactly when it has exited.
TypeOK ==
  /\ many \in {"running", "returned", "raised", "cancelled"}
  /\ cancel \in BOOLEAN
  /\ call \in [Cmds -> Ended \union {"new", "spawning", "communicating", "reap_timeout",
                                     "reap_cancel", "spawn_cancel"}]
  /\ leader \in [Cmds -> {"none", "running", "killed", "zombie", "reaped"}]
  /\ exit \in [Cmds -> {"none", "zero", "nonzero", "signal"}]
  /\ helper \in [Cmds -> {"none", "running", "killed", "dead"}]
  /\ holds \in [Cmds -> BOOLEAN]
  /\ foreign \in [Cmds -> SUBSET {"leader", "helper"}]
  /\ \A c \in Cmds : exit[c] = "none" <=> leader[c] \in {"none", "running", "killed"}

\* run_many is never left with a command at work that it could have stopped: a
\* leader that still runs is another user's, its run() was given up and run_many
\* reported no success; any other leader is reaped, was never there, or, if _reap
\* was cut short or refused, is dying or dead.
OwnCommandsEnd ==
  many # "running" =>
    \A c \in Cmds :
      /\ leader[c] = "running" => ~Mine(c, "leader") /\ many # "returned"
      /\ call[c] \in {"ok", "failed", "timed_out"} => leader[c] \in {"none", "reaped"}

\* A timed-out or cancelled command of the service's own user leaves a running
\* helper only if its leader had exited by itself before the signal. This is about
\* _reap; a command cancelled while it is spawned never gets there, see GroupEnds.
GroupKilled ==
  \A c \in Cmds :
    (/\ call[c] \in {"timed_out", "cancelled"} /\ foreign[c] = {}
     /\ helper[c] = "running") => exit[c] \in {"zero", "nonzero"}

\* run() only returns output that is complete: nobody who could still write to
\* the command's pipes is alive, and the leader exited with 0 by itself.
ResultsAreComplete ==
  \A c \in Cmds :
    call[c] = "ok" => exit[c] = "zero" /\ (helper[c] \in Alive => ~holds[c])

\* However long its commands run, and whoever holds their pipes, run_many is
\* left: by their timeouts, or when its caller is cancelled. What can keep it is a
\* leader of another user that _reap, or asyncio, waits for without having killed it.
Held(c) ==
  call[c] \in {"reap_timeout", "reap_cancel", "spawn_cancel"} /\ leader[c] = "running"
RunManyEnds == many = "running" ~> (many # "running" \/ \E c \in Cmds : Held(c))

-----------------------------------------------------------------------------
\* The class comment: timed-out commands are "killed including their whole
\* process group, so no children or grandchildren survive". Stated of a helper
\* that holds the command's pipes, so the command really had not ended.
NoStragglers ==
  \A c \in Cmds :
    call[c] = "timed_out" /\ foreign[c] = {} => ~(helper[c] = "running" /\ holds[c])

\* The same sentence, of cancelled commands: who kills the leader kills its group.
GroupEnds ==
  \A c \in Cmds :
    (/\ call[c] \in {"cancelled", "unspawned"} /\ foreign[c] = {}
     /\ exit[c] = "signal") => helper[c] # "running"

=============================================================================
