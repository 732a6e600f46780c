---------------------------- MODULE MetricsCache ----------------------------
(***************************************************************************)
(* What the metrics cache promises its readers, with no scrape loop, no    *)
(* temporary file and no worker thread in sight: one register holding the  *)
(* exposition of one scrape cycle at a time.                               *)
(*                                                                         *)
(*   - a cycle is published in one step, and only over an older one;       *)
(*   - a reply is the whole register, never a mixture or a fragment;       *)
(*   - a process answers nothing before its own first cycle is published,  *)
(*     so it never serves what an earlier process left behind.             *)
(*                                                                         *)
(* Module Runtime is shown to implement this specification as long as a    *)
(* cache write ends within one scrape interval.                            *)
(***************************************************************************)
EXTENDS Integers

CONSTANTS Clients,      \* the HTTP clients that ask for /metrics
          MaxCycles     \* bound: the scrape cycles, over all processes

Versions == 1..MaxCycles \* the cycles in the order they start

NoFile   == 0           \* no cycle was ever published
NotAsked == -3          \* this client got no reply from this process

VARIABLES file,         \* the cycle the register holds
          replies,      \* the last reply each client got from this process
          floor         \* the last cycle of the processes before this one

vars == <<file, replies, floor>>

NoReplies == [c \in Clients |-> NotAsked]

Init ==
  /\ file = NoFile
  /\ replies = NoReplies
  /\ floor = 0

Publish ==
  /\ \E k \in Versions : k > file /\ file' = k
  /\ UNCHANGED <<replies, floor>>

Reply(c) ==
  /\ file > floor
  /\ replies' = [replies EXCEPT ![c] = file]
  /\ UNCHANGED <<file, floor>>

Stop ==
  /\ replies' = NoReplies
  /\ UNCHANGED <<file, floor>>

Restart ==
  /\ replies = NoReplies
  /\ \E f \in Versions \union {0} : f >= file /\ floor' = f
  /\ UNCHANGED <<file, replies>>

Next == Publish \/ Stop \/ Restart \/ \E c \in Clients : Reply(c)

Spec == Init /\ [][Next]_vars

-----------------------------------------------------------------------------

\* The register is empty or holds one cycle; so does each client's last reply.
TypeOK ==
  /\ file \in Versions \union {NoFile}
  /\ replies \in [Clients -> Versions \union {NotAsked}]
  /\ floor \in Versions \union {0}

\* A client only holds replies of this process's own cycles, and none of them
\* is newer than what the register holds.
RepliesFresh ==
  \A c \in Clients : replies[c] # NotAsked => replies[c] > floor /\ replies[c] <= file

\* The register and what one client sees of it never go back in time.
NeverBack ==
  [][/\ file' >= file
     /\ \A c \in Clients : replies'[c] # NotAsked => replies'[c] >= replies[c]]_vars

=============================================================================
