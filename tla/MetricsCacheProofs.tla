-------------------------- MODULE MetricsCacheProofs --------------------------
(***************************************************************************)
(* What every implementation of the abstract cache inherits, for any       *)
(* clients and any number of cycles.                                       *)
(***************************************************************************)
EXTENDS MetricsCache, TLAPS

\* Registers and replies are whole cycles.
THEOREM CacheTypes == Spec => []TypeOK
<1> USE DEF TypeOK, Versions, NoFile, NotAsked, NoReplies
<1>1. Init => TypeOK
  BY DEF Init
<1>2. TypeOK /\ [Next]_vars => TypeOK'
  BY DEF Next, Publish, Reply, Stop, Restart, vars
<1>3. QED
  BY <1>1, <1>2, PTL DEF Spec

LEMMA FreshStep ==
  ASSUME TypeOK, RepliesFresh, [Next]_vars
  PROVE  RepliesFresh'
<1> USE DEF TypeOK, RepliesFresh, Versions, NoFile, NotAsked, NoReplies
<1>1. CASE Publish
  BY <1>1 DEF Publish
<1>2. CASE Stop
  BY <1>2 DEF Stop
<1>3. CASE Restart
  BY <1>3 DEF Restart
<1>4. ASSUME NEW c \in Clients, Reply(c) PROVE RepliesFresh'
  BY <1>4 DEF Reply
<1>5. CASE UNCHANGED vars
  BY <1>5 DEF vars
<1>6. QED
  BY <1>1, <1>2, <1>3, <1>4, <1>5 DEF Next

\* A client only holds replies of this process's own cycles, none newer than
\* the register.
THEOREM RepliesAreFresh == Spec => []RepliesFresh
<1>1. Init => RepliesFresh
  BY DEF Init, RepliesFresh, NoReplies
<1>2. TypeOK /\ RepliesFresh /\ [Next]_vars => RepliesFresh'
  BY FreshStep
<1>3. QED
  BY <1>1, <1>2, CacheTypes, PTL DEF Spec

\* Neither the register nor what one client is told ever goes back.
THEOREM CacheNeverBack == Spec => NeverBack
<1>1. ASSUME TypeOK, RepliesFresh, [Next]_vars
      PROVE  [/\ file' >= file
              /\ \A c \in Clients : replies'[c] # NotAsked => replies'[c] >= replies[c]]_vars
  <2> USE <1>1 DEF TypeOK, RepliesFresh, Versions, NoFile, NotAsked, NoReplies
  <2>1. CASE Publish
    BY <2>1 DEF Publish
  <2>2. CASE Stop
    BY <2>2 DEF Stop
  <2>3. CASE Restart
    BY <2>3 DEF Restart
  <2>4. ASSUME NEW c \in Clients, Reply(c)
        PROVE  /\ file' >= file
               /\ \A d \in Clients : replies'[d] # NotAsked => replies'[d] >= replies[d]
    BY <2>4 DEF Reply
  <2>5. QED
    BY <2>1, <2>2, <2>3, <2>4 DEF Next
<1>2. QED
  BY <1>1, CacheTypes, RepliesAreFresh, PTL DEF Spec, NeverBack
=============================================================================
