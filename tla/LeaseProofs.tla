---------------------------- MODULE LeaseProofs ----------------------------
(***************************************************************************)
(* One process at a time starting or stopping, and crashes anywhere: the   *)
(* lease has one owner, who can be reached, for any number of processes.   *)
(***************************************************************************)
EXTENDS Lease, TLAPS

\* Only one process is between its start and its end of acquire or drop.
OneMoves ==
  \A p, q \in Procs : at[p] \notin Resting /\ at[q] \notin Resting => p = q

\* A process that found nobody listening, or gives up what it had, shares the
\* directory with no owner.
NoOwnerBeside ==
  \A p \in Procs :
    at[p] \notin Resting \cup {"bind", "probe"} =>
      \A q \in Procs : at[q] # "owner"

\* From its bind on a process is the one the path names.
PathNames ==
  \A p \in Procs :
    /\ at[p] \in {"listen", "stat", "publish"} => socket = p
    /\ at[p] \in {"stat", "publish"} => p \in listening
    /\ p \in listening => at[p] \in {"stat", "publish", "owner"}

Supervision ==
  OneMoves /\ NoOwnerBeside /\ PathNames /\ OwnerReachable

LInv == TypeOK /\ (supervised => Supervision)

USE ProcsAssumption, StartsAssumption
  DEF path, Goto, Resting, Acquiring, Dropping

\* Nothing runs and nothing is left behind in an initial state.
LEMMA InitLInv == Init => LInv
  BY DEF Init, LInv, Supervision, TypeOK, OneMoves, NoOwnerBeside, PathNames,
         OwnerReachable

\* Whoever starts and stops when, no process leaves acquire or drop, and none
\* owns the lease without an identity of its own.
LEMMA NextTypeOK == TypeOK /\ [Next]_vars => TypeOK'
<1> SUFFICES ASSUME TypeOK, [Next]_vars PROVE TypeOK'
  OBVIOUS
<1> USE DEF TypeOK
<1>1. ASSUME NEW p \in Procs, Begins(p), UNCHANGED supervised PROVE TypeOK'
  BY <1>1 DEF Begins, Start, Release
<1>2. ASSUME NEW p \in Procs, Acquire(p), UNCHANGED supervised PROVE TypeOK'
  <2>1. CASE Bind(p)
    BY <1>2, <2>1 DEF Bind
  <2>2. CASE Listen(p)
    BY <1>2, <2>2 DEF Listen
  <2>3. CASE Stat(p)
    BY <1>2, <2>3 DEF Stat
  <2>4. CASE Publish(p)
    BY <1>2, <2>4 DEF Publish
  <2>5. CASE PublishFails(p)
    BY <1>2, <2>5 DEF PublishFails
  <2>6. CASE Probe(p)
    BY <1>2, <2>6 DEF Probe, Answers
  <2>7. CASE Claim(p) \/ Recheck(p)
    BY <1>2, <2>7 DEF Claim, Recheck
  <2>8. CASE Remove(p) \/ Unclaim(p)
    BY <1>2, <2>8 DEF Remove, Unclaim
  <2>9. CASE Inspect(p) \/ Evict(p)
    BY <1>2, <2>9 DEF Inspect, Evict
  <2> QED
    BY <1>2, <2>1, <2>2, <2>3, <2>4, <2>5, <2>6, <2>7, <2>8, <2>9 DEF Acquire
<1>3. ASSUME NEW p \in Procs, Drop(p), UNCHANGED supervised PROVE TypeOK'
  BY <1>3 DEF Drop, Compare, Unlink, Forget
<1>4. ASSUME NEW p \in Procs, Crash(p), UNCHANGED supervised PROVE TypeOK'
  BY <1>4 DEF Crash
<1>5. CASE Age /\ UNCHANGED supervised
  BY <1>5 DEF Age
<1>6. CASE UNCHANGED vars
  BY <1>6 DEF vars
<1> QED
  BY <1>1, <1>2, <1>3, <1>4, <1>5, <1>6 DEF Next

\* One at a time, what a process finds is still so when it acts upon it.
LEMMA NextSupervision ==
  TypeOK /\ supervised /\ Supervision /\ [Next]_vars => Supervision'
<1> SUFFICES ASSUME TypeOK, supervised, Supervision, [Next]_vars
             PROVE  Supervision'
  OBVIOUS
<1> USE DEF Supervision, TypeOK, OneMoves, NoOwnerBeside, PathNames,
            OwnerReachable
<1>0. CASE UNCHANGED vars
  BY <1>0 DEF vars
<1>1. ASSUME NEW p \in Procs, Begins(p), UNCHANGED supervised PROVE Supervision'
  <2>1. Calm(p)
    BY <1>1 DEF Begins
  <2>2. CASE Start(p)
    BY <1>1, <2>1, <2>2 DEF Start, Calm
  <2>3. CASE Release(p)
    BY <1>1, <2>1, <2>3 DEF Release, Calm
  <2> QED
    BY <1>1, <2>2, <2>3 DEF Begins
<1>2. ASSUME NEW p \in Procs, Acquire(p), UNCHANGED supervised
      PROVE  Supervision'
  <2>1. CASE Bind(p)
    BY <1>2, <2>1 DEF Bind
  <2>2. CASE Listen(p)
    BY <1>2, <2>2 DEF Listen
  <2>3. CASE Stat(p)
    BY <1>2, <2>3 DEF Stat
  <2>4. CASE Publish(p)
    BY <1>2, <2>4 DEF Publish
  <2>5. CASE PublishFails(p)
    BY <1>2, <2>5 DEF PublishFails
  <2>6. CASE Probe(p)
    BY <1>2, <2>6 DEF Probe, Answers
  <2>7. CASE Claim(p) \/ Recheck(p)
    BY <1>2, <2>7 DEF Claim, Recheck
  <2>8. CASE Remove(p) \/ Unclaim(p)
    BY <1>2, <2>8 DEF Remove, Unclaim
  <2>9. CASE Inspect(p) \/ Evict(p)
    BY <1>2, <2>9 DEF Inspect, Evict
  <2> QED
    BY <1>2, <2>1, <2>2, <2>3, <2>4, <2>5, <2>6, <2>7, <2>8, <2>9 DEF Acquire
<1>3. ASSUME NEW p \in Procs, Drop(p), UNCHANGED supervised PROVE Supervision'
  <2>1. CASE Compare(p)
    BY <1>3, <2>1 DEF Compare
  <2>2. CASE Unlink(p)
    BY <1>3, <2>2 DEF Unlink
  <2>3. CASE Forget(p)
    BY <1>3, <2>3 DEF Forget
  <2> QED
    BY <1>3, <2>1, <2>2, <2>3 DEF Drop
<1>4. ASSUME NEW p \in Procs, Crash(p), UNCHANGED supervised PROVE Supervision'
  BY <1>4 DEF Crash
<1>5. CASE Age /\ UNCHANGED supervised
  BY <1>5 DEF Age
<1> QED
  BY <1>0, <1>1, <1>2, <1>3, <1>4, <1>5 DEF Next

\* The invariant holds whatever crashes leave behind.
THEOREM LeaseInvariance == Spec => []LInv
<1>1. LInv /\ [Next]_vars => LInv'
  <2>1. [Next]_vars => supervised' = supervised
    BY DEF Next, vars
  <2> QED
    BY <2>1, NextTypeOK, NextSupervision DEF LInv
<1> QED
  BY <1>1, InitLInv, PTL DEF Spec

\* No process leaves the states of acquire and drop, supervised or not.
THEOREM LeaseTypeCorrect == Spec => []TypeOK
<1>1. LInv => TypeOK
  BY DEF LInv
<1> QED
  BY <1>1, LeaseInvariance, PTL

\* Two processes never hold the lease together.
THEOREM SingleOwner == Spec => []OneOwner
<1>1. LInv => OneOwner
  BY DEF LInv, Supervision, OwnerReachable, OneOwner
<1> QED
  BY <1>1, LeaseInvariance, PTL

\* The owner stays reachable under the path until it drops the lease.
THEOREM OwnerStaysReachable == Spec => []OwnerReachable
<1>1. LInv => OwnerReachable
  BY DEF LInv, Supervision, OwnerReachable
<1> QED
  BY <1>1, LeaseInvariance, PTL

\* Recovery and drop take away abandoned files only.
THEOREM RemovalIsSafe == Spec => OnlyAbandonedRemoved
<1> DEFINE Abandoned ==
      supervised /\ socket # None /\ socket' = None =>
        \/ socket \notin listening
        \/ at[socket] = "publish" /\ at'[socket] = "off"
<1>1. ASSUME LInv, supervised, Next PROVE Abandoned
  <2> USE <1>1 DEF LInv, Supervision, TypeOK
  <2>1. ASSUME NEW p \in Procs, PublishFails(p) PROVE Abandoned
    BY <2>1 DEF PublishFails, PathNames
  <2>2. ASSUME NEW p \in Procs, Remove(p) \/ Unlink(p) PROVE Abandoned
    <3>1. at[p] \in {"remove", "unlink"}
      BY <2>2 DEF Remove, Unlink
    <3>2. ASSUME NEW q \in Procs PROVE at[q] \notin {"stat", "publish", "owner"}
      BY <3>1 DEF OneMoves, NoOwnerBeside
    <3>3. socket # None => socket \notin listening
      BY <3>2 DEF PathNames
    <3> QED
      BY <3>3
  <2>3. CASE socket' = socket \/ socket' # None
    BY <2>3
  <2>4. ASSUME NEW p \in Procs, Bind(p) PROVE Abandoned
    BY <2>4 DEF Bind
  <2> QED
    BY <2>1, <2>2, <2>3, <2>4
    DEF Next, Begins, Acquire, Drop, Start, Release, Crash, Age, Listen,
        Stat, Publish, Probe, Claim, Recheck, Unclaim, Inspect, Evict, Compare,
        Forget
<1>2. LInv /\ [Next]_vars => [Abandoned]_vars
  BY <1>1
<1> QED
  BY <1>2, LeaseInvariance, PTL DEF Spec, OnlyAbandonedRemoved
=============================================================================
