------------------------------- MODULE Lease -------------------------------
(***************************************************************************)
(* The singleton lease on DATA_DIRECTORY (lease.rs): processes that bind a *)
(* Unix socket, recover one that nobody listens on, and give it up again.  *)
(* Every system call on the directory is a step, so what was checked can   *)
(* be out of date when it is acted upon.                                   *)
(***************************************************************************)
EXTENDS Naturals, FiniteSets

CONSTANTS
  Procs,     \* processes that use the data directory
  None,
  MaxStarts  \* bound: how often each process is started

ASSUME ProcsAssumption == None \notin Procs
ASSUME StartsAssumption == MaxStarts \in Nat

VARIABLES
  at,         \* where each process is in acquire or drop
  socket,     \* whose bind created the file .singleton.sock
  listening,  \* the processes whose bound socket accepts connections
  recovery,   \* the directory .singleton-recovery; old means over 10 seconds
  identity,   \* what acquire took for the identity of its own socket file
  metadata,   \* whose id .singleton.json holds
  starts,
  supervised  \* are processes started and stopped one at a time? (never changes)
path == <<socket, recovery, metadata>>
vars == <<at, path, listening, identity, starts, supervised>>

Resting == {"off", "owner"}
Acquiring == {"bind", "listen", "stat", "publish", "probe", "claim", "recheck",
              "remove", "unclaim", "inspect", "evict"}
Dropping == {"compare", "unlink", "forget"}

TypeOK ==
  /\ at \in [Procs -> Resting \cup Acquiring \cup Dropping]
  /\ socket \in Procs \cup {None} /\ listening \in SUBSET Procs
  /\ recovery \in {"none", "fresh", "old"}
  /\ identity \in [Procs -> Procs \cup {None}]
  /\ metadata \in Procs \cup {None}
  /\ starts \in [Procs -> 0..MaxStarts] /\ supervised \in BOOLEAN
  /\ \A p \in Procs : at[p] \in {"publish", "owner"} => identity[p] # None

Init ==
  /\ at = [p \in Procs |-> "off"]
  /\ socket = None /\ listening = {} /\ recovery = "none" /\ metadata = None
  /\ identity = [p \in Procs |-> None]
  /\ starts = [p \in Procs |-> 0] /\ supervised \in BOOLEAN

Goto(p, label) == at' = [at EXCEPT ![p] = label]

\* live(): a connection is accepted by whoever listens on the file
AnswersNever == FALSE                        \* mutant
Answers == socket \in listening

Start(p) ==
  /\ at[p] = "off" /\ starts[p] < MaxStarts
  /\ Goto(p, "bind")
  /\ starts' = [starts EXCEPT ![p] = @ + 1]
  /\ UNCHANGED <<path, listening, identity>>

-----------------------------------------------------------------------------
(* acquire *)

\* mutant: whatever is at the path is unlinked first
BindUnlinks(p) ==
  /\ at[p] = "bind"
  /\ socket' = p /\ Goto(p, "listen")
  /\ UNCHANGED <<listening, recovery, identity, metadata, starts>>

\* UnixListener::bind binds, then listens: between the two calls the file
\* exists and refuses connections
Bind(p) ==
  /\ at[p] = "bind"
  /\ IF socket = None THEN socket' = p /\ Goto(p, "listen")
                      ELSE UNCHANGED socket /\ Goto(p, "probe")
  /\ UNCHANGED <<listening, recovery, identity, metadata, starts>>

Listen(p) ==
  /\ at[p] = "listen"
  /\ listening' = listening \cup {p} /\ Goto(p, "stat")
  /\ UNCHANGED <<path, identity, starts>>

\* set_permissions and symlink_metadata use the path; without a file the
\* acquisition fails and the listener is closed
Stat(p) ==
  /\ at[p] = "stat"
  /\ IF socket = None
     THEN listening' = listening \ {p} /\ Goto(p, "off") /\ UNCHANGED identity
     ELSE identity' = [identity EXCEPT ![p] = socket] /\ Goto(p, "publish")
          /\ UNCHANGED listening
  /\ UNCHANGED <<path, starts>>

Publish(p) ==
  /\ at[p] = "publish"
  /\ metadata' = p /\ Goto(p, "owner")
  /\ UNCHANGED <<socket, listening, recovery, identity, starts>>

\* the metadata cannot be written: the path is removed whatever it names
PublishFails(p) ==
  /\ at[p] = "publish"
  /\ socket' = None /\ listening' = listening \ {p} /\ Goto(p, "off")
  /\ UNCHANGED <<recovery, identity, metadata, starts>>

\* ERR_SINGLETON_LOCKED, or the way to recovery
Probe(p) ==
  /\ at[p] = "probe"
  /\ Goto(p, IF Answers THEN "off" ELSE "claim")
  /\ UNCHANGED <<path, listening, identity, starts>>

Claim(p) ==
  /\ at[p] = "claim"
  /\ IF recovery = "none" THEN recovery' = "fresh" /\ Goto(p, "recheck")
                          ELSE UNCHANGED recovery /\ Goto(p, "inspect")
  /\ UNCHANGED <<socket, listening, identity, metadata, starts>>

Recheck(p) ==
  /\ at[p] = "recheck"
  /\ Goto(p, IF Answers THEN "unclaim" ELSE "remove")
  /\ UNCHANGED <<path, listening, identity, starts>>

Remove(p) ==
  /\ at[p] = "remove"
  /\ socket' = None /\ Goto(p, "unclaim")
  /\ UNCHANGED <<listening, recovery, identity, metadata, starts>>

Unclaim(p) ==
  /\ at[p] = "unclaim"
  /\ recovery' = "none" /\ Goto(p, "bind")
  /\ UNCHANGED <<socket, listening, identity, metadata, starts>>

\* mutant: an abandoned directory is left where it is
InspectKeeps(p) ==
  /\ at[p] = "inspect"
  /\ Goto(p, IF recovery = "none" THEN "off" ELSE "bind")
  /\ UNCHANGED <<path, listening, identity, starts>>

\* a directory that is gone by now fails the acquisition; after the nap the
\* loop begins again
Inspect(p) ==
  /\ at[p] = "inspect"
  /\ Goto(p, CASE recovery = "none"  -> "off"
               [] recovery = "fresh" -> "bind"
               [] recovery = "old"   -> "evict")
  /\ UNCHANGED <<path, listening, identity, starts>>

Evict(p) ==
  /\ at[p] = "evict"
  /\ recovery' = "none" /\ Goto(p, "bind")
  /\ UNCHANGED <<socket, listening, identity, metadata, starts>>

-----------------------------------------------------------------------------
(* drop *)

\* the accept loop is stopped and joined, which closes the listener
Release(p) ==
  /\ at[p] = "owner"
  /\ listening' = listening \ {p} /\ Goto(p, "compare")
  /\ UNCHANGED <<path, identity, starts>>

Compare(p) ==
  /\ at[p] = "compare"
  /\ Goto(p, IF socket = identity[p] THEN "unlink" ELSE "forget")
  /\ UNCHANGED <<path, listening, identity, starts>>

Unlink(p) ==
  /\ at[p] = "unlink"
  /\ socket' = None /\ Goto(p, "forget")
  /\ UNCHANGED <<listening, recovery, identity, metadata, starts>>

Forget(p) ==
  /\ at[p] = "forget"
  /\ metadata' = IF metadata = p THEN None ELSE metadata
  /\ Goto(p, "off")
  /\ UNCHANGED <<socket, listening, recovery, identity, starts>>

-----------------------------------------------------------------------------

\* SIGKILL or power loss: the files stay, the listener does not
Crash(p) ==
  /\ at[p] # "off"
  /\ Goto(p, "off") /\ listening' = listening \ {p}
  /\ UNCHANGED <<path, identity, starts>>

Age ==
  /\ recovery = "fresh" /\ recovery' = "old"
  /\ UNCHANGED <<at, socket, listening, identity, metadata, starts>>

Acquire(p) ==
  \/ Bind(p) \/ Listen(p) \/ Stat(p) \/ Publish(p) \/ PublishFails(p)
  \/ Probe(p) \/ Claim(p) \/ Recheck(p) \/ Remove(p) \/ Unclaim(p)
  \/ Inspect(p) \/ Evict(p)

Drop(p) == Compare(p) \/ Unlink(p) \/ Forget(p)

\* every other process holds the lease or is not running
Calm(p) == \A q \in Procs \ {p} : at[q] \in Resting

\* the supervisor and the operator start or stop one process at a time; nothing
\* but the lease itself holds back anybody else
Begins(p) == (Start(p) \/ Release(p)) /\ (supervised => Calm(p))

Next ==
  /\ \/ \E p \in Procs : Begins(p) \/ Acquire(p) \/ Drop(p) \/ Crash(p)
     \/ Age
  /\ UNCHANGED supervised

Spec == Init /\ [][Next]_vars

\* a running process takes its next step, and time passes
Moves(p) == (Acquire(p) \/ Drop(p)) /\ UNCHANGED supervised
Fairness ==
  /\ WF_vars(Age /\ UNCHANGED supervised)
  /\ \A p \in Procs : WF_vars(Moves(p))
FairSpec == Spec /\ Fairness

-----------------------------------------------------------------------------
\* The persistent directory has one owner.  Unsupervised, two acquisitions that
\* overlap can both end as the owner.
OneOwner ==
  supervised =>
    \A p, q \in Procs : at[p] = "owner" /\ at[q] = "owner" => p = q

\* An owner can be reached under the path, so that whoever comes next is
\* refused; nobody's recovery or drop has taken the path away.
OwnerReachable ==
  supervised =>
    \A p \in Procs :
      at[p] = "owner" => socket = p /\ p \in listening /\ metadata = p

\* Recovery and drop remove only an abandoned path: no step takes the file of a
\* process that listens on it, except that process giving up its acquisition.
OnlyAbandonedRemoved ==
  [][supervised /\ socket # None /\ socket' = None =>
       \/ socket \notin listening
       \/ at[socket] = "publish" /\ at'[socket] = "off"]_vars

\* Whatever a crash left behind and whoever else is trying, an acquisition comes
\* to its end: the lease is taken or the attempt has failed.
AcquisitionDecided ==
  \A p \in Procs : at[p] \in Acquiring ~> at[p] \in Resting
=============================================================================
