------------------------------ MODULE Delivery ------------------------------
(***************************************************************************)
(* One process of rental-app, seen from its private recipients: the        *)
(* Telegram poll thread (runtime.rs, poll_thread), the private scheduler   *)
(* the main thread runs after every crawl (Scheduler::deliver), and the    *)
(* send workers it spawns.  They share the SQLite rows of a recipient, a   *)
(* mutex per recipient (the gate), a cancellation flag per worker, a       *)
(* generation counter, and the stop and fatal flags.                       *)
(*                                                                         *)
(* Nothing is done while the database mutex is held but local statements,  *)
(* so a section of the code under that mutex is one action.  The order of  *)
(* the job queue is abstracted: the scheduler may take any queued job.     *)
(***************************************************************************)
EXTENDS Integers, FiniteSets

CONSTANTS
  Users,        \* recipients
  Nobody,       \* no recipient
  MaxWorkers,   \* 8 in the code: running >= 8 stops a scan
  MaxAttempts,  \* 4 in the code: attempts < 4 allows a retry
  MaxBatch,     \* bound: rows one classification may prepare
  MaxUpdates    \* bound: updates one getUpdates call may return

ASSUME UsersAssumption == IsFiniteSet(Users) /\ Nobody \notin Users
ASSUME BoundsAssumption ==
  /\ MaxWorkers \in Nat \ {0} /\ MaxAttempts \in Nat \ {0}
  /\ MaxBatch \in Nat \ {0} /\ MaxUpdates \in Nat

VARIABLES
  \* SQLite
  user,       \* telegram_users row: none, inactive, active, deletion marker
  recipient,  \* is there a private_recipients row, with what cascades from it
  batch,      \* rows of the recipient in the temp table of the pass
  \* shared memory
  gate,       \* owner of the recipient's mutex
  cancel,     \* the worker's flag in the cancellations map
  checked,    \* the job's checked generation equals the current generation
  stop, fatal,
  \* the scheduler on the main thread
  main,       \* where the main thread is
  hand,       \* the recipient whose gate the main thread waits for
  seen,       \* the generation it loaded before waiting is still current
  job,        \* phase of the recipient's job
  later,      \* the job's due time is in the future
  attempts, running,
  \* the send workers
  worker,     \* where the recipient's worker is
  result,     \* what it will report
  \* the poll thread
  poll, todo, next, subject, deleting, left, unavailable,
  doomed,     \* the batch failed in a way that stops the runtime at its end
  lost        \* history: whose committed change was never read back

durable   == <<user, recipient, batch>>
flags     == <<stop, fatal>>
jobVars   == <<job, later, attempts, checked>>
mainVars  == <<main, hand, seen, running>>
workVars  == <<worker, result, cancel>>
recovery  == <<todo, next>>
update    == <<subject, deleting>>
batchVars == <<left, unavailable, doomed, lost>>
pollVars  == <<poll, recovery, update, batchVars>>
vars == <<durable, gate, flags, jobVars, mainVars, workVars, pollVars>>

\* what the steps of one thread leave alone
exceptPoll  == <<durable, gate, flags, jobVars, mainVars, workVars>>
exceptMain  == <<durable, gate, flags, workVars, pollVars>>
exceptWork  == <<flags, jobVars, mainVars, pollVars>>
processVars == <<flags, jobVars, mainVars, workVars>>

RowsOK ==
  /\ user \in [Users -> {"absent", "inactive", "active", "marked"}]
  /\ recipient \in [Users -> BOOLEAN]
  /\ gate \in [Users -> {"free", "poll", "worker"}]
  /\ stop \in BOOLEAN /\ fatal \in BOOLEAN

JobsOK ==
  /\ main \in {"crawl", "round", "classify", "check", "stopping", "stopped",
              "down"}
  /\ hand \in Users \cup {Nobody} /\ seen \in BOOLEAN
  /\ main \in {"classify", "check"} => hand \in Users
  /\ job \in [Users -> {"none", "classify", "announce", "listing"}]
  /\ later \in [Users -> BOOLEAN] /\ checked \in [Users -> BOOLEAN]

WorkersOK ==
  /\ worker \in [Users -> {"idle", "spawned", "sending", "accepted",
                           "retiring", "reported"}]
  /\ result \in [Users -> {"none", "retire", "more", "retry", "fail"}]
  /\ cancel \in [Users -> {"none", "clear", "set"}]

PollOK ==
  /\ poll \in {"top", "recover", "receipt", "fetch", "updates", "bump", "flag",
               "reply", "batchEnd", "unavailable", "deactivated", "stopped",
              "down"}
  /\ todo \in SUBSET Users /\ next \in {"fetch", "unavailable"}
  /\ subject \in Users \cup {Nobody} /\ deleting \in BOOLEAN
  /\ poll \in {"receipt", "bump", "flag", "reply", "deactivated"} => subject \in Users
  /\ unavailable \in SUBSET Users /\ doomed \in BOOLEAN
  /\ lost \in Users \cup {Nobody}

CountersOK ==
  /\ batch \in [Users -> 0..MaxBatch] /\ attempts \in [Users -> 0..(MaxAttempts - 1)]
  /\ running \in Int /\ left \in 0..MaxUpdates

TypeOK == RowsOK /\ JobsOK /\ WorkersOK /\ PollOK /\ CountersOK

Init ==
  /\ user = [u \in Users |-> "absent"]
  /\ recipient = [u \in Users |-> FALSE]
  /\ batch = [u \in Users |-> 0]
  /\ gate = [u \in Users |-> "free"]
  /\ cancel = [u \in Users |-> "none"]
  /\ checked = [u \in Users |-> FALSE]
  /\ stop = FALSE /\ fatal = FALSE
  /\ main = "crawl" /\ hand = Nobody /\ seen = FALSE /\ running = 0
  /\ job = [u \in Users |-> "none"]
  /\ later = [u \in Users |-> FALSE]
  /\ attempts = [u \in Users |-> 0]
  /\ worker = [u \in Users |-> "idle"]
  /\ result = [u \in Users |-> "none"]
  /\ poll = "top" /\ todo = {} /\ next = "fetch"
  /\ subject = Nobody /\ deleting = FALSE
  /\ left = 0 /\ unavailable = {} /\ doomed = FALSE /\ lost = Nobody

Eligible(u) == user[u] = "active"
Marked == {u \in Users : user[u] = "marked"}
Queued(u) == job[u] # "none" /\ worker[u] = "idle"

FailRuntime == stop' = TRUE /\ fatal' = TRUE

\* a worker looks again before it acknowledges
AwaitsAckUnlessCancelled(u) ==       \* mutant: gives up what was cancelled
  user[u] \in {"inactive", "active"} /\ cancel[u] # "set"
AwaitsAck(u) == user[u] \in {"inactive", "active"}

\* load_user, active = false, save_user: a deletion marker stays
Deactivate(u) ==
  user' = [user EXCEPT ![u] = IF @ = "active" THEN "inactive" ELSE @]

\* the job is not put back
Drop(u) ==
  /\ job' = [job EXCEPT ![u] = "none"]
  /\ later' = [later EXCEPT ![u] = FALSE]
  /\ attempts' = [attempts EXCEPT ![u] = 0]
  /\ checked' = [checked EXCEPT ![u] = FALSE]

-----------------------------------------------------------------------------
(* The poll thread *)

\* mutant: markers are recovered after a batch only
PollTopFetches ==
  /\ poll = "top"
  /\ poll' = IF stop THEN "stopped" ELSE "fetch"
  /\ UNCHANGED <<recovery, update, batchVars, exceptPoll>>

\* recover_deletions reads the markers once, then works them off
PollTop ==
  /\ poll = "top"
  /\ IF stop THEN poll' = "stopped" /\ UNCHANGED recovery
             ELSE poll' = "recover" /\ todo' = Marked /\ next' = "fetch"
  /\ UNCHANGED <<update, batchVars, exceptPoll>>

\* mutant: the rows of the temp table are forgotten
CompleteDeletionKeepsBatch(u) ==
  /\ poll = "recover" /\ u \in todo /\ gate[u] = "free"
  /\ user' = [user EXCEPT ![u] = "absent"]
  /\ recipient' = [recipient EXCEPT ![u] = FALSE]
  /\ gate' = [gate EXCEPT ![u] = "poll"]
  /\ todo' = todo \ {u}
  /\ subject' = u /\ poll' = "receipt"
  /\ UNCHANGED <<batchVars, processVars, batch, next, deleting>>

\* mutant: the gate is not taken
CompleteDeletionUngated(u) ==
  /\ poll = "recover" /\ u \in todo
  /\ user' = [user EXCEPT ![u] = "absent"]
  /\ recipient' = [recipient EXCEPT ![u] = FALSE]
  /\ batch' = [batch EXCEPT ![u] = 0]
  /\ todo' = todo \ {u}
  /\ subject' = u /\ poll' = "receipt"
  /\ UNCHANGED <<batchVars, processVars, gate, next, deleting>>

\* delete_user_data removes the batch rows, the recipient with what cascades,
\* and the user in one transaction, under the gate
CompleteDeletion(u) ==
  /\ poll = "recover" /\ u \in todo /\ gate[u] = "free"
  /\ user' = [user EXCEPT ![u] = "absent"]
  /\ recipient' = [recipient EXCEPT ![u] = FALSE]
  /\ batch' = [batch EXCEPT ![u] = 0]
  /\ gate' = [gate EXCEPT ![u] = "poll"]
  /\ todo' = todo \ {u}
  /\ subject' = u /\ poll' = "receipt"
  /\ UNCHANGED <<batchVars, processVars, next, deleting>>

\* the receipt is sent while the gate is held and its failure is ignored
SendReceipt ==
  /\ poll = "receipt"
  /\ gate' = [gate EXCEPT ![subject] = "free"]
  /\ poll' = "recover" /\ subject' = Nobody
  /\ UNCHANGED <<durable, recovery, batchVars, processVars, deleting>>

RecoverDone ==
  /\ poll = "recover" /\ todo = {}
  /\ poll' = next /\ next' = "fetch"
  /\ UNCHANGED <<update, batchVars, exceptPoll, todo>>

\* getUpdates answers with a batch, fails and is tried again, or is refused
GetUpdates ==
  /\ poll = "fetch"
  /\ \/ poll' = "updates" /\ left' \in 0..MaxUpdates /\ UNCHANGED flags
     \/ poll' = "top" /\ UNCHANGED <<left, flags>>
     \/ poll' = "stopped" /\ FailRuntime /\ UNCHANGED left
  /\ UNCHANGED <<durable, jobVars, mainVars, workVars, update, gate, todo,
                 next, unavailable, doomed, lost>>

\* what bot.rs process and handle_update do to the recipient's rows
Register(u) ==
  user[u] = "absent" /\ user' = [user EXCEPT ![u] = "inactive"]
    /\ UNCHANGED recipient
StartMonitoring(u) ==     \* with request_selection
  user[u] # "marked" /\ user' = [user EXCEPT ![u] = "active"]
    /\ recipient' = [recipient EXCEPT ![u] = TRUE]
StopMonitoring(u) ==
  user[u] # "marked" /\ user' = [user EXCEPT ![u] = "inactive"]
    /\ UNCHANGED recipient
ConfirmDeletion(u) ==
  user[u] \in {"inactive", "active"}
    /\ user' = [user EXCEPT ![u] = "marked"] /\ UNCHANGED recipient

Handle(u) ==
  \/ Register(u) \/ StartMonitoring(u) \/ StopMonitoring(u)
  \/ ConfirmDeletion(u) \/ UNCHANGED <<user, recipient>>

\* one update, handled under the database mutex; the rows read before and after
\* it decide whether the generation is to be bumped
HandleUpdate(u) ==
  /\ poll = "updates" /\ ~stop /\ left > 0
  /\ left' = left - 1 /\ subject' = u
  /\ Handle(u)
  /\ deleting' = (user'[u] = "marked" /\ user[u] # "marked")
  /\ poll' = IF user'[u] # user[u] THEN "bump" ELSE "reply"
  /\ UNCHANGED <<recovery, processVars, batch, gate, unavailable, doomed, lost>>

\* the rest of the batch is given up
Abandon ==
  /\ poll = "updates" /\ ~stop /\ left > 0
  /\ poll' = "batchEnd" /\ left' = 0
  /\ UNCHANGED <<recovery, update, jobVars, mainVars, workVars, batch, gate,
                 unavailable>>

\* the read before handling fails: nothing is committed, and the error stops the
\* runtime only when the batch has been wound up
LoadFails ==
  /\ Abandon
  /\ doomed' = TRUE
  /\ UNCHANGED <<flags, user, recipient, lost>>

\* handling fails and stops the runtime at once; a start may have committed its
\* new state before request_selection failed, a command its new user before
\* history_ids did
HandlerFails(u) ==
  /\ Abandon /\ FailRuntime
  /\ user' \in {user} \cup
       CASE user[u] = "marked" -> {}
         [] user[u] = "absent" -> {[user EXCEPT ![u] = s] : s \in {"inactive", "active"}}
         [] OTHER -> {[user EXCEPT ![u] = "active"]}
  /\ UNCHANGED <<recipient, doomed, lost>>

\* the read after handling fails: what was handled is committed, but neither
\* announced to the waiting jobs nor flagged to the worker, and the runtime goes
\* on until the batch has been wound up
ReloadFails(u) ==
  /\ Abandon
  /\ Handle(u)
  /\ doomed' = TRUE /\ lost' = IF user'[u] # user[u] THEN u ELSE lost
  /\ UNCHANGED flags

\* mutant: waiting jobs are not looked at again
BumpNothing ==
  /\ poll = "bump"
  /\ poll' = IF deleting THEN "flag" ELSE "reply"
  /\ UNCHANGED <<recovery, update, batchVars, exceptPoll>>

BumpGeneration ==
  /\ poll = "bump"
  /\ checked' = [u \in Users |-> FALSE] /\ seen' = FALSE
  /\ poll' = IF deleting THEN "flag" ELSE "reply"
  /\ UNCHANGED <<durable, flags, workVars, update, batchVars, gate, job, later,
                 attempts, main, hand, running, todo, next>>

\* mutant: the send in flight is left to end by itself
RaiseNothing ==
  /\ poll = "flag" /\ poll' = "reply" /\ deleting' = FALSE
  /\ UNCHANGED <<recovery, batchVars, exceptPoll, subject>>

\* the deleteUserData operation raises the flag of a worker that has one
RaiseCancel ==
  /\ poll = "flag"
  /\ cancel' = [cancel EXCEPT ![subject] = IF @ = "none" THEN @ ELSE "set"]
  /\ poll' = "reply" /\ deleting' = FALSE
  /\ UNCHANGED <<durable, flags, jobVars, mainVars, batchVars, gate, worker,
                 result, todo, next, subject>>

\* send_operations: each message is sent, refused for good, or failed, which
\* gives the batch up; some failures stop the runtime when it is wound up
Reply ==
  /\ poll = "reply" /\ subject' = Nobody
  /\ unavailable' \in {unavailable, unavailable \cup {subject}}
  /\ \/ poll' = "updates" /\ UNCHANGED <<left, doomed>>
     \/ poll' = "batchEnd" /\ left' = 0 /\ doomed' \in BOOLEAN
  /\ UNCHANGED <<recovery, exceptPoll, deleting, lost>>

UpdatesDone ==
  /\ poll = "updates" /\ (stop \/ left = 0)
  /\ poll' = "batchEnd" /\ left' = 0
  /\ UNCHANGED <<recovery, update, exceptPoll, unavailable, doomed, lost>>

\* markers are recovered even when the batch failed, but not once stopping
BatchEnd ==
  /\ poll = "batchEnd"
  /\ IF stop THEN poll' = "unavailable" /\ UNCHANGED recovery
             ELSE poll' = "recover" /\ todo' = Marked /\ next' = "unavailable"
  /\ UNCHANGED <<update, batchVars, exceptPoll>>

\* a recipient no message can reach is deactivated under its gate, ...
DeactivateUnavailable(u) ==
  /\ poll = "unavailable" /\ u \in unavailable /\ gate[u] = "free"
  /\ unavailable' = unavailable \ {u}
  /\ Deactivate(u)
  /\ gate' = [gate EXCEPT ![u] = "poll"]
  /\ subject' = u /\ poll' = "deactivated"
  /\ UNCHANGED <<processVars, recovery, recipient, batch, deleting, left,
                 doomed, lost>>

\* mutant: the generation is not bumped
DeactivateSilently ==
  /\ poll = "deactivated"
  /\ gate' = [gate EXCEPT ![subject] = "free"]
  /\ subject' = Nobody /\ poll' = "unavailable"
  /\ UNCHANGED <<durable, processVars, recovery, batchVars, deleting>>

\* ... and the generation is bumped before the gate is let go
BumpDeactivated ==
  /\ poll = "deactivated"
  /\ checked' = [v \in Users |-> FALSE] /\ seen' = FALSE
  /\ gate' = [gate EXCEPT ![subject] = "free"]
  /\ subject' = Nobody /\ poll' = "unavailable"
  /\ UNCHANGED <<durable, flags, workVars, recovery, batchVars, deleting, job,
                 later, attempts, main, hand, running>>

\* an error of the batch that is terminal, or SQLite's, stops the runtime now
UnavailableDone ==
  /\ poll = "unavailable" /\ unavailable = {}
  /\ poll' = "top" /\ doomed' = FALSE
  /\ IF doomed THEN FailRuntime ELSE UNCHANGED flags
  /\ UNCHANGED <<durable, jobVars, mainVars, workVars, update, gate, todo,
                 next, left, unavailable, lost>>

\* the markers cannot be read
MarkersUnread ==
  /\ ~stop /\ FailRuntime
  /\ \/ poll = "top" /\ poll' = "stopped"
     \/ poll = "batchEnd" /\ poll' = "unavailable"
  /\ UNCHANGED <<durable, jobVars, mainVars, workVars, recovery, update,
                 batchVars, gate>>

\* delete_user_data fails: the other markers are left for the next process
DeletionFails ==
  /\ poll = "recover" /\ \E u \in todo : gate[u] = "free"
  /\ FailRuntime
  /\ poll' = IF next = "fetch" THEN "stopped" ELSE "unavailable"
  /\ todo' = {} /\ next' = "fetch"
  /\ UNCHANGED <<durable, jobVars, mainVars, workVars, update, batchVars, gate>>

DeactivationFails(u) ==
  /\ poll = "unavailable" /\ u \in unavailable /\ gate[u] = "free"
  /\ FailRuntime
  /\ unavailable' = unavailable \ {u}
  /\ UNCHANGED <<durable, jobVars, mainVars, workVars, recovery, update, gate,
                 poll, left, doomed, lost>>

\* a statement of the poll thread fails
PollStorageFails ==
  \/ MarkersUnread \/ DeletionFails \/ LoadFails
  \/ \E u \in Users : HandlerFails(u) \/ ReloadFails(u) \/ DeactivationFails(u)

-----------------------------------------------------------------------------
(* The scheduler on the main thread *)

BeginPass ==
  /\ main = "crawl" /\ ~stop
  /\ main' = "round"
  /\ job' = [u \in Users |-> IF Eligible(u) THEN "classify" ELSE "none"]
  /\ UNCHANGED <<exceptMain, later, attempts, checked, hand, seen, running>>

\* mutant: attempts are never counted
RequeueForever(u) ==
  CASE result[u] = "more" ->
         job' = [job EXCEPT ![u] = "listing"]
           /\ UNCHANGED <<later, attempts, checked>>
    [] result[u] = "retry" /\ ~stop ->
         later' = [later EXCEPT ![u] = TRUE]
           /\ UNCHANGED <<job, attempts, checked>>
    [] OTHER -> Drop(u)

\* what the receiver does with a worker's report
Requeue(u) ==
  CASE result[u] = "more" ->
         /\ job' = [job EXCEPT ![u] = "listing"]
         /\ attempts' = [attempts EXCEPT ![u] = 0]
         /\ UNCHANGED <<later, checked>>
    [] result[u] = "retry" /\ attempts[u] + 1 < MaxAttempts /\ ~stop ->
         /\ attempts' = [attempts EXCEPT ![u] = @ + 1]
         /\ later' = [later EXCEPT ![u] = TRUE]
         /\ UNCHANGED <<job, checked>>
    [] OTHER -> Drop(u)

Receive(u) ==
  /\ worker[u] = "reported"
  /\ worker' = [worker EXCEPT ![u] = "idle"]
  /\ result' = [result EXCEPT ![u] = "none"]
  /\ running' = running - 1
  /\ \/ main = "round" /\ Requeue(u)
     \/ main = "stopping" /\ Drop(u)     \* jobs.clear() follows at once
  /\ UNCHANGED <<durable, flags, pollVars, gate, main, hand, seen, cancel>>

\* mutant: the queue is not cleared
NoticeStopKeepsJobs ==
  /\ main = "round" /\ stop
  /\ main' = "stopping"
  /\ cancel' = [u \in Users |-> IF cancel[u] = "none" THEN "none" ELSE "set"]
  /\ UNCHANGED <<durable, flags, jobVars, pollVars, gate, hand, seen, running,
                 worker, result>>

NoticeStop ==
  /\ main = "round" /\ stop
  /\ main' = "stopping"
  /\ cancel' = [u \in Users |-> IF cancel[u] = "none" THEN "none" ELSE "set"]
  /\ job' = [u \in Users |-> IF Queued(u) THEN "none" ELSE job[u]]
  /\ later' = [u \in Users |-> FALSE]
  /\ attempts' = [u \in Users |-> 0]
  /\ checked' = [u \in Users |-> FALSE]
  /\ UNCHANGED <<durable, flags, pollVars, gate, hand, seen, running, worker,
                 result>>

\* a job popped from the queue whose recipient's gate is taken next; a waiting
\* one is looked at only when the generation moved, and the generation is
\* loaded before the gate is taken
Pick(u) ==
  /\ main = "round" /\ Queued(u) /\ running < MaxWorkers
  /\ hand' = u
  /\ \/ later[u] /\ ~checked[u] /\ main' = "check" /\ seen' = TRUE
     \/ ~later[u] /\ job[u] = "classify" /\ main' = "classify"
        /\ UNCHANGED seen
  /\ UNCHANGED <<jobVars, exceptMain, running>>

CheckWaiting ==
  /\ main = "check" /\ gate[hand] = "free"
  /\ main' = "round" /\ hand' = Nobody /\ seen' = FALSE
  /\ IF Eligible(hand)
     THEN /\ checked' = [checked EXCEPT ![hand] = seen]
          /\ UNCHANGED <<job, later, attempts>>
     ELSE Drop(hand)
  /\ UNCHANGED <<exceptMain, running>>

\* private::classify prepares the batch rows; an empty batch retires the job
Classify ==
  /\ main = "classify" /\ gate[hand] = "free"
  /\ main' = "round" /\ hand' = Nobody
  /\ IF Eligible(hand)
     THEN /\ recipient' = [recipient EXCEPT ![hand] = TRUE]
          /\ \E n \in 0..MaxBatch, phase \in {"announce", "listing"} :
               /\ batch' = [batch EXCEPT ![hand] = n]
               /\ job' = [job EXCEPT ![hand] = IF n = 0 THEN "none" ELSE phase]
     ELSE /\ job' = [job EXCEPT ![hand] = "none"]
          /\ UNCHANGED <<recipient, batch>>
  /\ UNCHANGED <<flags, workVars, pollVars, user, gate, later, attempts,
                 checked, seen, running>>

MainStorageFails ==
  /\ main \in {"classify", "check"} /\ gate[hand] = "free"
  /\ FailRuntime
  /\ Drop(hand)
  /\ main' = "round" /\ hand' = Nobody /\ seen' = FALSE
  /\ UNCHANGED <<durable, workVars, pollVars, gate, running>>

\* mutant: one worker too many
StartableOneMore(u) ==
  /\ main = "round" /\ Queued(u) /\ job[u] # "classify" /\ ~later[u]
  /\ running <= MaxWorkers

\* a message job that may be started now
Startable(u) ==
  /\ main = "round" /\ Queued(u) /\ job[u] # "classify" /\ ~later[u]
  /\ running < MaxWorkers

\* no token: the first attempt of a message waits; a retry has paid already
Throttle(u) ==
  /\ Startable(u) /\ attempts[u] = 0
  /\ later' = [later EXCEPT ![u] = TRUE]
  /\ UNCHANGED <<mainVars, exceptMain, job, attempts, checked>>

Due(u) ==
  /\ later[u]
  /\ later' = [later EXCEPT ![u] = FALSE]
  /\ UNCHANGED <<mainVars, exceptMain, job, attempts, checked>>

Spawn(u) ==
  /\ Startable(u)
  /\ running' = running + 1
  /\ cancel' = [cancel EXCEPT ![u] = "clear"]
  /\ worker' = [worker EXCEPT ![u] = "spawned"]
  /\ UNCHANGED <<durable, flags, jobVars, pollVars, gate, main, hand, seen,
                 result>>

\* mutant: the pass does not wait for its workers
PassEndEarly ==
  /\ main \in {"round", "stopping"}
  /\ \A u \in Users : ~Queued(u)
  /\ main' = "crawl"
  /\ batch' = IF fatal THEN batch ELSE [u \in Users |-> 0]
  /\ UNCHANGED <<flags, jobVars, workVars, pollVars, user, recipient, gate,
                 hand, seen, running>>

\* the loop ends with nothing queued and nothing running; the temp table is
\* cleared unless the runtime failed
PassEnd ==
  /\ main \in {"round", "stopping"} /\ running = 0
  /\ \A u \in Users : ~Queued(u)
  /\ main' = "crawl"
  /\ batch' = IF fatal THEN batch ELSE [u \in Users |-> 0]
  /\ UNCHANGED <<flags, jobVars, workVars, pollVars, user, recipient, gate,
                 hand, seen, running>>

MainStops ==
  /\ main = "crawl" /\ stop
  /\ main' = "stopped"
  /\ UNCHANGED <<jobVars, exceptMain, hand, seen, running>>

-----------------------------------------------------------------------------
(* A send worker: it holds the gate from the read to the acknowledgement *)

WorkerBegin(u) ==
  /\ worker[u] = "spawned" /\ gate[u] = "free"
  /\ IF Eligible(u) /\ (job[u] = "announce" \/ batch[u] > 0)
     THEN /\ worker' = [worker EXCEPT ![u] = "sending"]
          /\ gate' = [gate EXCEPT ![u] = "worker"]
          /\ UNCHANGED result
     ELSE /\ worker' = [worker EXCEPT ![u] = "retiring"]
          /\ result' = [result EXCEPT ![u] = "retire"]
          /\ UNCHANGED gate
  /\ UNCHANGED <<durable, exceptWork, cancel>>

\* the closure returns r: the gate's guard is dropped
Return(u, r) ==
  /\ worker' = [worker EXCEPT ![u] = "retiring"]
  /\ result' = [result EXCEPT ![u] = r]
  /\ gate' = [gate EXCEPT ![u] = "free"]

\* Telegram accepted the message; an announcement has nothing to acknowledge
SendAccepted(u) ==
  /\ worker[u] = "sending"
  /\ IF fatal \/ job[u] = "announce"
     THEN Return(u, IF fatal THEN "fail" ELSE "more")
     ELSE worker' = [worker EXCEPT ![u] = "accepted"]
          /\ UNCHANGED <<result, gate>>
  /\ UNCHANGED <<durable, exceptWork, cancel>>

\* the call failed: cancelled, refused for good, or worth reporting
SendFailed(u) ==
  /\ worker[u] = "sending"
  /\ \/ cancel[u] = "set" /\ Return(u, "retire") /\ UNCHANGED user
     \/ cancel[u] = "clear" /\ Return(u, "retire") /\ Deactivate(u)
     \/ cancel[u] = "clear" /\ UNCHANGED user
        /\ \E r \in {"retry", "fail"} : Return(u, r)
  /\ UNCHANGED <<exceptWork, recipient, batch, cancel>>

\* acknowledge_batch_item (ensure_recipient, decision, work, batch row), unless
\* the user is gone or marked, or the runtime failed
Acknowledge(u) ==
  /\ worker[u] = "accepted"
  /\ IF ~AwaitsAck(u) \/ fatal
     THEN /\ Return(u, IF AwaitsAck(u) THEN "fail" ELSE "retire")
          /\ UNCHANGED <<recipient, batch>>
     ELSE /\ recipient' = [recipient EXCEPT ![u] = TRUE]
          /\ batch' = [batch EXCEPT ![u] = @ - 1]
          /\ Return(u, IF batch[u] > 1 THEN "more" ELSE "retire")
  /\ UNCHANGED <<exceptWork, user, cancel>>

\* a statement of the worker fails: reading, deactivating or acknowledging
WorkerStorageFails(u) ==
  /\ \/ worker[u] = "spawned" /\ gate[u] = "free"
     \/ worker[u] = "sending" /\ cancel[u] = "clear"
     \/ worker[u] = "accepted"
  /\ Return(u, "fail")
  /\ FailRuntime \/ (stop /\ UNCHANGED flags)
  /\ UNCHANGED <<durable, jobVars, mainVars, pollVars, cancel>>

\* the flag leaves the map and the report enters the channel
Report(u) ==
  /\ worker[u] = "retiring"
  /\ worker' = [worker EXCEPT ![u] = "reported"]
  /\ cancel' = [cancel EXCEPT ![u] = "none"]
  /\ UNCHANGED <<durable, exceptWork, gate, result>>

-----------------------------------------------------------------------------
(* The process *)

Signal ==
  /\ main # "down" /\ ~stop /\ stop' = TRUE
  /\ UNCHANGED <<durable, jobVars, mainVars, workVars, pollVars, gate, fatal>>

\* a crash at any point, or the end of a stopped process: SQLite keeps what was
\* committed and the temp table is gone
Crash ==
  /\ main # "down"
  /\ batch' = [u \in Users |-> 0]
  /\ gate' = [u \in Users |-> "free"]
  /\ cancel' = [u \in Users |-> "none"]
  /\ checked' = [u \in Users |-> FALSE]
  /\ stop' = FALSE /\ fatal' = FALSE
  /\ main' = "down" /\ hand' = Nobody /\ seen' = FALSE /\ running' = 0
  /\ job' = [u \in Users |-> "none"]
  /\ later' = [u \in Users |-> FALSE]
  /\ attempts' = [u \in Users |-> 0]
  /\ worker' = [u \in Users |-> "idle"]
  /\ result' = [u \in Users |-> "none"]
  /\ poll' = "down" /\ todo' = {} /\ next' = "fetch"
  /\ subject' = Nobody /\ deleting' = FALSE
  /\ left' = 0 /\ unavailable' = {} /\ doomed' = FALSE /\ lost' = Nobody
  /\ UNCHANGED <<user, recipient>>

Restart ==
  /\ main = "down" /\ poll = "down" /\ main' = "crawl" /\ poll' = "top"
  /\ UNCHANGED <<durable, gate, flags, jobVars, workVars, hand, seen, running,
                 recovery, update, batchVars>>

PollStep ==
  \/ PollTop \/ SendReceipt \/ RecoverDone \/ GetUpdates \/ BumpGeneration
  \/ RaiseCancel \/ Reply \/ UpdatesDone \/ BatchEnd \/ UnavailableDone
  \/ BumpDeactivated \/ PollStorageFails
  \/ \E u \in Users :
       CompleteDeletion(u) \/ HandleUpdate(u) \/ DeactivateUnavailable(u)

MainStep ==
  \/ BeginPass \/ NoticeStop \/ CheckWaiting \/ Classify \/ MainStorageFails
  \/ PassEnd \/ MainStops
  \/ \E u \in Users : Receive(u) \/ Pick(u) \/ Throttle(u) \/ Spawn(u)

WorkerStep(u) ==
  \/ WorkerBegin(u) \/ SendAccepted(u) \/ SendFailed(u) \/ Acknowledge(u)
  \/ WorkerStorageFails(u) \/ Report(u)

Next ==
  \/ PollStep \/ MainStep
  \/ \E u \in Users : WorkerStep(u) \/ Due(u)
  \/ Signal \/ Crash \/ Restart

Spec == Init /\ [][Next]_vars

(***************************************************************************)
(* Fairness.  Every thread keeps running: network calls end (they have     *)
(* timeouts), a mutex that stays free is taken.  Strong fairness where the *)
(* code comes back: the queue is rotated, so a job that can be taken again *)
(* and again is taken, and a released gate wakes the waiting thread long   *)
(* before another update can make the poll thread take it again.           *)
(* Nothing obliges users, Telegram or operators.                           *)
(***************************************************************************)
Fairness ==
  /\ WF_vars(PollStep) /\ WF_vars(MainStep)
  /\ SF_vars(CheckWaiting) /\ SF_vars(Classify)
  /\ \A u \in Users :
       /\ WF_vars(WorkerStep(u)) /\ SF_vars(WorkerBegin(u))
       /\ SF_vars(Receive(u)) /\ SF_vars(Pick(u)) /\ SF_vars(Spawn(u))

\* In the end a process stays up; rate and retry waits need not run out.
FairSpec == Spec /\ Fairness /\ <>[](main # "down")

-----------------------------------------------------------------------------
(* Safety *)

\* A deleted recipient leaves no private rows behind, whatever worker, pass or
\* reply was under way when delete_user_data ran (acknowledge_batch_item and
\* classify would create the recipient again).
DeletedLeavesNothing ==
  \A u \in Users : user[u] = "absent" => ~recipient[u] /\ batch[u] = 0

\* A worker acknowledges into the registration it read from: it holds the gate,
\* and the user is not deleted (nor registered anew) before it lets go.
AcknowledgesWhatItRead ==
  \A u \in Users : worker[u] \in {"sending", "accepted"} =>
    user[u] # "absent" /\ gate[u] = "worker"

\* When the poll thread comes to delete a recipient, a send still under way for
\* that recipient has its cancellation flag raised: the deletion drains the
\* recipient's work and does not sit out its network waits.  The code keeps this
\* but for one case: the row could not be read back after the confirmation was
\* committed, an error that stops the runtime once the batch is wound up.
DeletionCancelsSends ==
  \A u \in Users :
    poll = "recover" /\ u \in todo /\ worker[u] = "sending" =>
      cancel[u] = "set" \/ (u = lost /\ doomed)

\* A listing in flight has its row in the temp table until it is acknowledged:
\* neither classify, nor clear_batches, nor a deletion runs under it.
ItemInFlightHasRow ==
  \A u \in Users :
    worker[u] \in {"sending", "accepted"} /\ job[u] = "listing" => batch[u] > 0

\* At most eight sends at a time, and a pass (and with it the process) ends
\* only when every worker has been received.
WorkersCounted ==
  LET live == {u \in Users : worker[u] # "idle"}
  IN /\ Cardinality(live) = running /\ running <= MaxWorkers
     /\ main \in {"crawl", "stopped", "down"} => live = {}

\* A waiting job counts as checked only while its recipient is eligible, up to
\* the moment between a state change and the bump that announces it; a change
\* whose read-back failed is not announced, and the runtime is failing then.
CheckedMeansEligible ==
  \A u \in Users :
    Queued(u) /\ checked[u] =>
      \/ Eligible(u)
      \/ poll \in {"bump", "deactivated"} /\ subject = u
      \/ u = lost /\ (doomed \/ fatal)

\* Shutdown drains accepted acknowledgements: while the process lives, a listing
\* Telegram accepted stays unacknowledged only if its user is being deleted or
\* storage failed; a stop or a raised cancellation flag is no reason.
AcceptedIsAcknowledged ==
  [][\A u \in Users :
       worker[u] = "accepted" /\ worker'[u] = "retiring" =>
         batch'[u] = batch[u] - 1 \/ user[u] = "marked" \/ result'[u] = "fail"]_vars

-----------------------------------------------------------------------------
(* Liveness *)

\* A confirmed deletion is completed unless the process is told to stop.
MarkedIsDeleted ==
  \A u \in Users : user[u] = "marked" ~> user[u] = "absent" \/ stop

\* SIGTERM or a fatal error brings both threads to their end.
StopTerminates ==
  stop ~> (main = "stopped" /\ poll = "stopped") \/ ~stop

\* A job whose recipient stopped or was deleted does not hold the pass open for
\* its rate or retry wait: the scheduler finds it without the wait running out.
IneligibleJobDropped ==
  \A u \in Users :
    Queued(u) /\ later[u] /\ ~Eligible(u) ~>
      ~(Queued(u) /\ later[u]) \/ Eligible(u)

\* Every pass ends if rate and retry waits run out, so the next crawl is reached.
PassEnds ==
  (\A u \in Users : WF_vars(Due(u))) =>
    (main = "round" ~> main \in {"crawl", "down"})
=============================================================================
