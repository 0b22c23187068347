--------------------------- MODULE DeliveryProofs ---------------------------
(***************************************************************************)
(* Deletion, acknowledgement and shutdown in Delivery, proved for any set  *)
(* of recipients and any bounds.                                           *)
(***************************************************************************)
EXTENDS Delivery, FiniteSetTheorems, TLAPS

Live == {u \in Users : worker[u] # "idle"}

\* The gate belongs to whoever is between its lock() and the end of the guard's
\* scope: a worker from its read to its return, the poll thread from the
\* deletion to the receipt and from a deactivation to its bump.
GateOwned ==
  \A u \in Users :
    /\ gate[u] = "worker" <=> worker[u] \in {"sending", "accepted"}
    /\ gate[u] = "poll" <=> poll \in {"receipt", "deactivated"} /\ subject = u

\* Only marked recipients are worked off, and only while recovering.
TodoMarked ==
  /\ \A u \in todo : user[u] = "marked"
  /\ poll \notin {"recover", "receipt"} => todo = {}

\* A job outside the queue is a message job in its worker's hands.
JobsPlaced ==
  \A u \in Users :
    /\ worker[u] # "idle" => job[u] \in {"announce", "listing"}
    /\ worker[u] = "accepted" => job[u] = "listing"
    /\ main \in {"classify", "check"} /\ hand = u => Queued(u)
    /\ main = "classify" /\ hand = u => job[u] = "classify"
    /\ main \in {"crawl", "stopped", "down"} => job[u] = "none"

\* A committed change that could not be read back leaves the poll thread no way
\* on but to wind the batch up and stop the runtime.
LostStops ==
  lost # Nobody =>
    \/ doomed /\ poll \in {"batchEnd", "unavailable", "deactivated"}
    \/ doomed /\ poll \in {"recover", "receipt"} /\ next = "unavailable"
    \/ stop /\ fatal /\ poll \in {"top", "stopped"}

\* The flag is in the map from the spawn to the report, and a marked recipient's
\* send has it raised as soon as the handler of the confirmation has run.
FlagsRaised ==
  /\ \A u \in Users :
       /\ cancel[u] = "none" <=> worker[u] \in {"idle", "reported"}
       /\ worker[u] = "sending" /\ user[u] = "marked" =>
            \/ cancel[u] = "set"
            \/ poll \in {"bump", "flag"} /\ subject = u /\ deleting
            \/ u = lost
  /\ deleting => poll \in {"bump", "flag"}

\* Unless its worker is about to retire it, a job checked in the current
\* generation belongs to an eligible recipient, or the bump is due, or it has
\* been missed.
ChecksFresh ==
  \A u \in Users : checked[u] =>
    \/ Eligible(u)
    \/ poll \in {"bump", "deactivated"} /\ subject = u
    \/ worker[u] \in {"retiring", "reported"} /\ result[u] = "retire"
    \/ u = lost

\* running counts the workers that were spawned and not yet received.
Counted ==
  /\ IsFiniteSet(Live) /\ Cardinality(Live) = running
  /\ running <= MaxWorkers
  /\ main \in {"crawl", "stopped", "down"} => Live = {}

IInv ==
  /\ TypeOK /\ GateOwned /\ TodoMarked /\ JobsPlaced /\ LostStops
  /\ FlagsRaised /\ ChecksFresh /\ Counted
  /\ DeletedLeavesNothing /\ AcknowledgesWhatItRead /\ ItemInFlightHasRow

USE UsersAssumption, BoundsAssumption
  DEF durable, flags, jobVars, mainVars, workVars, recovery, update, batchVars,
      pollVars, exceptPoll, exceptMain, exceptWork, processVars

\* When no worker is counted, none is anywhere.
LEMMA AllIdle ==
  ASSUME IInv, running = 0
  PROVE  \A u \in Users : worker[u] = "idle"
  BY FS_EmptySet DEF IInv, Counted, Live

\* The initial states satisfy the inductive invariant.
LEMMA InitIInv == Init => IInv
<1> SUFFICES ASSUME Init PROVE IInv
  OBVIOUS
<1>1. Live = {}
  BY DEF Init, Live
<1>2. Counted
  BY <1>1, FS_EmptySet DEF Init, Counted
<1>3. TypeOK
  <2>1. RowsOK /\ JobsOK
    BY DEF Init, RowsOK, JobsOK
  <2>2. WorkersOK /\ PollOK
    BY DEF Init, WorkersOK, PollOK
  <2>3. CountersOK
    BY DEF Init, CountersOK
  <2> QED
    BY <2>1, <2>2, <2>3 DEF TypeOK
<1>4. GateOwned /\ TodoMarked
  BY DEF Init, GateOwned, TodoMarked
<1>5. JobsPlaced /\ LostStops /\ FlagsRaised /\ ChecksFresh
  BY DEF Init, JobsPlaced, LostStops, FlagsRaised, ChecksFresh, Queued
<1>6. DeletedLeavesNothing /\ AcknowledgesWhatItRead /\ ItemInFlightHasRow
  BY DEF Init, DeletedLeavesNothing, AcknowledgesWhatItRead,
    ItemInFlightHasRow
<1> QED
  BY <1>2, <1>3, <1>4, <1>5, <1>6
  DEF IInv

-----------------------------------------------------------------------------
(* Each part of the invariant is kept by every step *)

\* The rows, gates and flags stay in their types.
LEMMA RowsOKStep == IInv /\ Next => RowsOK'
<1> SUFFICES ASSUME IInv, Next PROVE RowsOK'
  OBVIOUS
<1> USE DEF IInv, TypeOK
<1>1. ASSUME NEW u \in Users, CompleteDeletion(u) PROVE RowsOK'
  BY <1>1 DEF CompleteDeletion, RowsOK, JobsOK, PollOK
<1>2. CASE SendReceipt
  BY <1>2 DEF SendReceipt, RowsOK, JobsOK, PollOK
<1>3. CASE GetUpdates
  BY <1>3 DEF GetUpdates, FailRuntime, RowsOK, JobsOK, PollOK
<1>4. ASSUME NEW u \in Users, HandleUpdate(u) PROVE RowsOK'
  BY <1>4 DEF HandleUpdate, Handle, Register, StartMonitoring, StopMonitoring,
    ConfirmDeletion, RowsOK, JobsOK, PollOK
<1>5. ASSUME NEW u \in Users, DeactivateUnavailable(u) PROVE RowsOK'
  BY <1>5 DEF DeactivateUnavailable, Deactivate, RowsOK, JobsOK, PollOK
<1>6. CASE UnavailableDone
  BY <1>6 DEF UnavailableDone, FailRuntime, RowsOK, JobsOK, PollOK
<1>7. CASE PollStorageFails
  <2>1. CASE MarkersUnread
    BY <2>1 DEF MarkersUnread, FailRuntime, RowsOK, JobsOK, PollOK
  <2>2. CASE DeletionFails
    BY <2>2 DEF DeletionFails, FailRuntime, RowsOK, JobsOK, PollOK
  <2>3. CASE LoadFails
    BY <2>3 DEF LoadFails, Abandon, FailRuntime, RowsOK, JobsOK, PollOK
  <2>4. ASSUME NEW u \in Users, HandlerFails(u) PROVE RowsOK'
    BY <2>4 DEF HandlerFails, Abandon, FailRuntime, RowsOK, JobsOK, PollOK
  <2>5. ASSUME NEW u \in Users, ReloadFails(u) PROVE RowsOK'
    BY <2>5 DEF ReloadFails, Abandon, Handle, Register, StartMonitoring,
      StopMonitoring, ConfirmDeletion, FailRuntime, RowsOK, JobsOK, PollOK
  <2>6. ASSUME NEW u \in Users, DeactivationFails(u) PROVE RowsOK'
    BY <2>6 DEF DeactivationFails, FailRuntime, RowsOK, JobsOK, PollOK
  <2> QED
    BY <1>7, <2>1, <2>2, <2>3, <2>4, <2>5, <2>6 DEF PollStorageFails
<1>8. CASE Classify
  BY <1>8 DEF Classify, Eligible, RowsOK, JobsOK, PollOK
<1>9. CASE MainStorageFails
  BY <1>9 DEF MainStorageFails, FailRuntime, Drop, RowsOK, JobsOK, PollOK
<1>10. ASSUME NEW u \in Users, WorkerBegin(u) PROVE RowsOK'
  BY <1>10 DEF WorkerBegin, Eligible, RowsOK, JobsOK, PollOK
<1>11. ASSUME NEW u \in Users, SendAccepted(u) PROVE RowsOK'
  BY <1>11 DEF SendAccepted, Return, RowsOK, JobsOK, PollOK
<1>12. ASSUME NEW u \in Users, SendFailed(u) PROVE RowsOK'
  BY <1>12 DEF SendFailed, Deactivate, Return, RowsOK, JobsOK, PollOK
<1>13. ASSUME NEW u \in Users, Acknowledge(u) PROVE RowsOK'
  BY <1>13 DEF Acknowledge, Return, AwaitsAck, RowsOK, JobsOK, PollOK
<1>14. ASSUME NEW u \in Users, WorkerStorageFails(u) PROVE RowsOK'
  BY <1>14 DEF WorkerStorageFails, FailRuntime, Return, RowsOK, JobsOK, PollOK
<1>15. CASE Signal
  BY <1>15 DEF Signal, RowsOK, JobsOK, PollOK
<1>16. CASE Crash \/ Restart
  <2>1. CASE Crash
    BY <2>1 DEF Crash, RowsOK, JobsOK, PollOK
  <2>2. CASE Restart
    BY <2>2 DEF Restart, RowsOK, JobsOK, PollOK
  <2> QED
    BY <1>16, <2>1, <2>2
<1>17. CASE BumpDeactivated
  BY <1>17 DEF BumpDeactivated, RowsOK, JobsOK, PollOK
<1>18. CASE UNCHANGED <<user, recipient, gate, stop, fatal>>
  BY <1>18 DEF RowsOK
<1> QED
  BY <1>1, <1>2, <1>3, <1>4, <1>5, <1>6, <1>7, <1>8, <1>9, <1>10, <1>11, <1>12,
    <1>13, <1>14, <1>15, <1>16, <1>17, <1>18
  DEF Next, PollStep, BumpDeactivated, MainStep, WorkerStep, PollTop,
    RecoverDone,
      BumpGeneration, RaiseCancel, Reply, UpdatesDone, BatchEnd, BeginPass,
      Receive, NoticeStop, Pick, CheckWaiting, Throttle, Due, Spawn, PassEnd,
      MainStops, Report, Drop, Eligible, Marked, Queued, Requeue, Startable

\* The scheduler's own state stays in its type.
LEMMA JobsOKStep == IInv /\ Next => JobsOK'
<1> SUFFICES ASSUME IInv, Next PROVE JobsOK'
  OBVIOUS
<1> USE DEF IInv, TypeOK
<1>1. CASE BumpGeneration
  BY <1>1 DEF BumpGeneration, JobsOK
<1>2. ASSUME NEW u \in Users, DeactivateUnavailable(u) PROVE JobsOK'
  BY <1>2 DEF DeactivateUnavailable, Deactivate, JobsOK
<1>3. CASE BeginPass
  BY <1>3 DEF BeginPass, Eligible, JobsOK
<1>4. ASSUME NEW u \in Users, Receive(u) PROVE JobsOK'
  BY <1>4 DEF Receive, Drop, Requeue, JobsOK
<1>5. CASE NoticeStop
  BY <1>5 DEF NoticeStop, Queued, JobsOK
<1>6. ASSUME NEW u \in Users, Pick(u) PROVE JobsOK'
  BY <1>6 DEF Pick, Queued, JobsOK
<1>7. CASE CheckWaiting
  BY <1>7 DEF CheckWaiting, Eligible, Drop, JobsOK
<1>8. CASE Classify
  BY <1>8 DEF Classify, Eligible, JobsOK
<1>9. CASE MainStorageFails
  BY <1>9 DEF MainStorageFails, FailRuntime, Drop, JobsOK
<1>10. ASSUME NEW u \in Users, Throttle(u) PROVE JobsOK'
  BY <1>10 DEF Throttle, Startable, Queued, JobsOK
<1>11. ASSUME NEW u \in Users, Due(u) PROVE JobsOK'
  BY <1>11 DEF Due, JobsOK
<1>12. CASE PassEnd
  BY <1>12 DEF PassEnd, Queued, JobsOK
<1>13. CASE MainStops
  BY <1>13 DEF MainStops, JobsOK
<1>14. CASE Crash \/ Restart
  <2>1. CASE Crash
    BY <2>1 DEF Crash, JobsOK
  <2>2. CASE Restart
    BY <2>2 DEF Restart, JobsOK
  <2> QED
    BY <1>14, <2>1, <2>2
<1>15. CASE BumpDeactivated
  BY <1>15 DEF BumpDeactivated, JobsOK
<1>16. CASE UNCHANGED <<main, hand, seen, job, later, checked>>
  BY <1>16 DEF JobsOK
<1> QED
  BY <1>1, <1>2, <1>3, <1>4, <1>5, <1>6, <1>7, <1>8, <1>9, <1>10, <1>11, <1>12,
    <1>13, <1>14, <1>15, <1>16
  DEF Next, PollStep, BumpDeactivated, MainStep, WorkerStep, PollTop,
    CompleteDeletion,
      SendReceipt, RecoverDone, GetUpdates, HandleUpdate, RaiseCancel, Reply,
      UpdatesDone, BatchEnd, UnavailableDone, PollStorageFails, MarkersUnread,
        DeletionFails, LoadFails, HandlerFails, ReloadFails,
        DeactivationFails, Abandon, Spawn,
      WorkerBegin, SendAccepted, SendFailed, Acknowledge, WorkerStorageFails,
      Report, Signal, AwaitsAck, ConfirmDeletion, Deactivate, Eligible,
      FailRuntime, Marked, Queued, Register, Return, StartMonitoring,
      Startable, StopMonitoring

\* The workers' state stays in its type.
LEMMA WorkersOKStep == IInv /\ Next => WorkersOK'
<1> SUFFICES ASSUME IInv, Next PROVE WorkersOK'
  OBVIOUS
<1> USE DEF IInv, TypeOK
<1>1. CASE RaiseCancel
  BY <1>1 DEF RaiseCancel, WorkersOK
<1>2. ASSUME NEW u \in Users, Receive(u) PROVE WorkersOK'
  BY <1>2 DEF Receive, Drop, Requeue, WorkersOK
<1>3. CASE NoticeStop
  BY <1>3 DEF NoticeStop, Queued, WorkersOK
<1>4. ASSUME NEW u \in Users, Spawn(u) PROVE WorkersOK'
  BY <1>4 DEF Spawn, Startable, Queued, WorkersOK
<1>5. ASSUME NEW u \in Users, WorkerBegin(u) PROVE WorkersOK'
  BY <1>5 DEF WorkerBegin, Eligible, WorkersOK
<1>6. ASSUME NEW u \in Users, SendAccepted(u) PROVE WorkersOK'
  BY <1>6 DEF SendAccepted, Return, WorkersOK
<1>7. ASSUME NEW u \in Users, SendFailed(u) PROVE WorkersOK'
  BY <1>7 DEF SendFailed, Deactivate, Return, WorkersOK
<1>8. ASSUME NEW u \in Users, Acknowledge(u) PROVE WorkersOK'
  BY <1>8 DEF Acknowledge, Return, AwaitsAck, WorkersOK
<1>9. ASSUME NEW u \in Users, WorkerStorageFails(u) PROVE WorkersOK'
  BY <1>9 DEF WorkerStorageFails, FailRuntime, Return, WorkersOK
<1>10. ASSUME NEW u \in Users, Report(u) PROVE WorkersOK'
  BY <1>10 DEF Report, WorkersOK
<1>11. CASE Crash \/ Restart
  <2>1. CASE Crash
    BY <2>1 DEF Crash, WorkersOK
  <2>2. CASE Restart
    BY <2>2 DEF Restart, WorkersOK
  <2> QED
    BY <1>11, <2>1, <2>2
<1>12. CASE UNCHANGED <<worker, result, cancel>>
  BY <1>12 DEF WorkersOK
<1> QED
  BY <1>1, <1>2, <1>3, <1>4, <1>5, <1>6, <1>7, <1>8, <1>9, <1>10, <1>11, <1>12
  DEF Next, PollStep, BumpDeactivated, MainStep, WorkerStep, PollTop,
    CompleteDeletion,
      SendReceipt, RecoverDone, GetUpdates, HandleUpdate, BumpGeneration,
      Reply, UpdatesDone, BatchEnd, DeactivateUnavailable, UnavailableDone,
      PollStorageFails, MarkersUnread, DeletionFails, LoadFails, HandlerFails,
        ReloadFails, DeactivationFails, Abandon, BeginPass, Pick,
        CheckWaiting, Classify,
      MainStorageFails, Throttle, Due, PassEnd, MainStops, Signal,
      ConfirmDeletion, Deactivate, Drop, Eligible, FailRuntime, Marked,
      Queued, Register, StartMonitoring, Startable, StopMonitoring

\* The poll thread's state stays in its type.
LEMMA PollOKStep == IInv /\ Next => PollOK'
<1> SUFFICES ASSUME IInv, Next PROVE PollOK'
  OBVIOUS
<1> USE DEF IInv, TypeOK
<1>1. CASE PollTop
  BY <1>1 DEF PollTop, Marked, PollOK, RowsOK
<1>2. ASSUME NEW u \in Users, CompleteDeletion(u) PROVE PollOK'
  BY <1>2 DEF CompleteDeletion, PollOK, RowsOK
<1>3. CASE SendReceipt
  BY <1>3 DEF SendReceipt, PollOK, RowsOK
<1>4. CASE RecoverDone
  BY <1>4 DEF RecoverDone, PollOK, RowsOK
<1>5. CASE GetUpdates
  BY <1>5 DEF GetUpdates, FailRuntime, PollOK, RowsOK
<1>6. ASSUME NEW u \in Users, HandleUpdate(u) PROVE PollOK'
  BY <1>6 DEF HandleUpdate, Handle, Register, StartMonitoring, StopMonitoring,
    ConfirmDeletion, PollOK, RowsOK
<1>7. CASE BumpGeneration
  BY <1>7 DEF BumpGeneration, PollOK, RowsOK
<1>8. CASE RaiseCancel
  BY <1>8 DEF RaiseCancel, PollOK, RowsOK
<1>9. CASE Reply
  BY <1>9 DEF Reply, PollOK, RowsOK
<1>10. CASE UpdatesDone
  BY <1>10 DEF UpdatesDone, PollOK, RowsOK
<1>11. CASE BatchEnd
  BY <1>11 DEF BatchEnd, Marked, PollOK, RowsOK
<1>12. ASSUME NEW u \in Users, DeactivateUnavailable(u) PROVE PollOK'
  BY <1>12 DEF DeactivateUnavailable, Deactivate, PollOK, RowsOK
<1>13. CASE UnavailableDone
  BY <1>13 DEF UnavailableDone, FailRuntime, PollOK, RowsOK
<1>14. CASE PollStorageFails
  <2>1. CASE MarkersUnread
    BY <2>1 DEF MarkersUnread, FailRuntime, PollOK, RowsOK
  <2>2. CASE DeletionFails
    BY <2>2 DEF DeletionFails, FailRuntime, PollOK, RowsOK
  <2>3. CASE LoadFails
    BY <2>3 DEF LoadFails, Abandon, FailRuntime, PollOK, RowsOK
  <2>4. ASSUME NEW u \in Users, HandlerFails(u) PROVE PollOK'
    BY <2>4 DEF HandlerFails, Abandon, FailRuntime, PollOK, RowsOK
  <2>5. ASSUME NEW u \in Users, ReloadFails(u) PROVE PollOK'
    BY <2>5 DEF ReloadFails, Abandon, Handle, Register, StartMonitoring,
      StopMonitoring, ConfirmDeletion, FailRuntime, PollOK, RowsOK
  <2>6. ASSUME NEW u \in Users, DeactivationFails(u) PROVE PollOK'
    BY <2>6 DEF DeactivationFails, FailRuntime, PollOK, RowsOK
  <2> QED
    BY <1>14, <2>1, <2>2, <2>3, <2>4, <2>5, <2>6 DEF PollStorageFails
<1>15. CASE Crash \/ Restart
  <2>1. CASE Crash
    BY <2>1 DEF Crash, PollOK, RowsOK
  <2>2. CASE Restart
    BY <2>2 DEF Restart, PollOK, RowsOK
  <2> QED
    BY <1>15, <2>1, <2>2
<1>16. CASE BumpDeactivated
  BY <1>16 DEF BumpDeactivated, PollOK, RowsOK
<1>17. CASE UNCHANGED <<poll, todo, next, subject, deleting, unavailable,
  doomed, lost>>
  BY <1>17 DEF PollOK
<1> QED
  BY <1>1, <1>2, <1>3, <1>4, <1>5, <1>6, <1>7, <1>8, <1>9, <1>10, <1>11, <1>12,
    <1>13, <1>14, <1>15, <1>16, <1>17
  DEF Next, PollStep, BumpDeactivated, MainStep, WorkerStep, BeginPass,
    Receive, NoticeStop,
      Pick, CheckWaiting, Classify, MainStorageFails, Throttle, Due, Spawn,
      PassEnd, MainStops, WorkerBegin, SendAccepted, SendFailed, Acknowledge,
      WorkerStorageFails, Report, Signal, AwaitsAck, Deactivate, Drop,
      Eligible, FailRuntime, Queued, Requeue, Return, Startable

\* No count leaves its range: an acknowledged item was a row of the batch.
LEMMA CountersOKStep == IInv /\ Next => CountersOK'
<1> SUFFICES ASSUME IInv, Next PROVE CountersOK'
  OBVIOUS
<1> USE DEF IInv, TypeOK
<1>1. ASSUME NEW u \in Users, CompleteDeletion(u) PROVE CountersOK'
  BY <1>1 DEF CompleteDeletion, CountersOK, JobsOK
<1>2. CASE GetUpdates
  BY <1>2 DEF GetUpdates, FailRuntime, CountersOK, JobsOK
<1>3. ASSUME NEW u \in Users, HandleUpdate(u) PROVE CountersOK'
  BY <1>3 DEF HandleUpdate, Handle, Register, StartMonitoring, StopMonitoring,
    ConfirmDeletion, CountersOK, JobsOK
<1>4. CASE Reply
  BY <1>4 DEF Reply, CountersOK, JobsOK
<1>5. CASE UpdatesDone
  BY <1>5 DEF UpdatesDone, CountersOK, JobsOK
<1>6. CASE PollStorageFails
  <2>1. CASE MarkersUnread
    BY <2>1 DEF MarkersUnread, FailRuntime, CountersOK, JobsOK
  <2>2. CASE DeletionFails
    BY <2>2 DEF DeletionFails, FailRuntime, CountersOK, JobsOK
  <2>3. CASE LoadFails
    BY <2>3 DEF LoadFails, Abandon, FailRuntime, CountersOK, JobsOK
  <2>4. ASSUME NEW u \in Users, HandlerFails(u) PROVE CountersOK'
    BY <2>4 DEF HandlerFails, Abandon, FailRuntime, CountersOK, JobsOK
  <2>5. ASSUME NEW u \in Users, ReloadFails(u) PROVE CountersOK'
    BY <2>5 DEF ReloadFails, Abandon, Handle, Register, StartMonitoring,
      StopMonitoring, ConfirmDeletion, FailRuntime, CountersOK, JobsOK
  <2>6. ASSUME NEW u \in Users, DeactivationFails(u) PROVE CountersOK'
    BY <2>6 DEF DeactivationFails, FailRuntime, CountersOK, JobsOK
  <2> QED
    BY <1>6, <2>1, <2>2, <2>3, <2>4, <2>5, <2>6 DEF PollStorageFails
<1>7. ASSUME NEW u \in Users, Receive(u) PROVE CountersOK'
  BY <1>7 DEF Receive, Drop, Requeue, CountersOK, JobsOK
<1>8. CASE NoticeStop
  BY <1>8 DEF NoticeStop, Queued, CountersOK, JobsOK
<1>9. CASE CheckWaiting
  BY <1>9 DEF CheckWaiting, Eligible, Drop, CountersOK, JobsOK
<1>10. CASE Classify
  BY <1>10 DEF Classify, Eligible, CountersOK, JobsOK
<1>11. CASE MainStorageFails
  BY <1>11 DEF MainStorageFails, FailRuntime, Drop, CountersOK, JobsOK
<1>12. ASSUME NEW u \in Users, Spawn(u) PROVE CountersOK'
  BY <1>12 DEF Spawn, Startable, Queued, CountersOK, JobsOK
<1>13. CASE PassEnd
  BY <1>13 DEF PassEnd, Queued, CountersOK, JobsOK
<1>14. ASSUME NEW u \in Users, Acknowledge(u) PROVE CountersOK'
  <2>1. CASE ~AwaitsAck(u) \/ fatal
    BY <1>14, <2>1 DEF Acknowledge, Return, CountersOK
  <2>2. CASE AwaitsAck(u) /\ ~fatal
    <3>1. batch[u] \in 0..MaxBatch /\ batch[u] > 0
      BY <1>14 DEF Acknowledge, CountersOK, JobsPlaced, ItemInFlightHasRow
    <3>2. batch[u] - 1 \in 0..MaxBatch
      BY <3>1
    <3>3. batch' \in [Users -> 0..MaxBatch]
      BY <1>14, <2>2, <3>2 DEF Acknowledge, CountersOK
    <3> QED
      BY <1>14, <3>3 DEF Acknowledge, CountersOK
  <2> QED
    BY <2>1, <2>2
<1>15. CASE Crash \/ Restart
  <2>1. CASE Crash
    BY <2>1 DEF Crash, CountersOK, JobsOK
  <2>2. CASE Restart
    BY <2>2 DEF Restart, CountersOK, JobsOK
  <2> QED
    BY <1>15, <2>1, <2>2
<1>16. CASE UNCHANGED <<batch, attempts, running, left>>
  BY <1>16 DEF CountersOK
<1> QED
  BY <1>1, <1>2, <1>3, <1>4, <1>5, <1>6, <1>7, <1>8, <1>9, <1>10, <1>11, <1>12,
    <1>13, <1>14, <1>15, <1>16
  DEF Next, PollStep, BumpDeactivated, MainStep, WorkerStep, PollTop,
    SendReceipt, RecoverDone,
      BumpGeneration, RaiseCancel, BatchEnd, DeactivateUnavailable,
      UnavailableDone, BeginPass, Pick, Throttle, Due, MainStops, WorkerBegin,
      SendAccepted, SendFailed, WorkerStorageFails, Report, Signal,
      Deactivate, Eligible, FailRuntime, Marked, Queued, Return, Startable

\* A gate changes hands only by its owner's lock and release.
LEMMA GateOwnedStep == IInv /\ Next => GateOwned'
<1> SUFFICES ASSUME IInv, Next PROVE GateOwned'
  OBVIOUS
<1> USE DEF IInv, TypeOK
<1>1. CASE PollTop
  BY <1>1 DEF PollTop, Marked, GateOwned, RowsOK, WorkersOK, PollOK
<1>2. ASSUME NEW u \in Users, CompleteDeletion(u) PROVE GateOwned'
  BY <1>2 DEF CompleteDeletion, GateOwned, RowsOK, WorkersOK, PollOK
<1>3. CASE SendReceipt
  BY <1>3 DEF SendReceipt, GateOwned, RowsOK, WorkersOK, PollOK
<1>4. CASE RecoverDone
  BY <1>4 DEF RecoverDone, GateOwned, RowsOK, WorkersOK, PollOK
<1>5. CASE GetUpdates
  BY <1>5 DEF GetUpdates, FailRuntime, GateOwned, RowsOK, WorkersOK, PollOK
<1>6. ASSUME NEW u \in Users, HandleUpdate(u) PROVE GateOwned'
  BY <1>6 DEF HandleUpdate, Handle, Register, StartMonitoring, StopMonitoring,
    ConfirmDeletion, GateOwned, RowsOK, WorkersOK, PollOK
<1>7. CASE BumpGeneration
  BY <1>7 DEF BumpGeneration, GateOwned, RowsOK, WorkersOK, PollOK
<1>8. CASE RaiseCancel
  BY <1>8 DEF RaiseCancel, GateOwned, RowsOK, WorkersOK, PollOK
<1>9. CASE Reply
  BY <1>9 DEF Reply, GateOwned, RowsOK, WorkersOK, PollOK
<1>10. CASE UpdatesDone
  BY <1>10 DEF UpdatesDone, GateOwned, RowsOK, WorkersOK, PollOK
<1>11. CASE BatchEnd
  BY <1>11 DEF BatchEnd, Marked, GateOwned, RowsOK, WorkersOK, PollOK
<1>12. CASE UnavailableDone
  BY <1>12 DEF UnavailableDone, FailRuntime, GateOwned, RowsOK, WorkersOK,
    PollOK
<1>13. CASE PollStorageFails
  <2>1. CASE MarkersUnread
    BY <2>1 DEF MarkersUnread, FailRuntime, GateOwned, RowsOK, WorkersOK, PollOK
  <2>2. CASE DeletionFails
    BY <2>2 DEF DeletionFails, FailRuntime, GateOwned, RowsOK, WorkersOK, PollOK
  <2>3. CASE LoadFails
    BY <2>3 DEF LoadFails, Abandon, FailRuntime, GateOwned, RowsOK, WorkersOK,
      PollOK
  <2>4. ASSUME NEW u \in Users, HandlerFails(u) PROVE GateOwned'
    BY <2>4 DEF HandlerFails, Abandon, FailRuntime, GateOwned, RowsOK,
      WorkersOK, PollOK
  <2>5. ASSUME NEW u \in Users, ReloadFails(u) PROVE GateOwned'
    BY <2>5 DEF ReloadFails, Abandon, Handle, Register, StartMonitoring,
      StopMonitoring, ConfirmDeletion, FailRuntime, GateOwned, RowsOK,
      WorkersOK, PollOK
  <2>6. ASSUME NEW u \in Users, DeactivationFails(u) PROVE GateOwned'
    BY <2>6 DEF DeactivationFails, FailRuntime, GateOwned, RowsOK, WorkersOK,
      PollOK
  <2> QED
    BY <1>13, <2>1, <2>2, <2>3, <2>4, <2>5, <2>6 DEF PollStorageFails
<1>14. ASSUME NEW u \in Users, Receive(u) PROVE GateOwned'
  BY <1>14 DEF Receive, Drop, Requeue, GateOwned, RowsOK, WorkersOK, PollOK
<1>15. ASSUME NEW u \in Users, Spawn(u) PROVE GateOwned'
  BY <1>15 DEF Spawn, Startable, Queued, GateOwned, RowsOK, WorkersOK, PollOK
<1>16. ASSUME NEW u \in Users, WorkerBegin(u) PROVE GateOwned'
  BY <1>16 DEF WorkerBegin, Eligible, GateOwned, RowsOK, WorkersOK, PollOK
<1>17. ASSUME NEW u \in Users, SendAccepted(u) PROVE GateOwned'
  BY <1>17 DEF SendAccepted, Return, GateOwned, RowsOK, WorkersOK, PollOK
<1>18. ASSUME NEW u \in Users, SendFailed(u) PROVE GateOwned'
  BY <1>18 DEF SendFailed, Deactivate, Return, GateOwned, RowsOK, WorkersOK,
    PollOK
<1>19. ASSUME NEW u \in Users, Acknowledge(u) PROVE GateOwned'
  BY <1>19 DEF Acknowledge, Return, AwaitsAck, GateOwned, RowsOK, WorkersOK,
    PollOK
<1>20. ASSUME NEW u \in Users, WorkerStorageFails(u) PROVE GateOwned'
  BY <1>20 DEF WorkerStorageFails, FailRuntime, Return, GateOwned, RowsOK,
    WorkersOK, PollOK
<1>21. ASSUME NEW u \in Users, Report(u) PROVE GateOwned'
  BY <1>21 DEF Report, GateOwned, RowsOK, WorkersOK, PollOK
<1>22. CASE Crash \/ Restart
  <2>1. CASE Crash
    BY <2>1 DEF Crash, GateOwned, RowsOK, WorkersOK, PollOK
  <2>2. CASE Restart
    BY <2>2 DEF Restart, GateOwned, RowsOK, WorkersOK, PollOK
  <2> QED
    BY <1>22, <2>1, <2>2
<1>23. ASSUME NEW u \in Users, DeactivateUnavailable(u) PROVE GateOwned'
  BY <1>23 DEF DeactivateUnavailable, GateOwned, RowsOK, WorkersOK, PollOK
<1>24. CASE BumpDeactivated
  BY <1>24 DEF BumpDeactivated, GateOwned, RowsOK, WorkersOK, PollOK
<1>25. CASE UNCHANGED <<gate, worker, poll, subject>>
  BY <1>25 DEF GateOwned
<1> QED
  BY <1>1, <1>2, <1>3, <1>4, <1>5, <1>6, <1>7, <1>8, <1>9, <1>10, <1>11, <1>12,
    <1>13, <1>14, <1>15, <1>16, <1>17, <1>18, <1>19, <1>20, <1>21, <1>22,
    <1>23, <1>24, <1>25
  DEF Next, PollStep, BumpDeactivated, MainStep, WorkerStep,
    DeactivateUnavailable, BeginPass,
      NoticeStop, Pick, CheckWaiting, Classify, MainStorageFails, Throttle,
      Due, PassEnd, MainStops, Signal, Deactivate, Drop, Eligible,
      FailRuntime, Queued, Startable

\* A deletion marker read for recovery stays until its deletion: no handler
\* lifts a marker.
LEMMA TodoMarkedStep == IInv /\ Next => TodoMarked'
<1> SUFFICES ASSUME IInv, Next PROVE TodoMarked'
  OBVIOUS
<1> USE DEF IInv, TypeOK
<1>1. CASE PollTop
  BY <1>1 DEF PollTop, Marked, TodoMarked, RowsOK, PollOK
<1>2. ASSUME NEW u \in Users, CompleteDeletion(u) PROVE TodoMarked'
  BY <1>2 DEF CompleteDeletion, TodoMarked, RowsOK, PollOK
<1>3. CASE SendReceipt
  BY <1>3 DEF SendReceipt, TodoMarked, RowsOK, PollOK
<1>4. CASE RecoverDone
  BY <1>4 DEF RecoverDone, TodoMarked, RowsOK, PollOK
<1>5. CASE GetUpdates
  BY <1>5 DEF GetUpdates, FailRuntime, TodoMarked, RowsOK, PollOK
<1>6. ASSUME NEW u \in Users, HandleUpdate(u) PROVE TodoMarked'
  BY <1>6 DEF HandleUpdate, Handle, Register, StartMonitoring, StopMonitoring,
    ConfirmDeletion, TodoMarked, RowsOK, PollOK
<1>7. CASE BumpGeneration
  BY <1>7 DEF BumpGeneration, TodoMarked, RowsOK, PollOK
<1>8. CASE RaiseCancel
  BY <1>8 DEF RaiseCancel, TodoMarked, RowsOK, PollOK
<1>9. CASE Reply
  BY <1>9 DEF Reply, TodoMarked, RowsOK, PollOK
<1>10. CASE UpdatesDone
  BY <1>10 DEF UpdatesDone, TodoMarked, RowsOK, PollOK
<1>11. CASE BatchEnd
  BY <1>11 DEF BatchEnd, Marked, TodoMarked, RowsOK, PollOK
<1>12. ASSUME NEW u \in Users, DeactivateUnavailable(u) PROVE TodoMarked'
  BY <1>12 DEF DeactivateUnavailable, Deactivate, TodoMarked, RowsOK, PollOK
<1>13. CASE UnavailableDone
  BY <1>13 DEF UnavailableDone, FailRuntime, TodoMarked, RowsOK, PollOK
<1>14. CASE PollStorageFails
  <2>1. CASE MarkersUnread
    BY <2>1 DEF MarkersUnread, FailRuntime, TodoMarked, RowsOK, PollOK
  <2>2. CASE DeletionFails
    BY <2>2 DEF DeletionFails, FailRuntime, TodoMarked, RowsOK, PollOK
  <2>3. CASE LoadFails
    BY <2>3 DEF LoadFails, Abandon, FailRuntime, TodoMarked, RowsOK, PollOK
  <2>4. ASSUME NEW u \in Users, HandlerFails(u) PROVE TodoMarked'
    BY <2>4 DEF HandlerFails, Abandon, FailRuntime, TodoMarked, RowsOK, PollOK
  <2>5. ASSUME NEW u \in Users, ReloadFails(u) PROVE TodoMarked'
    BY <2>5 DEF ReloadFails, Abandon, Handle, Register, StartMonitoring,
      StopMonitoring, ConfirmDeletion, FailRuntime, TodoMarked, RowsOK, PollOK
  <2>6. ASSUME NEW u \in Users, DeactivationFails(u) PROVE TodoMarked'
    BY <2>6 DEF DeactivationFails, FailRuntime, TodoMarked, RowsOK, PollOK
  <2> QED
    BY <1>14, <2>1, <2>2, <2>3, <2>4, <2>5, <2>6 DEF PollStorageFails
<1>15. ASSUME NEW u \in Users, SendFailed(u) PROVE TodoMarked'
  BY <1>15 DEF SendFailed, Deactivate, Return, TodoMarked, RowsOK, PollOK
<1>16. CASE Crash \/ Restart
  <2>1. CASE Crash
    BY <2>1 DEF Crash, TodoMarked, RowsOK, PollOK
  <2>2. CASE Restart
    BY <2>2 DEF Restart, TodoMarked, RowsOK, PollOK
  <2> QED
    BY <1>16, <2>1, <2>2
<1>17. CASE BumpDeactivated
  BY <1>17 DEF BumpDeactivated, TodoMarked, RowsOK, PollOK
<1>18. CASE UNCHANGED <<todo, user, poll>>
  BY <1>18 DEF TodoMarked
<1> QED
  BY <1>1, <1>2, <1>3, <1>4, <1>5, <1>6, <1>7, <1>8, <1>9, <1>10, <1>11, <1>12,
    <1>13, <1>14, <1>15, <1>16, <1>17, <1>18
  DEF Next, PollStep, BumpDeactivated, MainStep, WorkerStep, BeginPass,
    Receive, NoticeStop,
      Pick, CheckWaiting, Classify, MainStorageFails, Throttle, Due, Spawn,
      PassEnd, MainStops, WorkerBegin, SendAccepted, Acknowledge,
      WorkerStorageFails, Report, Signal, AwaitsAck, Drop, Eligible,
      FailRuntime, Queued, Requeue, Return, Startable

\* No job is both in the queue and with a worker.
LEMMA JobsPlacedStep == IInv /\ Next => JobsPlaced'
<1> SUFFICES ASSUME IInv, Next PROVE JobsPlaced'
  OBVIOUS
<1> USE DEF IInv, TypeOK
<1>1. CASE BeginPass
  BY <1>1 DEF BeginPass, Eligible, JobsPlaced, JobsOK, WorkersOK, Queued
<1>2. ASSUME NEW u \in Users, Receive(u) PROVE JobsPlaced'
  BY <1>2 DEF Receive, Drop, Requeue, JobsPlaced, JobsOK, WorkersOK, Queued
<1>3. CASE NoticeStop
  BY <1>3 DEF NoticeStop, Queued, JobsPlaced, JobsOK, WorkersOK
<1>4. ASSUME NEW u \in Users, Pick(u) PROVE JobsPlaced'
  BY <1>4 DEF Pick, Queued, JobsPlaced, JobsOK, WorkersOK
<1>5. CASE CheckWaiting
  BY <1>5 DEF CheckWaiting, Eligible, Drop, JobsPlaced, JobsOK, WorkersOK,
    Queued
<1>6. CASE Classify
  BY <1>6 DEF Classify, Eligible, JobsPlaced, JobsOK, WorkersOK, Queued
<1>7. CASE MainStorageFails
  BY <1>7 DEF MainStorageFails, FailRuntime, Drop, JobsPlaced, JobsOK,
    WorkersOK, Queued
<1>8. ASSUME NEW u \in Users, Spawn(u) PROVE JobsPlaced'
  BY <1>8 DEF Spawn, Startable, Queued, JobsPlaced, JobsOK, WorkersOK
<1>9. CASE PassEnd
  <2>1. \A u \in Users : worker[u] = "idle"
    BY <1>9, AllIdle DEF PassEnd
  <2>2. \A u \in Users : job[u] = "none"
    BY <1>9, <2>1 DEF PassEnd, Queued
  <2> QED
    BY <1>9, <2>1, <2>2 DEF PassEnd, JobsPlaced
<1>10. CASE MainStops
  BY <1>10 DEF MainStops, JobsPlaced, JobsOK, WorkersOK, Queued
<1>11. ASSUME NEW u \in Users, WorkerBegin(u) PROVE JobsPlaced'
  BY <1>11 DEF WorkerBegin, Eligible, JobsPlaced, JobsOK, WorkersOK, Queued
<1>12. ASSUME NEW u \in Users, SendAccepted(u) PROVE JobsPlaced'
  BY <1>12 DEF SendAccepted, Return, JobsPlaced, JobsOK, WorkersOK, Queued
<1>13. ASSUME NEW u \in Users, SendFailed(u) PROVE JobsPlaced'
  BY <1>13 DEF SendFailed, Deactivate, Return, JobsPlaced, JobsOK, WorkersOK,
    Queued
<1>14. ASSUME NEW u \in Users, Acknowledge(u) PROVE JobsPlaced'
  BY <1>14 DEF Acknowledge, Return, AwaitsAck, JobsPlaced, JobsOK, WorkersOK,
    Queued
<1>15. ASSUME NEW u \in Users, WorkerStorageFails(u) PROVE JobsPlaced'
  BY <1>15 DEF WorkerStorageFails, FailRuntime, Return, JobsPlaced, JobsOK,
    WorkersOK, Queued
<1>16. ASSUME NEW u \in Users, Report(u) PROVE JobsPlaced'
  BY <1>16 DEF Report, JobsPlaced, JobsOK, WorkersOK, Queued
<1>17. CASE Crash \/ Restart
  <2>1. CASE Crash
    BY <2>1 DEF Crash, JobsPlaced, JobsOK, WorkersOK, Queued
  <2>2. CASE Restart
    BY <2>2 DEF Restart, JobsPlaced, JobsOK, WorkersOK, Queued
  <2> QED
    BY <1>17, <2>1, <2>2
<1>18. CASE UNCHANGED <<worker, job, main, hand>>
  BY <1>18 DEF JobsPlaced, Queued
<1> QED
  BY <1>1, <1>2, <1>3, <1>4, <1>5, <1>6, <1>7, <1>8, <1>9, <1>10, <1>11, <1>12,
    <1>13, <1>14, <1>15, <1>16, <1>17, <1>18
  DEF Next, PollStep, BumpDeactivated, MainStep, WorkerStep, PollTop,
    CompleteDeletion,
      SendReceipt, RecoverDone, GetUpdates, HandleUpdate, BumpGeneration,
      RaiseCancel, Reply, UpdatesDone, BatchEnd, DeactivateUnavailable,
      UnavailableDone, PollStorageFails, MarkersUnread, DeletionFails,
        LoadFails, HandlerFails, ReloadFails, DeactivationFails, Abandon,
        Throttle, Due, Signal,
      ConfirmDeletion, Deactivate, FailRuntime, Marked, Queued, Register,
      StartMonitoring, Startable, StopMonitoring

\* From the batch that missed a change the poll thread only winds up and stops.
LEMMA LostStopsStep == IInv /\ Next => LostStops'
<1> SUFFICES ASSUME IInv, Next PROVE LostStops'
  OBVIOUS
<1> USE DEF IInv, TypeOK, LostStops
<1>1. CASE PollTop \/ RecoverDone \/ BatchEnd
  BY <1>1 DEF PollTop, RecoverDone, BatchEnd
<1>2. ASSUME NEW u \in Users, CompleteDeletion(u) PROVE LostStops'
  BY <1>2 DEF CompleteDeletion
<1>3. CASE SendReceipt \/ BumpDeactivated
  BY <1>3 DEF SendReceipt, BumpDeactivated
<1>4. CASE GetUpdates \/ BumpGeneration \/ RaiseCancel \/ Reply \/ UpdatesDone
  BY <1>4 DEF GetUpdates, BumpGeneration, RaiseCancel, Reply, UpdatesDone
<1>5. ASSUME NEW u \in Users, HandleUpdate(u) PROVE LostStops'
  BY <1>5 DEF HandleUpdate
<1>6. ASSUME NEW u \in Users, DeactivateUnavailable(u) PROVE LostStops'
  BY <1>6 DEF DeactivateUnavailable
<1>7. CASE UnavailableDone
  BY <1>7 DEF UnavailableDone, FailRuntime
<1>8. CASE PollStorageFails
  <2>1. CASE MarkersUnread \/ DeletionFails
    BY <2>1 DEF MarkersUnread, DeletionFails, FailRuntime
  <2>2. CASE LoadFails
    BY <2>2 DEF LoadFails, Abandon
  <2>3. ASSUME NEW u \in Users, HandlerFails(u) PROVE LostStops'
    BY <2>3 DEF HandlerFails, Abandon
  <2>4. ASSUME NEW u \in Users, ReloadFails(u) PROVE LostStops'
    BY <2>4 DEF ReloadFails, Abandon
  <2>5. ASSUME NEW u \in Users, DeactivationFails(u) PROVE LostStops'
    BY <2>5 DEF DeactivationFails, FailRuntime
  <2> QED
    BY <1>8, <2>1, <2>2, <2>3, <2>4, <2>5 DEF PollStorageFails
<1>9. CASE MainStorageFails
  BY <1>9 DEF MainStorageFails, FailRuntime
<1>10. ASSUME NEW u \in Users, WorkerStorageFails(u) PROVE LostStops'
  BY <1>10 DEF WorkerStorageFails, FailRuntime
<1>11. CASE Signal \/ Crash \/ Restart
  BY <1>11 DEF Signal, Crash, Restart
<1>12. CASE UNCHANGED <<poll, next, stop, fatal, doomed, lost>>
  BY <1>12
<1> QED
  BY <1>1, <1>2, <1>3, <1>4, <1>5, <1>6, <1>7, <1>8, <1>9, <1>10, <1>11, <1>12
  DEF Next, PollStep, MainStep, WorkerStep, BeginPass, Receive, NoticeStop,
      Pick, CheckWaiting, Classify, Throttle, Due, Spawn, PassEnd, MainStops,
      WorkerBegin, SendAccepted, SendFailed, Acknowledge, Report

\* The handler of a confirmed deletion raises the flag of a worker that is
\* sending; a worker spawned later reads the marker first.
LEMMA FlagsRaisedStep == IInv /\ Next => FlagsRaised'
<1> SUFFICES ASSUME IInv, Next PROVE FlagsRaised'
  OBVIOUS
<1> USE DEF IInv, TypeOK
<1>1. CASE PollTop
  BY <1>1 DEF PollTop, Marked, FlagsRaised, GateOwned, RowsOK, WorkersOK,
    PollOK
<1>2. ASSUME NEW u \in Users, CompleteDeletion(u) PROVE FlagsRaised'
  BY <1>2 DEF CompleteDeletion, FlagsRaised, GateOwned, RowsOK, WorkersOK,
    PollOK
<1>3. CASE SendReceipt
  BY <1>3 DEF SendReceipt, FlagsRaised, GateOwned, RowsOK, WorkersOK, PollOK
<1>4. CASE RecoverDone
  BY <1>4 DEF RecoverDone, FlagsRaised, GateOwned, RowsOK, WorkersOK, PollOK
<1>5. CASE GetUpdates
  BY <1>5 DEF GetUpdates, FailRuntime, FlagsRaised, GateOwned, RowsOK,
    WorkersOK, PollOK
<1>6. ASSUME NEW u \in Users, HandleUpdate(u) PROVE FlagsRaised'
  <2>1. /\ poll' \in {"bump", "reply"} /\ subject' = u /\ ~deleting
        /\ lost = Nobody
    BY <1>6 DEF HandleUpdate, FlagsRaised, LostStops
  <2>2. \A v \in Users \ {u} : user'[v] = user[v]
    BY <1>6 DEF HandleUpdate, Handle, Register, StartMonitoring, StopMonitoring,
      ConfirmDeletion, RowsOK
  <2>3. deleting' => poll' = "bump"
    BY <1>6 DEF HandleUpdate
  <2>4. ASSUME NEW v \in Users, worker[v] = "sending", user'[v] = "marked"
        PROVE  cancel[v] = "set" \/ (poll' = "bump" /\ v = u /\ deleting')
    <3>1. CASE user[v] = "marked"
      BY <1>6, <2>1, <2>4, <3>1 DEF HandleUpdate, FlagsRaised
    <3>2. CASE user[v] # "marked"
      BY <1>6, <2>2, <2>3, <2>4, <3>2 DEF HandleUpdate
    <3> QED
      BY <3>1, <3>2
  <2> QED
    BY <1>6, <2>1, <2>3, <2>4 DEF HandleUpdate, FlagsRaised
<1>7. CASE BumpGeneration
  BY <1>7 DEF BumpGeneration, FlagsRaised, GateOwned, RowsOK, WorkersOK,
    PollOK
<1>8. CASE RaiseCancel
  BY <1>8 DEF RaiseCancel, FlagsRaised, GateOwned, RowsOK, WorkersOK, PollOK
<1>9. CASE Reply
  BY <1>9 DEF Reply, FlagsRaised, GateOwned, RowsOK, WorkersOK, PollOK
<1>10. CASE UpdatesDone
  BY <1>10 DEF UpdatesDone, FlagsRaised, GateOwned, RowsOK, WorkersOK, PollOK
<1>11. CASE BatchEnd
  BY <1>11 DEF BatchEnd, Marked, FlagsRaised, GateOwned, RowsOK, WorkersOK,
    PollOK
<1>12. ASSUME NEW u \in Users, DeactivateUnavailable(u) PROVE FlagsRaised'
  BY <1>12 DEF DeactivateUnavailable, Deactivate, FlagsRaised, GateOwned,
    RowsOK, WorkersOK, PollOK
<1>13. CASE UnavailableDone
  BY <1>13 DEF UnavailableDone, FailRuntime, FlagsRaised, GateOwned, RowsOK,
    WorkersOK, PollOK
<1>14. CASE PollStorageFails
  <2>1. CASE MarkersUnread
    BY <2>1 DEF MarkersUnread, FailRuntime, FlagsRaised, GateOwned, RowsOK,
      WorkersOK, PollOK
  <2>2. CASE DeletionFails
    BY <2>2 DEF DeletionFails, FailRuntime, FlagsRaised, GateOwned, RowsOK,
      WorkersOK, PollOK
  <2>3. CASE LoadFails
    BY <2>3 DEF LoadFails, Abandon, FailRuntime, FlagsRaised, GateOwned,
      RowsOK, WorkersOK, PollOK
  <2>4. ASSUME NEW u \in Users, HandlerFails(u) PROVE FlagsRaised'
    BY <2>4 DEF HandlerFails, Abandon, FailRuntime, FlagsRaised, GateOwned,
      RowsOK, WorkersOK, PollOK
  <2>5. ASSUME NEW u \in Users, ReloadFails(u) PROVE FlagsRaised'
    <3>1. poll = "updates" /\ ~deleting /\ lost = Nobody
      BY <2>5 DEF ReloadFails, Abandon, FlagsRaised, LostStops
    <3>2. \A v \in Users \ {u} : user'[v] = user[v]
      BY <2>5 DEF ReloadFails, Handle, Register, StartMonitoring,
        StopMonitoring, ConfirmDeletion, RowsOK
    <3>3. user'[u] = user[u] \/ lost' = u
      BY <2>5 DEF ReloadFails
    <3>4. UNCHANGED <<cancel, worker, deleting>>
      BY <2>5 DEF ReloadFails, Abandon
    <3> QED
      BY <3>1, <3>2, <3>3, <3>4 DEF FlagsRaised
  <2>6. ASSUME NEW u \in Users, DeactivationFails(u) PROVE FlagsRaised'
    BY <2>6 DEF DeactivationFails, FailRuntime, FlagsRaised, GateOwned,
      RowsOK, WorkersOK, PollOK
  <2> QED
    BY <1>14, <2>1, <2>2, <2>3, <2>4, <2>5, <2>6 DEF PollStorageFails
<1>15. ASSUME NEW u \in Users, Receive(u) PROVE FlagsRaised'
  BY <1>15 DEF Receive, Drop, Requeue, FlagsRaised, GateOwned, RowsOK,
    WorkersOK, PollOK
<1>16. CASE NoticeStop
  BY <1>16 DEF NoticeStop, Queued, FlagsRaised, GateOwned, RowsOK, WorkersOK,
    PollOK
<1>17. ASSUME NEW u \in Users, Spawn(u) PROVE FlagsRaised'
  BY <1>17 DEF Spawn, Startable, Queued, FlagsRaised, GateOwned, RowsOK,
    WorkersOK, PollOK
<1>18. ASSUME NEW u \in Users, WorkerBegin(u) PROVE FlagsRaised'
  BY <1>18 DEF WorkerBegin, Eligible, FlagsRaised, GateOwned, RowsOK,
    WorkersOK, PollOK
<1>19. ASSUME NEW u \in Users, SendAccepted(u) PROVE FlagsRaised'
  BY <1>19 DEF SendAccepted, Return, FlagsRaised, GateOwned, RowsOK,
    WorkersOK, PollOK
<1>20. ASSUME NEW u \in Users, SendFailed(u) PROVE FlagsRaised'
  BY <1>20 DEF SendFailed, Deactivate, Return, FlagsRaised, GateOwned, RowsOK,
    WorkersOK, PollOK
<1>21. ASSUME NEW u \in Users, Acknowledge(u) PROVE FlagsRaised'
  BY <1>21 DEF Acknowledge, Return, AwaitsAck, FlagsRaised, GateOwned, RowsOK,
    WorkersOK, PollOK
<1>22. ASSUME NEW u \in Users, WorkerStorageFails(u) PROVE FlagsRaised'
  BY <1>22 DEF WorkerStorageFails, FailRuntime, Return, FlagsRaised,
    GateOwned, RowsOK, WorkersOK, PollOK
<1>23. ASSUME NEW u \in Users, Report(u) PROVE FlagsRaised'
  BY <1>23 DEF Report, FlagsRaised, GateOwned, RowsOK, WorkersOK, PollOK
<1>24. CASE Crash \/ Restart
  <2>1. CASE Crash
    BY <2>1 DEF Crash, FlagsRaised, GateOwned, RowsOK, WorkersOK, PollOK
  <2>2. CASE Restart
    BY <2>2 DEF Restart, FlagsRaised, GateOwned, RowsOK, WorkersOK, PollOK
  <2> QED
    BY <1>24, <2>1, <2>2
<1>25. CASE BumpDeactivated
  BY <1>25 DEF BumpDeactivated, FlagsRaised, RowsOK, WorkersOK, PollOK
<1>26. CASE UNCHANGED <<cancel, worker, user, poll, subject, deleting, lost>>
  BY <1>26 DEF FlagsRaised
<1> QED
  BY <1>1, <1>2, <1>3, <1>4, <1>5, <1>6, <1>7, <1>8, <1>9, <1>10, <1>11, <1>12,
    <1>13, <1>14, <1>15, <1>16, <1>17, <1>18, <1>19, <1>20, <1>21, <1>22,
    <1>23, <1>24, <1>25, <1>26
  DEF Next, PollStep, BumpDeactivated, MainStep, WorkerStep, BeginPass, Pick,
    CheckWaiting,
      Classify, MainStorageFails, Throttle, Due, PassEnd, MainStops, Signal,
      Drop, Eligible, FailRuntime, Queued, Startable

\* Every change of eligibility is followed by a bump before it can be missed.
LEMMA ChecksFreshStep == IInv /\ Next => ChecksFresh'
<1> SUFFICES ASSUME IInv, Next PROVE ChecksFresh'
  OBVIOUS
<1> USE DEF IInv, TypeOK
<1>1. CASE PollTop
  BY <1>1 DEF PollTop, Marked, ChecksFresh, RowsOK, JobsOK, WorkersOK, PollOK,
    Eligible
<1>2. ASSUME NEW u \in Users, CompleteDeletion(u) PROVE ChecksFresh'
  <2>1. user[u] = "marked" /\ poll # "bump" /\ poll' # "bump"
    BY <1>2 DEF CompleteDeletion, TodoMarked
  <2>2. \A v \in Users \ {u} : user'[v] = user[v]
    BY <1>2 DEF CompleteDeletion, RowsOK
  <2> QED
    BY <1>2, <2>1, <2>2 DEF CompleteDeletion, ChecksFresh, Eligible
<1>3. CASE SendReceipt
  BY <1>3 DEF SendReceipt, ChecksFresh, RowsOK, JobsOK, WorkersOK, PollOK,
    Eligible
<1>4. CASE RecoverDone
  BY <1>4 DEF RecoverDone, ChecksFresh, RowsOK, JobsOK, WorkersOK, PollOK,
    Eligible
<1>5. CASE GetUpdates
  BY <1>5 DEF GetUpdates, FailRuntime, ChecksFresh, RowsOK, JobsOK, WorkersOK,
    PollOK, Eligible
<1>6. ASSUME NEW u \in Users, HandleUpdate(u) PROVE ChecksFresh'
  BY <1>6 DEF HandleUpdate, Handle, Register, StartMonitoring, StopMonitoring,
    ConfirmDeletion, ChecksFresh, RowsOK, JobsOK, WorkersOK, PollOK, Eligible
<1>7. CASE BumpGeneration
  BY <1>7 DEF BumpGeneration, ChecksFresh, RowsOK, JobsOK, WorkersOK, PollOK,
    Eligible
<1>8. CASE RaiseCancel
  BY <1>8 DEF RaiseCancel, ChecksFresh, RowsOK, JobsOK, WorkersOK, PollOK,
    Eligible
<1>9. CASE Reply
  BY <1>9 DEF Reply, ChecksFresh, RowsOK, JobsOK, WorkersOK, PollOK, Eligible
<1>10. CASE UpdatesDone
  BY <1>10 DEF UpdatesDone, ChecksFresh, RowsOK, JobsOK, WorkersOK, PollOK,
    Eligible
<1>11. CASE BatchEnd
  BY <1>11 DEF BatchEnd, Marked, ChecksFresh, RowsOK, JobsOK, WorkersOK,
    PollOK, Eligible
<1>12. ASSUME NEW u \in Users, DeactivateUnavailable(u) PROVE ChecksFresh'
  BY <1>12 DEF DeactivateUnavailable, Deactivate, ChecksFresh, RowsOK, JobsOK,
    WorkersOK, PollOK, Eligible
<1>13. CASE UnavailableDone
  BY <1>13 DEF UnavailableDone, FailRuntime, ChecksFresh, RowsOK, JobsOK,
    WorkersOK, PollOK, Eligible
<1>14. CASE PollStorageFails
  <2>1. CASE MarkersUnread
    BY <2>1 DEF MarkersUnread, FailRuntime, ChecksFresh, RowsOK, JobsOK,
      WorkersOK, PollOK, Eligible
  <2>2. CASE DeletionFails
    BY <2>2 DEF DeletionFails, FailRuntime, ChecksFresh, RowsOK, JobsOK,
      WorkersOK, PollOK, Eligible
  <2>3. CASE LoadFails
    BY <2>3 DEF LoadFails, Abandon, FailRuntime, ChecksFresh, RowsOK, JobsOK,
      WorkersOK, PollOK, Eligible
  <2>4. ASSUME NEW u \in Users, HandlerFails(u) PROVE ChecksFresh'
    BY <2>4 DEF HandlerFails, Abandon, FailRuntime, ChecksFresh, RowsOK,
      JobsOK, WorkersOK, PollOK, Eligible
  <2>5. ASSUME NEW u \in Users, ReloadFails(u) PROVE ChecksFresh'
    <3>1. poll = "updates" /\ lost = Nobody
      BY <2>5 DEF ReloadFails, Abandon, LostStops
    <3>2. \A v \in Users \ {u} : user'[v] = user[v]
      BY <2>5 DEF ReloadFails, Handle, Register, StartMonitoring,
        StopMonitoring, ConfirmDeletion, RowsOK
    <3>3. user'[u] = user[u] \/ lost' = u
      BY <2>5 DEF ReloadFails
    <3>4. UNCHANGED <<checked, worker, result>>
      BY <2>5 DEF ReloadFails, Abandon
    <3> QED
      BY <3>1, <3>2, <3>3, <3>4, UsersAssumption DEF ChecksFresh, Eligible
  <2>6. ASSUME NEW u \in Users, DeactivationFails(u) PROVE ChecksFresh'
    BY <2>6 DEF DeactivationFails, FailRuntime, ChecksFresh, RowsOK, JobsOK,
      WorkersOK, PollOK, Eligible
  <2> QED
    BY <1>14, <2>1, <2>2, <2>3, <2>4, <2>5, <2>6 DEF PollStorageFails
<1>15. ASSUME NEW u \in Users, Receive(u) PROVE ChecksFresh'
  BY <1>15 DEF Receive, Drop, Requeue, ChecksFresh, RowsOK, JobsOK, WorkersOK,
    PollOK, Eligible
<1>16. CASE NoticeStop
  BY <1>16 DEF NoticeStop, Queued, ChecksFresh, RowsOK, JobsOK, WorkersOK,
    PollOK, Eligible
<1>17. CASE CheckWaiting
  BY <1>17 DEF CheckWaiting, Eligible, Drop, ChecksFresh, RowsOK, JobsOK,
    WorkersOK, PollOK
<1>18. CASE MainStorageFails
  BY <1>18 DEF MainStorageFails, FailRuntime, Drop, ChecksFresh, RowsOK,
    JobsOK, WorkersOK, PollOK, Eligible
<1>19. ASSUME NEW u \in Users, Spawn(u) PROVE ChecksFresh'
  BY <1>19 DEF Spawn, Startable, Queued, ChecksFresh, RowsOK, JobsOK,
    WorkersOK, PollOK, Eligible
<1>20. ASSUME NEW u \in Users, WorkerBegin(u) PROVE ChecksFresh'
  BY <1>20 DEF WorkerBegin, Eligible, ChecksFresh, RowsOK, JobsOK, WorkersOK,
    PollOK
<1>21. ASSUME NEW u \in Users, SendAccepted(u) PROVE ChecksFresh'
  BY <1>21 DEF SendAccepted, Return, ChecksFresh, RowsOK, JobsOK, WorkersOK,
    PollOK, Eligible
<1>22. ASSUME NEW u \in Users, SendFailed(u) PROVE ChecksFresh'
  BY <1>22 DEF SendFailed, Deactivate, Return, ChecksFresh, RowsOK, JobsOK,
    WorkersOK, PollOK, Eligible
<1>23. ASSUME NEW u \in Users, Acknowledge(u) PROVE ChecksFresh'
  BY <1>23 DEF Acknowledge, Return, AwaitsAck, ChecksFresh, RowsOK, JobsOK,
    WorkersOK, PollOK, Eligible
<1>24. ASSUME NEW u \in Users, WorkerStorageFails(u) PROVE ChecksFresh'
  BY <1>24 DEF WorkerStorageFails, FailRuntime, Return, ChecksFresh, RowsOK,
    JobsOK, WorkersOK, PollOK, Eligible
<1>25. ASSUME NEW u \in Users, Report(u) PROVE ChecksFresh'
  BY <1>25 DEF Report, ChecksFresh, RowsOK, JobsOK, WorkersOK, PollOK,
    Eligible
<1>26. CASE Crash \/ Restart
  <2>1. CASE Crash
    BY <2>1 DEF Crash, ChecksFresh, RowsOK, JobsOK, WorkersOK, PollOK, Eligible
  <2>2. CASE Restart
    BY <2>2 DEF Restart, ChecksFresh, RowsOK, JobsOK, WorkersOK, PollOK,
           Eligible
  <2> QED
    BY <1>26, <2>1, <2>2
<1>27. CASE BumpDeactivated
  BY <1>27 DEF BumpDeactivated, ChecksFresh, RowsOK, PollOK
<1>28. CASE UNCHANGED <<checked, user, poll, subject, worker, result, lost>>
  BY <1>28 DEF ChecksFresh, Eligible
<1> QED
  BY <1>1, <1>2, <1>3, <1>4, <1>5, <1>6, <1>7, <1>8, <1>9, <1>10, <1>11, <1>12,
    <1>13, <1>14, <1>15, <1>16, <1>17, <1>18, <1>19, <1>20, <1>21, <1>22,
    <1>23, <1>24, <1>25, <1>26, <1>27, <1>28
  DEF Next, PollStep, BumpDeactivated, MainStep, WorkerStep, BeginPass, Pick,
    Classify,
      Throttle, Due, PassEnd, MainStops, Signal, Eligible, Queued, Startable

\* No step writes private rows for a user who is not registered.
LEMMA DeletedLeavesNothingStep == IInv /\ Next => DeletedLeavesNothing'
<1> SUFFICES ASSUME IInv, Next PROVE DeletedLeavesNothing'
  OBVIOUS
<1> USE DEF IInv, TypeOK
<1>1. ASSUME NEW u \in Users, CompleteDeletion(u) PROVE DeletedLeavesNothing'
  <2>1. ~recipient'[u] /\ batch'[u] = 0
    BY <1>1 DEF CompleteDeletion, RowsOK, CountersOK
  <2>2. \A v \in Users \ {u} : user'[v] = user[v] /\ recipient'[v] =
    recipient[v]
    BY <1>1 DEF CompleteDeletion, RowsOK
  <2>3. \A v \in Users \ {u} : batch'[v] = batch[v]
    BY <1>1 DEF CompleteDeletion, CountersOK
  <2> QED
    BY <2>1, <2>2, <2>3 DEF DeletedLeavesNothing
<1>2. ASSUME NEW u \in Users, HandleUpdate(u) PROVE DeletedLeavesNothing'
  BY <1>2 DEF HandleUpdate, Handle, Register, StartMonitoring, StopMonitoring,
    ConfirmDeletion, DeletedLeavesNothing, RowsOK
<1>3. ASSUME NEW u \in Users, DeactivateUnavailable(u) PROVE
  DeletedLeavesNothing'
  BY <1>3 DEF DeactivateUnavailable, Deactivate, DeletedLeavesNothing, RowsOK
<1>4. CASE Classify
  <2>1. CASE Eligible(hand)
    <3>1. hand \in Users /\ user[hand] # "absent"
      BY <1>4, <2>1 DEF Classify, Eligible, JobsOK
    <3>2. \A v \in Users \ {hand} : recipient'[v] = recipient[v]
      BY <1>4, <2>1 DEF Classify, RowsOK
    <3>3. \A v \in Users \ {hand} : batch'[v] = batch[v]
      BY <1>4, <2>1 DEF Classify, CountersOK
    <3>4. user' = user
      BY <1>4 DEF Classify
    <3> QED
      BY <3>1, <3>2, <3>3, <3>4 DEF DeletedLeavesNothing
  <2>2. CASE ~Eligible(hand)
    BY <1>4, <2>2 DEF Classify, DeletedLeavesNothing
  <2> QED
    BY <2>1, <2>2
<1>5. CASE PassEnd
  BY <1>5 DEF PassEnd, Queued, DeletedLeavesNothing, RowsOK
<1>6. ASSUME NEW u \in Users, SendFailed(u) PROVE DeletedLeavesNothing'
  BY <1>6 DEF SendFailed, Deactivate, Return, DeletedLeavesNothing, RowsOK
<1>7. ASSUME NEW u \in Users, Acknowledge(u) PROVE DeletedLeavesNothing'
  <2>1. CASE ~AwaitsAck(u) \/ fatal
    BY <1>7, <2>1 DEF Acknowledge, DeletedLeavesNothing
  <2>2. CASE AwaitsAck(u) /\ ~fatal
    <3>1. \A v \in Users \ {u} : recipient'[v] = recipient[v]
      BY <1>7, <2>2 DEF Acknowledge, RowsOK
    <3>2. \A v \in Users \ {u} : batch'[v] = batch[v]
      BY <1>7, <2>2 DEF Acknowledge, CountersOK
    <3>3. user' = user
      BY <1>7 DEF Acknowledge
    <3> QED
      BY <2>2, <3>1, <3>2, <3>3 DEF DeletedLeavesNothing, AwaitsAck
  <2> QED
    BY <2>1, <2>2
<1>8. CASE Crash \/ Restart
  <2>1. CASE Crash
    BY <2>1 DEF Crash, DeletedLeavesNothing, RowsOK
  <2>2. CASE Restart
    BY <2>2 DEF Restart, DeletedLeavesNothing, RowsOK
  <2> QED
    BY <1>8, <2>1, <2>2
<1>9. ASSUME NEW u \in Users,
             HandlerFails(u) \/ ReloadFails(u) \/ DeactivationFails(u)
      PROVE  DeletedLeavesNothing'
  BY <1>9 DEF HandlerFails, ReloadFails, DeactivationFails, Abandon, Handle,
    Register, StartMonitoring, StopMonitoring, ConfirmDeletion,
    DeletedLeavesNothing, RowsOK
<1>10. CASE UNCHANGED <<user, recipient, batch>>
  BY <1>10 DEF DeletedLeavesNothing
<1> QED
  BY <1>1, <1>2, <1>3, <1>4, <1>5, <1>6, <1>7, <1>8, <1>9, <1>10
  DEF Next, PollStep, BumpDeactivated, MainStep, WorkerStep, PollTop,
    SendReceipt, RecoverDone,
      GetUpdates, BumpGeneration, RaiseCancel, Reply, UpdatesDone, BatchEnd,
      UnavailableDone, PollStorageFails, MarkersUnread, DeletionFails,
        LoadFails, HandlerFails, ReloadFails, DeactivationFails, Abandon,
        BeginPass, Receive, NoticeStop, Pick,
      CheckWaiting, MainStorageFails, Throttle, Due, Spawn, MainStops,
      WorkerBegin, SendAccepted, WorkerStorageFails, Report, Signal, Drop,
      Eligible, FailRuntime, Marked, Queued, Requeue, Return, Startable

\* No deletion runs between a worker's read and its return.
LEMMA AcknowledgesWhatItReadStep == IInv /\ Next => AcknowledgesWhatItRead'
<1> SUFFICES ASSUME IInv, Next PROVE AcknowledgesWhatItRead'
  OBVIOUS
<1> USE DEF IInv, TypeOK
<1>1. ASSUME NEW u \in Users, CompleteDeletion(u) PROVE AcknowledgesWhatItRead'
  BY <1>1 DEF CompleteDeletion, AcknowledgesWhatItRead, GateOwned, RowsOK,
    WorkersOK, PollOK, TodoMarked
<1>2. CASE SendReceipt
  BY <1>2 DEF SendReceipt, AcknowledgesWhatItRead, GateOwned, RowsOK,
    WorkersOK, PollOK, TodoMarked
<1>3. ASSUME NEW u \in Users, HandleUpdate(u) PROVE AcknowledgesWhatItRead'
  BY <1>3 DEF HandleUpdate, Handle, Register, StartMonitoring, StopMonitoring,
    ConfirmDeletion, AcknowledgesWhatItRead, GateOwned, RowsOK, WorkersOK,
    PollOK, TodoMarked
<1>4. ASSUME NEW u \in Users, DeactivateUnavailable(u) PROVE
  AcknowledgesWhatItRead'
  BY <1>4 DEF DeactivateUnavailable, Deactivate, AcknowledgesWhatItRead,
    GateOwned, RowsOK, WorkersOK, PollOK, TodoMarked
<1>5. ASSUME NEW u \in Users, Receive(u) PROVE AcknowledgesWhatItRead'
  BY <1>5 DEF Receive, Drop, Requeue, AcknowledgesWhatItRead, GateOwned,
    RowsOK, WorkersOK, PollOK, TodoMarked
<1>6. ASSUME NEW u \in Users, Spawn(u) PROVE AcknowledgesWhatItRead'
  BY <1>6 DEF Spawn, Startable, Queued, AcknowledgesWhatItRead, GateOwned,
    RowsOK, WorkersOK, PollOK, TodoMarked
<1>7. ASSUME NEW u \in Users, WorkerBegin(u) PROVE AcknowledgesWhatItRead'
  BY <1>7 DEF WorkerBegin, Eligible, AcknowledgesWhatItRead, GateOwned,
    RowsOK, WorkersOK, PollOK, TodoMarked
<1>8. ASSUME NEW u \in Users, SendAccepted(u) PROVE AcknowledgesWhatItRead'
  BY <1>8 DEF SendAccepted, Return, AcknowledgesWhatItRead, GateOwned, RowsOK,
    WorkersOK, PollOK, TodoMarked
<1>9. ASSUME NEW u \in Users, SendFailed(u) PROVE AcknowledgesWhatItRead'
  BY <1>9 DEF SendFailed, Deactivate, Return, AcknowledgesWhatItRead,
    GateOwned, RowsOK, WorkersOK, PollOK, TodoMarked
<1>10. ASSUME NEW u \in Users, Acknowledge(u) PROVE AcknowledgesWhatItRead'
  BY <1>10 DEF Acknowledge, Return, AwaitsAck, AcknowledgesWhatItRead,
    GateOwned, RowsOK, WorkersOK, PollOK, TodoMarked
<1>11. ASSUME NEW u \in Users, WorkerStorageFails(u) PROVE
  AcknowledgesWhatItRead'
  BY <1>11 DEF WorkerStorageFails, FailRuntime, Return,
    AcknowledgesWhatItRead, GateOwned, RowsOK, WorkersOK, PollOK, TodoMarked
<1>12. ASSUME NEW u \in Users, Report(u) PROVE AcknowledgesWhatItRead'
  BY <1>12 DEF Report, AcknowledgesWhatItRead, GateOwned, RowsOK, WorkersOK,
    PollOK, TodoMarked
<1>13. CASE Crash \/ Restart
  <2>1. CASE Crash
    BY <2>1 DEF Crash, AcknowledgesWhatItRead, GateOwned, RowsOK, WorkersOK,
           PollOK, TodoMarked
  <2>2. CASE Restart
    BY <2>2 DEF Restart, AcknowledgesWhatItRead, GateOwned, RowsOK, WorkersOK,
           PollOK, TodoMarked
  <2> QED
    BY <1>13, <2>1, <2>2
<1>14. CASE BumpDeactivated
  BY <1>14 DEF BumpDeactivated, AcknowledgesWhatItRead, GateOwned, RowsOK,
    WorkersOK, PollOK
<1>15. ASSUME NEW u \in Users,
             HandlerFails(u) \/ ReloadFails(u) \/ DeactivationFails(u)
      PROVE  AcknowledgesWhatItRead'
  BY <1>15 DEF HandlerFails, ReloadFails, DeactivationFails, Abandon, Handle,
    Register, StartMonitoring, StopMonitoring, ConfirmDeletion,
    AcknowledgesWhatItRead, RowsOK
<1>16. CASE UNCHANGED <<worker, user, gate>>
  BY <1>16 DEF AcknowledgesWhatItRead
<1> QED
  BY <1>1, <1>2, <1>3, <1>4, <1>5, <1>6, <1>7, <1>8, <1>9, <1>10, <1>11, <1>12,
    <1>13, <1>14, <1>15, <1>16
  DEF Next, PollStep, BumpDeactivated, MainStep, WorkerStep, PollTop,
    RecoverDone, GetUpdates,
      BumpGeneration, RaiseCancel, Reply, UpdatesDone, BatchEnd,
      UnavailableDone, PollStorageFails, MarkersUnread, DeletionFails,
        LoadFails, HandlerFails, ReloadFails, DeactivationFails, Abandon,
        BeginPass, NoticeStop, Pick,
      CheckWaiting, Classify, MainStorageFails, Throttle, Due, PassEnd,
      MainStops, Signal, Drop, Eligible, FailRuntime, Marked, Queued,
      Startable

\* The row of a listing in flight is not taken away under its worker.
LEMMA ItemInFlightHasRowStep == IInv /\ Next => ItemInFlightHasRow'
<1> SUFFICES ASSUME IInv, Next PROVE ItemInFlightHasRow'
  OBVIOUS
<1> USE DEF IInv, TypeOK
<1>1. ASSUME NEW u \in Users, CompleteDeletion(u) PROVE ItemInFlightHasRow'
  BY <1>1 DEF CompleteDeletion, ItemInFlightHasRow, JobsPlaced, GateOwned,
    JobsOK, WorkersOK, Queued
<1>2. CASE BeginPass
  BY <1>2 DEF BeginPass, Eligible, ItemInFlightHasRow, JobsPlaced, GateOwned,
    JobsOK, WorkersOK, Queued
<1>3. ASSUME NEW u \in Users, Receive(u) PROVE ItemInFlightHasRow'
  BY <1>3 DEF Receive, Drop, Requeue, ItemInFlightHasRow, JobsPlaced,
    GateOwned, JobsOK, WorkersOK, Queued
<1>4. CASE NoticeStop
  BY <1>4 DEF NoticeStop, Queued, ItemInFlightHasRow, JobsPlaced, GateOwned,
    JobsOK, WorkersOK
<1>5. CASE CheckWaiting
  BY <1>5 DEF CheckWaiting, Eligible, Drop, ItemInFlightHasRow, JobsPlaced,
    GateOwned, JobsOK, WorkersOK, Queued
<1>6. CASE Classify
  <2> SUFFICES ASSUME NEW u \in Users, worker[u] \in {"sending", "accepted"},
                      job'[u] = "listing"
               PROVE  batch'[u] > 0
    BY <1>6 DEF Classify, ItemInFlightHasRow
  <2>1. hand \in Users /\ worker[hand] = "idle"
    BY <1>6 DEF Classify, JobsPlaced, Queued, JobsOK
  <2>2. u # hand
    BY <2>1
  <2>3. batch'[u] = batch[u]
    BY <1>6, <2>1, <2>2 DEF Classify, CountersOK
  <2>4. job'[u] = job[u]
    BY <1>6, <2>1, <2>2 DEF Classify, JobsOK
  <2> QED
    BY <2>3, <2>4 DEF ItemInFlightHasRow
<1>7. CASE MainStorageFails
  BY <1>7 DEF MainStorageFails, FailRuntime, Drop, ItemInFlightHasRow,
    JobsPlaced, GateOwned, JobsOK, WorkersOK, Queued
<1>8. ASSUME NEW u \in Users, Spawn(u) PROVE ItemInFlightHasRow'
  BY <1>8 DEF Spawn, Startable, Queued, ItemInFlightHasRow, JobsPlaced,
    GateOwned, JobsOK, WorkersOK
<1>9. CASE PassEnd
  <2>1. \A u \in Users : worker[u] = "idle"
    BY <1>9, AllIdle DEF PassEnd
  <2> QED
    BY <1>9, <2>1 DEF PassEnd, ItemInFlightHasRow
<1>10. ASSUME NEW u \in Users, WorkerBegin(u) PROVE ItemInFlightHasRow'
  BY <1>10 DEF WorkerBegin, Eligible, ItemInFlightHasRow, JobsPlaced,
    GateOwned, JobsOK, WorkersOK, Queued
<1>11. ASSUME NEW u \in Users, SendAccepted(u) PROVE ItemInFlightHasRow'
  BY <1>11 DEF SendAccepted, Return, ItemInFlightHasRow, JobsPlaced,
    GateOwned, JobsOK, WorkersOK, Queued
<1>12. ASSUME NEW u \in Users, SendFailed(u) PROVE ItemInFlightHasRow'
  BY <1>12 DEF SendFailed, Deactivate, Return, ItemInFlightHasRow, JobsPlaced,
    GateOwned, JobsOK, WorkersOK, Queued
<1>13. ASSUME NEW u \in Users, Acknowledge(u) PROVE ItemInFlightHasRow'
  <2> SUFFICES ASSUME NEW v \in Users, worker'[v] \in {"sending", "accepted"},
                      job[v] = "listing"
               PROVE  batch'[v] > 0
    BY <1>13 DEF Acknowledge, ItemInFlightHasRow
  <2>1. v # u /\ worker[v] \in {"sending", "accepted"}
    BY <1>13 DEF Acknowledge, Return, WorkersOK
  <2>2. batch'[v] = batch[v]
    BY <1>13, <2>1 DEF Acknowledge, CountersOK
  <2> QED
    BY <2>1, <2>2 DEF ItemInFlightHasRow
<1>14. ASSUME NEW u \in Users, WorkerStorageFails(u) PROVE ItemInFlightHasRow'
  BY <1>14 DEF WorkerStorageFails, FailRuntime, Return, ItemInFlightHasRow,
    JobsPlaced, GateOwned, JobsOK, WorkersOK, Queued
<1>15. ASSUME NEW u \in Users, Report(u) PROVE ItemInFlightHasRow'
  BY <1>15 DEF Report, ItemInFlightHasRow, JobsPlaced, GateOwned, JobsOK,
    WorkersOK, Queued
<1>16. CASE Crash \/ Restart
  <2>1. CASE Crash
    BY <2>1 DEF Crash, ItemInFlightHasRow, JobsPlaced, GateOwned, JobsOK,
           WorkersOK, Queued
  <2>2. CASE Restart
    BY <2>2 DEF Restart, ItemInFlightHasRow, JobsPlaced, GateOwned, JobsOK,
           WorkersOK, Queued
  <2> QED
    BY <1>16, <2>1, <2>2
<1>17. CASE UNCHANGED <<worker, job, batch>>
  BY <1>17 DEF ItemInFlightHasRow, Queued
<1> QED
  BY <1>1, <1>2, <1>3, <1>4, <1>5, <1>6, <1>7, <1>8, <1>9, <1>10, <1>11, <1>12,
    <1>13, <1>14, <1>15, <1>16, <1>17
  DEF Next, PollStep, BumpDeactivated, MainStep, WorkerStep, PollTop,
    SendReceipt, RecoverDone,
      GetUpdates, HandleUpdate, BumpGeneration, RaiseCancel, Reply,
      UpdatesDone, BatchEnd, DeactivateUnavailable, UnavailableDone,
      PollStorageFails, MarkersUnread, DeletionFails, LoadFails, HandlerFails,
        ReloadFails, DeactivationFails, Abandon, Pick, Throttle, Due,
        MainStops, Signal,
      ConfirmDeletion, Deactivate, FailRuntime, Marked, Queued, Register,
      StartMonitoring, Startable, StopMonitoring

\* Only Spawn and Receive change the set of live workers, each by one, and each
\* changes the count with it.
LEMMA CountedStep == IInv /\ Next => Counted'
<1> SUFFICES ASSUME IInv, Next PROVE Counted'
  OBVIOUS
<1> USE DEF IInv, TypeOK
<1>1. ASSUME NEW u \in Users, Spawn(u) PROVE Counted'
  <2>1. u \notin Live /\ Live' = Live \cup {u}
    BY <1>1 DEF Spawn, Startable, Queued, Live, WorkersOK
  <2>2. IsFiniteSet(Live') /\ Cardinality(Live') = Cardinality(Live) + 1
    BY <2>1, FS_AddElement DEF Counted
  <2>3. running' = running + 1 /\ running < MaxWorkers /\ main' = "round"
    BY <1>1 DEF Spawn, Startable
  <2> QED
    BY <2>2, <2>3 DEF Counted, CountersOK
<1>2. ASSUME NEW u \in Users, Receive(u) PROVE Counted'
  <2>1. u \in Live /\ Live' = Live \ {u}
    BY <1>2 DEF Receive, Live, WorkersOK
  <2>2. IsFiniteSet(Live') /\ Cardinality(Live') = Cardinality(Live) - 1
    BY <2>1, FS_RemoveElement DEF Counted
  <2>3. running' = running - 1 /\ main' \in {"round", "stopping"}
    BY <1>2 DEF Receive
  <2> QED
    BY <2>2, <2>3 DEF Counted, CountersOK
<1>3. CASE PassEnd
  <2>1. Live = {}
    BY <1>3, AllIdle DEF PassEnd, Live
  <2> QED
    BY <1>3, <2>1 DEF PassEnd, Counted, Live
<1>4. CASE Crash \/ Restart
  <2>1. Live' = {} /\ running' = 0
    <3>1. CASE Crash
      BY <3>1 DEF Crash, Live
    <3>2. CASE Restart
      <4>1. Live = {} /\ running = 0
        BY <3>2, FS_EmptySet DEF Restart, Counted
      <4> QED
        BY <3>2, <4>1 DEF Restart, Live
    <3> QED
      BY <1>4, <3>1, <3>2
  <2>2. IsFiniteSet(Live') /\ Cardinality(Live') = 0
    BY <2>1, FS_EmptySet
  <2> QED
    BY <2>1, <2>2 DEF Counted
<1>5. ASSUME NEW u \in Users,
             WorkerBegin(u) \/ SendAccepted(u) \/ SendFailed(u)
             \/ Acknowledge(u) \/ WorkerStorageFails(u) \/ Report(u)
      PROVE  Counted'
  <2>1. Live' = Live
    BY <1>5 DEF WorkerBegin, SendAccepted, SendFailed, Acknowledge,
      WorkerStorageFails, Report, Return, Live, WorkersOK
  <2>2. running' = running /\ main' = main
    BY <1>5 DEF WorkerBegin, SendAccepted, SendFailed, Acknowledge,
      WorkerStorageFails, Report
  <2> QED
    BY <2>1, <2>2 DEF Counted
<1>6. CASE main' \in {"round", "classify", "check", "stopping"}
           /\ UNCHANGED <<worker, running>>
  <2>1. Live' = Live
    BY <1>6 DEF Live
  <2> QED
    BY <1>6, <2>1 DEF Counted
<1>7. CASE MainStops
  BY <1>7 DEF MainStops, Counted, Live
<1>8. CASE UNCHANGED <<worker, running, main>>
  BY <1>8 DEF Counted, Live
<1>9. CASE BeginPass \/ NoticeStop \/ CheckWaiting \/ Classify
           \/ MainStorageFails
  BY <1>6, <1>9 DEF BeginPass, NoticeStop, CheckWaiting, Classify,
    MainStorageFails
<1>10. ASSUME NEW u \in Users, Pick(u) PROVE Counted'
  BY <1>6, <1>10 DEF Pick
<1> QED
  BY <1>1, <1>2, <1>3, <1>4, <1>5, <1>7, <1>8, <1>9, <1>10
  DEF Next, PollStep, BumpDeactivated, MainStep, WorkerStep, PollTop,
    CompleteDeletion,
      SendReceipt, RecoverDone, GetUpdates, HandleUpdate, BumpGeneration,
      RaiseCancel, Reply, UpdatesDone, BatchEnd, DeactivateUnavailable,
      UnavailableDone, PollStorageFails, MarkersUnread, DeletionFails,
        LoadFails, HandlerFails, ReloadFails, DeactivationFails, Abandon,
        Throttle, Due, Signal,
      ConfirmDeletion, Deactivate, FailRuntime, Marked, Queued, Register,
      StartMonitoring, Startable, StopMonitoring

-----------------------------------------------------------------------------
(* The theorems *)

\* IInv is inductive.
LEMMA NextIInv == IInv /\ [Next]_vars => IInv'
<1> SUFFICES ASSUME IInv, [Next]_vars PROVE IInv'
  OBVIOUS
<1>1. CASE Next
  <2>1. TypeOK'
    BY <1>1, RowsOKStep, JobsOKStep, WorkersOKStep, PollOKStep, CountersOKStep
    DEF TypeOK
  <2>2. GateOwned' /\ TodoMarked' /\ JobsPlaced' /\ LostStops' /\ FlagsRaised'
    BY <1>1, GateOwnedStep, TodoMarkedStep, JobsPlacedStep, LostStopsStep,
      FlagsRaisedStep
  <2>3. ChecksFresh' /\ Counted'
    BY <1>1, ChecksFreshStep, CountedStep
  <2>4. DeletedLeavesNothing' /\ AcknowledgesWhatItRead' /\ ItemInFlightHasRow'
    BY <1>1, DeletedLeavesNothingStep, AcknowledgesWhatItReadStep,
      ItemInFlightHasRowStep
  <2> QED
    BY <2>1, <2>2, <2>3, <2>4 DEF IInv
<1>2. CASE UNCHANGED vars
  BY <1>2 DEF vars, IInv, TypeOK, RowsOK, JobsOK, WorkersOK, PollOK,
    CountersOK, GateOwned, TodoMarked, JobsPlaced, LostStops, FlagsRaised,
    ChecksFresh,
    Counted, DeletedLeavesNothing, AcknowledgesWhatItRead, ItemInFlightHasRow,
    Live, Queued, Eligible
<1> QED
  BY <1>1, <1>2

\* Every reachable state of one or more process lifetimes satisfies IInv.
THEOREM Invariance == Spec => []IInv
  BY InitIInv, NextIInv, PTL DEF Spec

\* Every variable keeps its type, for any recipients and any bounds.
THEOREM TypeCorrect == Spec => []TypeOK
<1>1. IInv => TypeOK
  BY DEF IInv
<1> QED
  BY <1>1, Invariance, PTL

\* delete_user_data is final: no worker, classification or late acknowledgement
\* brings private rows of a deleted user back.
THEOREM DeletionIsFinal == Spec => []DeletedLeavesNothing
<1>1. IInv => DeletedLeavesNothing
  BY DEF IInv
<1> QED
  BY <1>1, Invariance, PTL

\* The gate makes read, send and acknowledgement of a worker one unit for the
\* deletion of its user.
THEOREM AcknowledgementMatchesRead == Spec => []AcknowledgesWhatItRead
<1>1. IInv => AcknowledgesWhatItRead
  BY DEF IInv
<1> QED
  BY <1>1, Invariance, PTL

\* The temp table keeps the row of a listing until its worker is done with it.
THEOREM BatchCoversFlight == Spec => []ItemInFlightHasRow
<1>1. IInv => ItemInFlightHasRow
  BY DEF IInv
<1> QED
  BY <1>1, Invariance, PTL

\* A deletion that comes for the gate finds the flag of the user's send raised
\* (poll_thread, recover_deletions), unless the recipient could not be read back
\* after its own confirmation: then the batch ends with the runtime stopped.
THEOREM DeletionDrains == Spec => []DeletionCancelsSends
<1>1. IInv => DeletionCancelsSends
  BY UsersAssumption DEF IInv, TypeOK, PollOK, TodoMarked, LostStops,
    FlagsRaised, DeletionCancelsSends
<1> QED
  BY <1>1, Invariance, PTL

\* Sends never exceed the worker limit, and no pass or process ends over a
\* worker that has not been received.
THEOREM WorkersBounded == Spec => []WorkersCounted
<1>1. IInv => WorkersCounted
  BY DEF IInv, Counted, Live, WorkersCounted
<1> QED
  BY <1>1, Invariance, PTL

\* The generation check never takes an ineligible waiting recipient for checked
\* (wait_for_recipient_turn), unless its change was committed and could not be
\* read back: then the batch ends with the runtime stopped.
THEOREM ChecksAreFresh == Spec => []CheckedMeansEligible
<1>1. IInv => CheckedMeansEligible
  BY UsersAssumption DEF IInv, ChecksFresh, LostStops, CheckedMeansEligible,
    Queued
<1> QED
  BY <1>1, Invariance, PTL

\* While the process lives, every accepted listing is acknowledged, a user under
\* deletion and a failed storage excepted.
THEOREM ShutdownDrains == Spec => AcceptedIsAcknowledged
<1> DEFINE Drained(u) ==
      worker[u] = "accepted" /\ worker'[u] = "retiring" =>
        batch'[u] = batch[u] - 1 \/ user[u] = "marked" \/ result'[u] = "fail"
<1>1. ASSUME IInv, Next, NEW u \in Users PROVE Drained(u)
  <2> USE <1>1 DEF IInv, TypeOK
  <2>1. ASSUME NEW v \in Users, Acknowledge(v) PROVE Drained(u)
    <3>1. CASE u = v
      BY <2>1, <3>1 DEF Acknowledge, AwaitsAck, Return,
        AcknowledgesWhatItRead, RowsOK, WorkersOK, CountersOK
    <3>2. CASE u # v
      BY <2>1, <3>2 DEF Acknowledge, Return, WorkersOK
    <3> QED
      BY <3>1, <3>2
  <2>2. ASSUME NEW v \in Users, WorkerStorageFails(v) PROVE Drained(u)
    BY <2>2 DEF WorkerStorageFails, Return, WorkersOK
  <2>3. ASSUME NEW v \in Users,
               WorkerBegin(v) \/ SendAccepted(v) \/ SendFailed(v) \/ Report(v)
        PROVE  Drained(u)
    BY <2>3 DEF WorkerBegin, SendAccepted, SendFailed, Report, Return, WorkersOK
  <2>4. ASSUME NEW v \in Users, Receive(v) \/ Spawn(v) PROVE Drained(u)
    BY <2>4 DEF Receive, Spawn, WorkersOK
  <2>5. CASE Crash \/ Restart
    BY <2>5 DEF Crash, Restart
  <2>6. CASE UNCHANGED worker
    BY <2>6
  <2> QED
    BY <2>1, <2>2, <2>3, <2>4, <2>5, <2>6
    DEF Next, PollStep, BumpDeactivated, MainStep, WorkerStep, PollTop,
      CompleteDeletion,
      SendReceipt, RecoverDone, GetUpdates, HandleUpdate, BumpGeneration,
      RaiseCancel, Reply, UpdatesDone, BatchEnd, DeactivateUnavailable,
      UnavailableDone, PollStorageFails, MarkersUnread, DeletionFails,
        LoadFails, HandlerFails, ReloadFails, DeactivationFails, Abandon,
        BeginPass, NoticeStop, Pick,
      CheckWaiting, Classify, MainStorageFails, Throttle, Due, PassEnd,
      MainStops, Signal, ConfirmDeletion, Deactivate, Drop, Eligible,
      FailRuntime, Marked, Queued, Register, StartMonitoring, Startable,
      StopMonitoring
<1>2. IInv /\ [Next]_vars =>
        [\A u \in Users : Drained(u)]_vars
  BY <1>1
<1> QED
  BY <1>2, Invariance, PTL DEF Spec, AcceptedIsAcknowledged
=============================================================================
