----------------------------- MODULE Selection -----------------------------
(***************************************************************************)
(* What one private recipient is sent: the decisions, the work rows and    *)
(* the cursor kept in SQLite (storage.rs), the classification that reads   *)
(* them after a crawl (private.rs), the sends that acknowledge them        *)
(* (runtime.rs), and the handlers of the poll thread that change them      *)
(* meanwhile (bot.rs).                                                     *)
(*                                                                         *)
(* Each SQLite transaction is a step, so a crash can fall between any two. *)
(* Classification and a handler hold the database mutex from their first   *)
(* transaction to their last; a send does not hold it.                     *)
(*                                                                         *)
(* Time is abstracted to what the code asks of it: is a listing posted or  *)
(* changed within 24 hours, and was it changed after its decision.         *)
(***************************************************************************)
EXTENDS Naturals, FiniteSets

CONSTANTS
  Listings,
  Filters,         \* filters the user may set
  None,            \* no listing, or no filter yet
  Limit,           \* INITIAL_DELIVERY_LIMIT
  CrashesHappen    \* may the process die

ASSUME ListingsAssumption ==
  IsFiniteSet(Listings) /\ None \notin Listings /\ None \notin Filters
ASSUME LimitAssumption == Limit \in Nat /\ CrashesHappen \in BOOLEAN

VARIABLES
  \* listings
  known,       \* stored by some crawl
  admitted,    \* the filters each one matches
  recent,      \* posted or changed within 24 hours
  changed,     \* changed after its decision and within 24 hours
  \* telegram_users
  active, initial, filter,
  \* private_recipients, private_delivery_decisions, private_delivery_work
  applied,     \* initial_selection_applied
  prepared,    \* filter_fingerprint, None while there is no cursor
  unseen,      \* listings whose changed_sequence is past source_cursor
  decision, work,
  \* the pass
  pc, candidates, renewed, batch, item,
  \* the poll thread
  handler,
  \* history
  answered,    \* a start answer is saved and its selection not yet applied
  sent,        \* Telegram accepted it and the source has not changed it since
  rejected,    \* rejected by a filter, and neither changed nor asked for since
  backlog      \* there when the user asked for new listings only

listings  == <<known, admitted, recent, changed>>
userRow   == <<active, initial, filter>>
recipient == <<applied, prepared, unseen, decision, work>>
pass      == <<pc, candidates, renewed, batch, item>>
history   == <<answered, sent, rejected, backlog>>
vars == <<listings, userRow, recipient, pass, handler, history>>

Decisions == {"none", "notified", "skipped", "filtered"}

TypeOK ==
  /\ known \in SUBSET Listings /\ admitted \in [Listings -> SUBSET Filters]
  /\ recent \in [Listings -> BOOLEAN] /\ changed \in [Listings -> BOOLEAN]
  /\ active \in BOOLEAN /\ initial \in BOOLEAN /\ filter \in Filters
  /\ applied \in BOOLEAN /\ prepared \in Filters \cup {None}
  /\ unseen \in SUBSET known /\ work \in SUBSET known
  /\ decision \in [Listings -> Decisions]
  /\ pc \in {"crawl", "select", "readmit", "filter", "retain", "deliver",
             "sending", "accepted"}
  /\ candidates \in SUBSET known /\ renewed \in SUBSET candidates
  /\ batch \in SUBSET work
  /\ pc \in {"sending", "accepted"} => item \in batch
  /\ handler \in {"idle", "request"}
  /\ answered \in BOOLEAN /\ sent \in SUBSET known
  /\ rejected \in SUBSET known /\ backlog \in SUBSET known

Init ==
  /\ known = {} /\ admitted = [l \in Listings |-> {}]
  /\ recent = [l \in Listings |-> FALSE]
  /\ changed = [l \in Listings |-> FALSE]
  /\ active = FALSE /\ initial \in BOOLEAN /\ filter \in Filters
  /\ applied = FALSE /\ prepared = None
  /\ unseen = {} /\ work = {}
  /\ decision = [l \in Listings |-> "none"]
  /\ pc = "crawl" /\ candidates = {} /\ renewed = {} /\ batch = {}
  /\ item = None /\ handler = "idle"
  /\ answered = FALSE /\ sent = {} /\ rejected = {} /\ backlog = {}

Matches(l) == filter \in admitted[l]

\* decided_at is now: no change is later
Decide(D, status) ==
  /\ decision' = [l \in Listings |-> IF l \in D THEN status[l] ELSE decision[l]]
  /\ changed' = [l \in Listings |-> changed[l] /\ l \notin D]
  /\ rejected' = rejected \cup {l \in D : status[l] = "filtered"}

Unlocked == handler = "idle"   \* the poll thread does not hold the database

-----------------------------------------------------------------------------
(* The source *)

\* commit_crawl stores a new listing, recent or not, or a changed one
Commit(l) ==
  /\ pc = "crawl" /\ Unlocked
  /\ known' = known \cup {l}
  /\ \E fs \in SUBSET Filters : admitted' = [admitted EXCEPT ![l] = fs]
  /\ \E r \in BOOLEAN :
       /\ l \in known => r
       /\ recent' = [recent EXCEPT ![l] = r]
  /\ changed' = [changed EXCEPT ![l] = decision[l] # "none"]
  /\ unseen' = unseen \cup {l}
  /\ sent' = sent \ {l} /\ rejected' = rejected \ {l}
  /\ backlog' = backlog \ {l}
  /\ UNCHANGED <<userRow, pass, applied, prepared, decision, work, handler,
                 answered>>

\* 24 hours pass; a classification works with one value of the clock
Age(l) ==
  /\ recent[l] /\ pc \in {"crawl", "deliver", "sending", "accepted"}
  /\ recent' = [recent EXCEPT ![l] = FALSE]
  /\ changed' = [changed EXCEPT ![l] = FALSE]
  /\ UNCHANGED <<userRow, recipient, pass, handler, history, known, admitted>>

-----------------------------------------------------------------------------
(* Classification *)

\* load_private_candidates: work rows, cursor and fingerprint move together.
\* Of the notified listings the code also enqueues those changed before their
\* decision; RetainPending would take them out again.
Prepare ==
  /\ pc = "crawl" /\ active /\ Unlocked
  /\ work' = work \cup
       IF prepared # filter \/ ~applied
       THEN {l \in known :
               \/ decision[l] = "none"
               \/ decision[l] = "filtered" /\ Matches(l)
               \/ decision[l] = "notified" /\ changed[l]}
       ELSE unseen
  /\ candidates' = work' /\ renewed' = {}
  /\ unseen' = {} /\ prepared' = filter
  /\ pc' = IF ~applied /\ known # {} THEN "select" ELSE "readmit"
  /\ UNCHANGED <<listings, userRow, history, applied, decision, batch, item,
                 handler>>

Unmatched(l) == decision[l] = "none" /\ ~Matches(l)

Selectable(l) ==
  decision[l] \notin {"notified", "skipped"} /\ Matches(l) /\ recent[l]

\* initialize_selection: the newest listings up to the limit are released, the
\* others that match are skipped, those that do not are filtered
Select ==
  /\ pc = "select" /\ pc' = "readmit"
  /\ LET selectable == {l \in candidates : Selectable(l)}
         limit == IF initial THEN Limit ELSE 0
     IN \E selected \in SUBSET selectable :
          /\ \/ Cardinality(selected) = limit
             \/ Cardinality(selected) < limit /\ selected = selectable
          /\ LET released == {l \in selected : decision[l] = "filtered"}
                 skipped  == selectable \ selected
                 filtered == {l \in candidates : Unmatched(l)}
             IN Decide(released \cup skipped \cup filtered,
                       [l \in Listings |->
                          CASE l \in skipped -> "skipped"
                            [] l \in filtered -> "filtered"
                            [] OTHER -> "none"])
  /\ applied' = TRUE /\ answered' = FALSE
  /\ UNCHANGED <<known, admitted, recent, userRow, prepared, unseen, work,
                 candidates, renewed, batch, item, handler, sent, backlog>>

\* mutant: a match is enough
ReadmittableByFilter(l) == decision[l] = "filtered" /\ Matches(l)
Readmittable(l) == decision[l] = "filtered" /\ changed[l] /\ Matches(l)

\* remove_filtered_decision replaces the work row under a new id
Readmit(l) ==
  /\ pc = "readmit" /\ l \in candidates /\ Readmittable(l)
  /\ decision' = [decision EXCEPT ![l] = "none"]
  /\ renewed' = renewed \cup {l}
  /\ UNCHANGED <<listings, userRow, history, applied, prepared, unseen, work,
                 pc, candidates, batch, item, handler>>

ReadmitDone ==
  /\ pc = "readmit" /\ ~\E l \in candidates : Readmittable(l)
  /\ pc' = "filter"
  /\ UNCHANGED <<listings, userRow, recipient, history, candidates, renewed,
                 batch, item, handler>>

\* classify_private
Filter ==
  /\ pc = "filter" /\ pc' = "retain"
  /\ Decide({l \in candidates : Unmatched(l)},
            [l \in Listings |-> "filtered"])
  /\ UNCHANGED <<known, admitted, recent, userRow, applied, prepared, unseen,
                 work, candidates, renewed, batch, item, handler, answered,
                 sent, backlog>>

\* mutant: a delivered listing is delivered as long as it matches
PendingAgain(l) ==
  /\ recent[l]
  /\ \/ decision[l] = "none"
     \/ decision[l] = "notified" /\ Matches(l)
Pending(l) ==
  /\ recent[l]
  /\ \/ decision[l] = "none"
     \/ decision[l] = "notified" /\ changed[l] /\ Matches(l)

\* retain_pending deletes the other rows by the ids it loaded, which misses the
\* renewed ones; prepare_batch then fills the temp table
RetainPending ==
  /\ pc = "retain"
  /\ LET pending == {l \in candidates : Pending(l)}
     IN /\ work' = work \ (candidates \ (pending \cup renewed))
        /\ batch' = pending
        /\ pc' = IF pending = {} THEN "crawl" ELSE "deliver"
  /\ UNCHANGED <<listings, userRow, history, applied, prepared, unseen,
                 decision, candidates, renewed, item, handler>>

-----------------------------------------------------------------------------
(* Delivery *)

\* the worker reads the user and the next row
Begin(l) ==
  /\ pc = "deliver" /\ active /\ Unlocked
  /\ l \in batch
  /\ item' = l /\ pc' = "sending"
  /\ UNCHANGED <<listings, userRow, recipient, history, candidates, renewed,
                 batch, handler>>

Accept ==
  /\ pc = "sending" /\ pc' = "accepted"
  /\ sent' = sent \cup {item}
  /\ UNCHANGED <<listings, userRow, recipient, candidates, renewed, batch,
                 item, handler, answered, rejected, backlog>>

\* tried again, given up, or refused for good: deactivate
SendFails ==
  /\ pc = "sending" /\ Unlocked
  /\ \/ pc' = "deliver" /\ UNCHANGED <<batch, active, answered>>
     \/ pc' = "crawl" /\ batch' = {} /\ UNCHANGED <<active, answered>>
     \/ pc' = "crawl" /\ batch' = {} /\ active' = FALSE /\ answered' = FALSE
  /\ item' = None
  /\ UNCHANGED <<listings, recipient, initial, filter, candidates, renewed,
                 handler, sent, rejected, backlog>>

\* acknowledge_batch_item: the decision, the work row by the id the batch has,
\* and the batch row
Acknowledge ==
  /\ pc = "accepted" /\ Unlocked
  /\ decision' = [decision EXCEPT ![item] = "notified"]
  /\ changed' = [changed EXCEPT ![item] = FALSE]
  /\ work' = work \ ({item} \ renewed)
  /\ batch' = batch \ {item}
  /\ item' = None /\ pc' = "deliver"
  /\ UNCHANGED <<known, admitted, recent, userRow, applied, prepared, unseen,
                 candidates, renewed, handler, history>>

\* the batch is empty, its recipient is not active, or the process is stopping
PassEnds ==
  /\ pc = "deliver" /\ Unlocked
  /\ pc' = "crawl" /\ batch' = {}
  /\ UNCHANGED <<listings, userRow, recipient, history, candidates, renewed,
                 item, handler>>

-----------------------------------------------------------------------------
(* Handlers of the poll thread *)

Handling == Unlocked /\ pc \in {"crawl", "deliver", "sending", "accepted"}

\* m:start:initial or m:start:new: save_telegram commits the answer with the
\* update offset
StartAnswer(all) ==
  /\ Handling
  /\ active' = TRUE /\ initial' = all
  /\ answered' = TRUE
  /\ rejected' = IF all THEN {} ELSE rejected
  /\ backlog' = IF all THEN {} ELSE {l \in known : Matches(l)}
  /\ handler' = "request"
  /\ UNCHANGED <<listings, recipient, pass, filter, sent>>

RequestSelection ==
  /\ handler = "request" /\ handler' = "idle"
  /\ applied' = FALSE
  /\ UNCHANGED <<listings, userRow, pass, history, prepared, unseen, decision,
                 work>>

Stop ==
  /\ Handling /\ active
  /\ active' = FALSE /\ answered' = FALSE
  /\ UNCHANGED <<listings, recipient, pass, initial, filter, handler, sent,
                 rejected, backlog>>

ChangeFilter(f) ==
  /\ Handling /\ f # filter
  /\ filter' = f
  /\ UNCHANGED <<listings, recipient, pass, active, initial, handler, history>>

\* history_ids: computed again when the offer is answered, newest first
Offered(ids) ==
  LET all == {l \in known : decision[l] = "filtered" /\ Matches(l) /\ recent[l]}
  IN /\ ids \in SUBSET all
     /\ Cardinality(ids) = Limit \/ (Cardinality(ids) < Limit /\ ids = all)

\* mutant: the accepted listings are not enqueued
AcceptHistoryOnly(ids) ==
  /\ Handling /\ active /\ Offered(ids)
  /\ decision' = [l \in Listings |-> IF l \in ids THEN "none" ELSE decision[l]]
  /\ changed' = [l \in Listings |-> changed[l] /\ l \notin ids]
  /\ rejected' = rejected \ ids /\ backlog' = backlog \ ids
  /\ UNCHANGED <<known, admitted, recent, userRow, pass, applied, prepared,
                 unseen, work, handler, answered, sent>>

AcceptHistory(ids) ==
  /\ Handling /\ active /\ Offered(ids)
  /\ decision' = [l \in Listings |-> IF l \in ids THEN "none" ELSE decision[l]]
  /\ changed' = [l \in Listings |-> changed[l] /\ l \notin ids]
  /\ work' = work \cup ids
  /\ rejected' = rejected \ ids /\ backlog' = backlog \ ids
  /\ UNCHANGED <<known, admitted, recent, userRow, pass, applied, prepared,
                 unseen, handler, answered, sent>>

DeclineHistory(ids) ==
  /\ Handling /\ active /\ Offered(ids)
  /\ Decide(ids, [l \in Listings |-> "skipped"])
  /\ UNCHANGED <<known, admitted, recent, userRow, pass, applied, prepared,
                 unseen, work, handler, answered, sent, backlog>>

-----------------------------------------------------------------------------

\* the temp table is gone; what was sent and not acknowledged may be sent again
Crash ==
  /\ CrashesHappen
  /\ pc' = "crawl" /\ batch' = {} /\ item' = None /\ handler' = "idle"
  /\ candidates' = {} /\ renewed' = {}
  /\ sent' = IF pc = "accepted" THEN sent \ {item} ELSE sent
  /\ UNCHANGED <<listings, userRow, recipient, answered, rejected, backlog>>

Classify ==
  \/ Prepare \/ Select \/ ReadmitDone \/ Filter \/ RetainPending
  \/ \E l \in Listings : Readmit(l)

Deliver ==
  \/ Accept \/ SendFails \/ Acknowledge \/ PassEnds
  \/ \E l \in Listings : Begin(l)

Handle ==
  \/ RequestSelection \/ Stop
  \/ \E all \in BOOLEAN : StartAnswer(all)
  \/ \E f \in Filters : ChangeFilter(f)
  \/ \E ids \in SUBSET Listings : AcceptHistory(ids) \/ DeclineHistory(ids)

Next ==
  \/ Classify \/ Deliver \/ Handle \/ Crash
  \/ \E l \in Listings : Commit(l) \/ Age(l)

Spec == Init /\ [][Next]_vars

-----------------------------------------------------------------------------
\* No listing falls through: once the selection is applied, whatever is recent,
\* matches and is undecided has a work row or is ahead of the cursor, whichever
\* transactions a crash cut off.
NothingLost ==
  applied /\ prepared = filter =>
    \A l \in known :
      decision[l] = "none" /\ recent[l] /\ Matches(l) => l \in work \cup unseen

\* Declined listings are never released, not by a later start, filter or change
\* of the source, nor by a send that was under way.
DeclinedForGood ==
  [][\A l \in Listings : decision[l] = "skipped" => decision'[l] = "skipped"]_vars

Sends(l) == pc = "sending" /\ pc' = "accepted" /\ item = l

\* A listing is sent once, and again only after the source changed it; a crash
\* between Telegram's answer and the acknowledgement is the exception.
SentOncePerChange == [][\A l \in sent : ~Sends(l)]_vars

\* Changing a filter releases nothing: what a filter rejected is sent only after
\* the source changed it, or the user accepted it or asked for a new selection.
FilterReleasesNothing == [][\A l \in rejected : ~Sends(l)]_vars

\* The answer to a start is applied at the next crawl (README.md:62).  It is not
\* when a crash separates the answer from the request for the selection.
AnswerStands == answered /\ handler = "idle" => ~applied

\* Once the user has asked to begin with new listings only, no send of what was
\* there begins (README.md:60).  A pass that is under way goes on with its rows.
NewOnlySendsNew ==
  [][\A l \in backlog : ~(pc = "deliver" /\ pc' = "sending" /\ item' = l)]_vars

-----------------------------------------------------------------------------
(* What the tables stand for *)

Phase == [l \in Listings |->
  IF l \notin known THEN "absent"
  ELSE CASE decision[l] = "none" -> "waiting" [] decision[l] = "notified" -> "sent"
         [] decision[l] = "filtered" -> "rejected" [] OTHER -> "declined"]

Promise == INSTANCE Outbox WITH
  phase <- Phase, fresh <- changed, due <- batch, flying <- item, asked <- ~applied

\* Whatever a crash cuts off and whoever comes in between, a listing moves only
\* as promised: it is released by a change or by the recipient, sent when it
\* waits or has changed, and a declined one rests.
ImplementsOutbox == Promise!Spec
=============================================================================
