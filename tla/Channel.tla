------------------------------ MODULE Channel ------------------------------
(***************************************************************************)
(* Publication to the public channel: the decisions, work rows and cursor  *)
(* in SQLite (channel.rs), and the loop that loads a page of operations,   *)
(* sends them one by one and acknowledges each (runtime.rs,                *)
(* channel_delivery).  A crawl and a publication follow each other, so the *)
(* source does not change under a publication; the clock does.             *)
(*                                                                         *)
(* Time is abstracted to the code's comparisons: posted within 24 hours;   *)
(* seen, or changed, after the decision and within 24 hours; published     *)
(* more than 72 hours ago.  A message is the text it shows.                *)
(***************************************************************************)
EXTENDS Naturals, FiniteSets

CONSTANTS
  Listings,
  Filters,   \* channel filters an operator may configure
  Texts,     \* messages a listing may be formatted to
  None,      \* no cursor, no message, no listing
  Limit,     \* INITIAL_DELIVERY_LIMIT
  PageSize   \* 100 in the code

ASSUME ListingsAssumption == IsFiniteSet(Listings) /\ None \notin Listings
ASSUME DataAssumption == None \notin Filters /\ None \notin Texts
ASSUME SizesAssumption == Limit \in Nat /\ PageSize \in Nat \ {0}

VARIABLES
  \* listings
  known,     \* stored by some crawl
  admitted,  \* the filters each one matches
  text,      \* the message it is formatted to
  posted, seen, changed,   \* the three comparisons with 24 hours
  \* channel_state, channel_deliveries, channel_work
  prepared,  \* filter_fingerprint, None before the first run
  unseen,    \* changed_sequence is past source_sequence
  again,     \* encounter_sequence is past source_sequence
  status,    \* none, pending, published, filtered, skipped
  hash,      \* the text of the acknowledged message, None if never published
  old,       \* published more than 72 hours ago
  work,
  \* the process
  filter,
  mode,      \* running, stopping, down
  pc,
  ahead,     \* work rows past the page cursor
  page,      \* rows of the page not looked at yet
  plan,      \* operations of the page: none, send, repost, edit, replace
  item,
  \* Telegram
  shown      \* what the message the database knows shows, None if there is none

listings == <<known, admitted, text, posted, seen, changed>>
cursor   == <<prepared, unseen, again>>
entries  == <<status, hash, old>>
process  == <<filter, mode>>
loop     == <<pc, ahead, page, plan, item>>
vars == <<listings, cursor, entries, work, process, loop, shown>>

Kinds == {"none", "send", "repost", "edit", "replace"}

TypeOK ==
  /\ known \in SUBSET Listings /\ admitted \in [Listings -> SUBSET Filters]
  /\ text \in [Listings -> Texts]
  /\ posted \in [Listings -> BOOLEAN] /\ seen \in [Listings -> BOOLEAN]
  /\ changed \in [Listings -> BOOLEAN]
  /\ prepared \in Filters \cup {None}
  /\ unseen \in SUBSET known /\ again \in SUBSET known
  /\ status \in
       [Listings -> {"none", "pending", "published", "filtered", "skipped"}]
  /\ hash \in [Listings -> Texts \cup {None}] /\ old \in [Listings -> BOOLEAN]
  /\ work \in SUBSET known
  /\ filter \in Filters /\ mode \in {"running", "stopping", "down"}
  /\ pc \in {"crawl", "page", "load", "send", "call", "accepted"}
  /\ ahead \in SUBSET work /\ page \in SUBSET work
  /\ plan \in [Listings -> Kinds]
  /\ \A l \in Listings : plan[l] # "none" => l \in work
  /\ pc \in {"call", "accepted"} => item \in work /\ plan[item] # "none"
  /\ shown \in [Listings -> Texts \cup {None}]

NoPlan == [l \in Listings |-> "none"]

Init ==
  /\ known = {} /\ admitted = [l \in Listings |-> {}]
  /\ text \in [Listings -> Texts]
  /\ posted = [l \in Listings |-> FALSE] /\ seen = [l \in Listings |-> FALSE]
  /\ changed = [l \in Listings |-> FALSE]
  /\ prepared = None /\ unseen = {} /\ again = {}
  /\ status = [l \in Listings |-> "none"]
  /\ hash = [l \in Listings |-> None] /\ old = [l \in Listings |-> FALSE]
  /\ work = {}
  /\ filter \in Filters /\ mode = "running"
  /\ pc = "crawl" /\ ahead = {} /\ page = {} /\ plan = NoPlan /\ item = None
  /\ shown = [l \in Listings |-> None]

Matches(l) == filter \in admitted[l]
Idle == pc = "crawl" /\ mode = "running"

\* mutant: whatever changed is published anew
ReadmissibleAnyStatus(l) ==
  /\ Matches(l)
  /\ \/ status[l] = "skipped" /\ seen[l]
     \/ status[l] # "skipped" /\ (changed[l] \/ posted[l])

\* readmission
Readmissible(l) ==
  /\ Matches(l)
  /\ \/ status[l] = "skipped" /\ seen[l]
     \/ status[l] = "filtered" /\ (changed[l] \/ posted[l])

\* classified_at is now: nothing was seen or changed later
Classified(L) ==
  /\ seen' = [l \in Listings |-> seen[l] /\ l \notin L]
  /\ changed' = [l \in Listings |-> changed[l] /\ l \notin L]

-----------------------------------------------------------------------------
(* The source and the clock *)

\* commit_crawl: a new or changed listing
Commit(l) ==
  /\ Idle
  /\ known' = known \cup {l}
  /\ \E fs \in SUBSET Filters : admitted' = [admitted EXCEPT ![l] = fs]
  /\ \E t \in Texts : text' = [text EXCEPT ![l] = t]
  /\ \E p \in BOOLEAN : posted' = [posted EXCEPT ![l] = p]
  /\ seen' = [seen EXCEPT ![l] = status[l] # "none"]
  /\ changed' = [changed EXCEPT ![l] = status[l] # "none"]
  /\ unseen' = unseen \cup {l} /\ again' = again \cup {l}
  /\ UNCHANGED <<entries, work, process, loop, shown, prepared>>

\* commit_crawl: a listing met again as it was
Encounter(l) ==
  /\ Idle /\ l \in known
  /\ seen' = [seen EXCEPT ![l] = status[l] # "none"]
  /\ again' = again \cup {l}
  /\ UNCHANGED <<entries, work, process, loop, shown, known, admitted, text,
                 posted, changed, prepared, unseen>>

\* 24 hours since the last change and encounter, or 72 since the publication
Age(l) ==
  /\ \/ /\ posted[l] \/ seen[l] \/ changed[l]
        /\ posted' = [posted EXCEPT ![l] = FALSE]
        /\ seen' = [seen EXCEPT ![l] = FALSE]
        /\ changed' = [changed EXCEPT ![l] = FALSE]
        /\ UNCHANGED old
     \/ /\ status[l] = "published" /\ ~old[l]
        /\ old' = [old EXCEPT ![l] = TRUE]
        /\ UNCHANGED <<posted, seen, changed>>
  /\ UNCHANGED <<known, admitted, text, cursor, status, hash, work, process,
                 loop, shown>>

-----------------------------------------------------------------------------
(* prepare *)

\* the newest matches up to the limit become pending, the others are skipped,
\* and what does not match is filtered
PrepareFirst ==
  /\ Idle /\ prepared = None
  /\ LET matching == {l \in known : Matches(l)}
     IN \E selected \in SUBSET matching :
          /\ \/ Cardinality(selected) = Limit
             \/ Cardinality(selected) < Limit /\ selected = matching
          /\ status' = [l \in Listings |->
               IF l \in selected THEN "pending"
               ELSE IF l \in matching THEN "skipped"
               ELSE IF l \in known THEN "filtered" ELSE "none"]
          /\ work' = selected /\ ahead' = selected
  /\ Classified(known)
  /\ prepared' = filter /\ unseen' = {} /\ again' = {} /\ pc' = "page"
  /\ UNCHANGED <<process, known, admitted, text, posted, hash, old, page, plan,
                 item, shown>>

\* mutant: a new filter enqueues nothing
PrepareIgnoresFilter ==
  /\ Idle /\ prepared # None
  /\ work' = work \cup unseen \cup {l \in again : status[l] = "skipped"}
  /\ ahead' = work'
  /\ prepared' = filter /\ unseen' = {} /\ again' = {} /\ pc' = "page"
  /\ UNCHANGED <<listings, entries, process, page, plan, item, shown>>

\* what the source changed, what it showed again, and what a new filter admits
Prepare ==
  /\ Idle /\ prepared # None
  /\ work' = work \cup unseen \cup {l \in again : status[l] = "skipped"}
       \cup (IF prepared # filter THEN {l \in known : Readmissible(l)} ELSE {})
  /\ ahead' = work'
  /\ prepared' = filter /\ unseen' = {} /\ again' = {} /\ pc' = "page"
  /\ UNCHANGED <<listings, entries, process, page, plan, item, shown>>

-----------------------------------------------------------------------------
(* operations: every statement commits by itself *)

LoadPage ==
  /\ pc = "page" /\ ahead # {}
  /\ \E rows \in SUBSET ahead :
       /\ \/ Cardinality(rows) = PageSize
          \/ Cardinality(rows) < PageSize /\ rows = ahead
       /\ page' = rows /\ ahead' = ahead \ rows
  /\ pc' = "load"
  /\ UNCHANGED <<listings, cursor, entries, work, process, plan, item, shown>>

Enter(l) ==
  /\ pc = "load" /\ l \in page /\ status[l] = "none"
  /\ status' = [status EXCEPT ![l] = IF Matches(l) THEN "pending" ELSE "filtered"]
  /\ Classified({l})
  /\ UNCHANGED <<cursor, work, process, loop, shown, known, admitted, text,
                 posted, hash, old>>

\* readmission forgets the message
Readmit(l) ==
  /\ pc = "load" /\ l \in page /\ Readmissible(l)
  /\ status' = [status EXCEPT ![l] = "pending"]
  /\ hash' = [hash EXCEPT ![l] = None] /\ old' = [old EXCEPT ![l] = FALSE]
  /\ plan' = [plan EXCEPT ![l] = "send"]
  /\ page' = page \ {l}
  /\ UNCHANGED <<listings, cursor, work, process, shown, pc, ahead, item>>

Settled(l) ==
  \/ status[l] \in {"filtered", "skipped"}
  \/ status[l] = "published" /\ hash[l] = text[l]

Operation(l) ==
  IF status[l] = "pending" THEN "send" ELSE IF old[l] THEN "repost" ELSE "edit"

Examine(l) ==
  /\ pc = "load" /\ l \in page /\ status[l] # "none" /\ ~Readmissible(l)
  /\ page' = page \ {l}
  /\ \/ Settled(l) /\ work' = work \ {l} /\ UNCHANGED plan
     \/ ~Settled(l) /\ plan' = [plan EXCEPT ![l] = Operation(l)] /\ UNCHANGED work
  /\ UNCHANGED <<listings, cursor, entries, process, shown, pc, ahead, item>>

Loaded ==
  /\ pc = "load" /\ page = {} /\ pc' = "send"
  /\ UNCHANGED <<listings, cursor, entries, work, process, shown, ahead, page,
                 plan, item>>

-----------------------------------------------------------------------------
(* channel_delivery *)

\* the loop ends at once, and nothing of the page is kept
Leave == pc' = "crawl" /\ ahead' = {} /\ plan' = NoPlan /\ item' = None

Take(l) ==
  /\ pc = "send" /\ plan[l] # "none"
  /\ IF mode = "stopping"
     THEN Leave
     ELSE pc' = "call" /\ item' = l /\ UNCHANGED <<ahead, plan>>
  /\ UNCHANGED <<listings, cursor, entries, work, process, shown, page>>

Posting == plan[item] \in {"send", "repost", "replace"}

PostAccepted ==
  /\ pc = "call" /\ Posting /\ pc' = "accepted"
  /\ UNCHANGED <<listings, cursor, entries, work, process, shown, ahead, page,
                 plan, item>>

\* a message that shows the text already counts as edited
EditAccepted ==
  /\ pc = "call" /\ plan[item] = "edit" /\ shown[item] # None
  /\ shown' = [shown EXCEPT ![item] = text[item]]
  /\ pc' = "accepted"
  /\ UNCHANGED <<listings, cursor, entries, work, process, ahead, page, plan,
                 item>>

EditMissing ==
  /\ pc = "call" /\ plan[item] = "edit" /\ shown[item] = None
  /\ plan' = [plan EXCEPT ![item] = "replace"]
  /\ UNCHANGED <<listings, cursor, entries, work, process, shown, pc, ahead,
                 page, item>>

Onward == plan' = [plan EXCEPT ![item] = "none"] /\ item' = None /\ pc' = "send"

\* mutant: the first failure ends the publication
CallFailsAll ==
  /\ pc = "call" /\ Leave
  /\ UNCHANGED <<listings, cursor, entries, work, process, shown, page>>

\* the attempts are used up, or the reply to an edit was lost; the row stays
CallFails ==
  /\ pc = "call" /\ Onward
  /\ \/ UNCHANGED shown
     \/ /\ plan[item] = "edit" /\ shown[item] # None
        /\ shown' = [shown EXCEPT ![item] = text[item]]
  /\ UNCHANGED <<listings, cursor, entries, work, process, ahead, page>>

\* the channel is closed to the bot: fail_runtime
Refused ==
  /\ pc = "call" /\ Leave
  /\ mode' = "stopping"
  /\ UNCHANGED <<listings, cursor, entries, work, filter, shown, page>>

\* a replaced message keeps its age
Acknowledge ==
  /\ pc = "accepted"
  /\ IF mode = "stopping"
     THEN Leave /\ UNCHANGED <<entries, work, shown>>
     ELSE /\ Onward /\ UNCHANGED ahead
          /\ status' = [status EXCEPT ![item] = "published"]
          /\ hash' = [hash EXCEPT ![item] = text[item]]
          /\ old' = [old EXCEPT ![item] = @ /\ plan[item] \in {"edit", "replace"}]
          /\ shown' = IF Posting THEN [shown EXCEPT ![item] = text[item]]
                                 ELSE shown
          /\ work' = work \ {item}
  /\ UNCHANGED <<listings, cursor, process, page>>

PageDone ==
  /\ pc = "send" /\ plan = NoPlan /\ pc' = "page"
  /\ UNCHANGED <<listings, cursor, entries, work, process, shown, ahead, page,
                 plan, item>>

PassDone ==
  /\ pc = "page" /\ ahead = {} /\ pc' = "crawl"
  /\ UNCHANGED <<listings, cursor, entries, work, process, shown, ahead, page,
                 plan, item>>

-----------------------------------------------------------------------------
(* The surroundings *)

\* a subscriber cannot, but an administrator of the channel can
Delete(l) ==
  /\ shown[l] # None
  /\ shown' = [shown EXCEPT ![l] = None]
  /\ UNCHANGED <<listings, cursor, entries, work, process, loop>>

Signal ==
  /\ mode = "running" /\ mode' = "stopping"
  /\ UNCHANGED <<listings, cursor, entries, work, loop, shown, filter>>

\* a crash at any point, or the end of a process that stops
Exit ==
  /\ mode # "down" /\ mode' = "down"
  /\ Leave /\ page' = {}
  /\ UNCHANGED <<listings, cursor, entries, work, filter, shown>>

\* the configuration may have changed
Restart ==
  /\ mode = "down" /\ mode' = "running" /\ filter' \in Filters
  /\ UNCHANGED <<listings, cursor, entries, work, loop, shown>>

Publish ==
  \/ PrepareFirst \/ Prepare \/ LoadPage \/ Loaded \/ PageDone \/ PassDone
  \/ PostAccepted \/ EditAccepted \/ EditMissing \/ CallFails \/ Refused
  \/ Acknowledge
  \/ \E l \in Listings : Enter(l) \/ Readmit(l) \/ Examine(l) \/ Take(l)

Next ==
  \/ Publish \/ Signal \/ Exit \/ Restart
  \/ \E l \in Listings : Commit(l) \/ Encounter(l) \/ Age(l) \/ Delete(l)

Spec == Init /\ [][Next]_vars

\* A process that runs goes on, and in the end one is left running.
Fairness == WF_vars(Publish) /\ <>[](mode = "running")
FairSpec == Spec /\ Fairness

-----------------------------------------------------------------------------
\* No work is forgotten: whatever is undecided, waits to be posted, differs from
\* its post or may be released has a work row or is ahead of the cursor, whatever
\* page, call or statement a crash cut off.
NothingForgotten ==
  prepared = filter =>
    \A l \in known :
      /\ status[l] = "none" \/ ~Settled(l) => l \in work \cup unseen
      /\ Readmissible(l) => \/ l \in work \cup unseen
                            \/ status[l] = "skipped" /\ l \in again

PostsTwice(l) ==
  pc = "call" /\ pc' = "accepted" /\ item = l /\ Posting
  /\ shown[l] # None /\ ~old[l]

\* A listing whose post the database knows is not posted anew, but for the
\* repost of a changed listing after 72 hours.
NoKnownDuplicate == [][\A l \in Listings : ~PostsTwice(l)]_vars

\* A pending listing is published if Telegram takes the post it is offered again
\* and again; it need not take those of other listings.
PendingIsPublished ==
  \A l \in Listings :
    SF_vars(item = l /\ PostAccepted) =>
      (status[l] = "pending" ~> status[l] = "published")

\* Stopping drains accepted acknowledgements (docs/architecture.md:474).  Here it
\* does not: a publication that is told to stop leaves at once.
AcceptedIsAcknowledged ==
  [][pc = "accepted" /\ pc' # "accepted" =>
       mode' = "down" \/ status'[item] = "published"]_vars

\* A post that has no work left shows what the listing says (README.md:5).  It does
\* not after an edit whose answer was lost and a change back at the source.
PostsCurrent ==
  \A l \in Listings :
    status[l] = "published" /\ l \notin work \cup unseen =>
      shown[l] \in {text[l], None}
=============================================================================
