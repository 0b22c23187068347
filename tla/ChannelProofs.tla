--------------------------- MODULE ChannelProofs ---------------------------
(***************************************************************************)
(* What Channel promises, proved for any listings, filters, texts and      *)
(* limits.                                                                 *)
(***************************************************************************)
EXTENDS Channel, TLAPS

\* A page lives from its load to its last operation, and a row is in one place:
\* still ahead, on the page, or planned.
PagePartition ==
  /\ pc \in {"crawl", "page"} => plan = NoPlan
  /\ pc # "load" => page = {}
  /\ pc = "crawl" => ahead = {}
  /\ ahead \cap page = {}
  /\ \A l \in ahead \cup page : plan[l] = "none"

\* A publication works under the filter its cursor was moved with, and nothing
\* is decided before the first one.
CursorCurrent ==
  /\ mode = "down" => pc = "crawl"
  /\ pc # "crawl" => prepared = filter
  /\ prepared = None => \A l \in Listings : status[l] = "none"

\* NothingForgotten for the filter of the cursor, whatever filter is configured.
Releasable(l) ==
  /\ prepared \in admitted[l]
  /\ \/ status[l] = "skipped" /\ seen[l]
     \/ status[l] = "filtered" /\ (changed[l] \/ posted[l])

Covered ==
  prepared # None =>
    \A l \in known :
      /\ status[l] = "none" \/ ~Settled(l) => l \in work \cup unseen
      /\ Releasable(l) => \/ l \in work \cup unseen
                          \/ status[l] = "skipped" /\ l \in again

\* Only a published listing has a post, and an operation fits its listing.
PlanFits ==
  \A l \in Listings :
    /\ shown[l] # None => status[l] = "published"
    /\ plan[l] = "send" => status[l] = "pending"
    /\ plan[l] = "repost" => old[l]
    /\ plan[l] = "replace" => shown[l] = None

CInv == TypeOK /\ PagePartition /\ CursorCurrent /\ Covered /\ PlanFits

USE ListingsAssumption, DataAssumption
  DEF listings, cursor, entries, process, loop, Kinds, NoPlan

\* Nothing is known and nothing is planned in an initial state.
LEMMA InitCInv == Init => CInv
<1> SUFFICES ASSUME Init PROVE CInv
  OBVIOUS
<1>1. TypeOK
  BY DEF Init, TypeOK
<1>2. PagePartition /\ CursorCurrent
  BY DEF Init, PagePartition, CursorCurrent
<1>3. Covered /\ PlanFits
  BY DEF Init, Covered, PlanFits
<1> QED
  BY <1>1, <1>2, <1>3 DEF CInv

\* Types, and the nesting of the page and its plan in the work rows.
LEMMA TypeOKStep == CInv /\ Next => TypeOK'
<1> SUFFICES ASSUME CInv, Next PROVE TypeOK'
  OBVIOUS
<1> USE DEF CInv, TypeOK, PagePartition
<1>1. ASSUME NEW l \in Listings, Commit(l) PROVE TypeOK'
  BY <1>1 DEF Commit, Idle
<1>2. ASSUME NEW l \in Listings, Encounter(l) PROVE TypeOK'
  BY <1>2 DEF Encounter, Idle
<1>3. ASSUME NEW l \in Listings, Age(l) PROVE TypeOK'
  BY <1>3 DEF Age
<1>4. ASSUME NEW l \in Listings, Delete(l) PROVE TypeOK'
  BY <1>4 DEF Delete
<1>5. CASE PrepareFirst
  BY <1>5 DEF PrepareFirst, Idle, Classified, Matches
<1>6. CASE Prepare
  BY <1>6 DEF Prepare, Idle, Readmissible, Matches
<1>7. CASE LoadPage
  BY <1>7 DEF LoadPage
<1>8. ASSUME NEW l \in Listings, Enter(l) PROVE TypeOK'
  BY <1>8 DEF Enter, Matches, Classified
<1>9. ASSUME NEW l \in Listings, Readmit(l) PROVE TypeOK'
  BY <1>9 DEF Readmit, Readmissible, Matches
<1>10. ASSUME NEW l \in Listings, Examine(l) PROVE TypeOK'
  BY <1>10 DEF Examine, Settled, Operation, Readmissible, Matches
<1>11. CASE Loaded
  BY <1>11 DEF Loaded
<1>12. ASSUME NEW l \in Listings, Take(l) PROVE TypeOK'
  BY <1>12 DEF Take, Leave
<1>13. CASE PostAccepted
  BY <1>13 DEF PostAccepted, Posting
<1>14. CASE EditAccepted
  BY <1>14 DEF EditAccepted
<1>15. CASE EditMissing
  BY <1>15 DEF EditMissing
<1>16. CASE CallFails
  BY <1>16 DEF CallFails, Onward
<1>17. CASE Refused
  BY <1>17 DEF Refused, Leave
<1>18. CASE Acknowledge
  <2>1. CASE mode = "stopping"
    BY <1>18, <2>1 DEF Acknowledge, Leave
  <2>2. CASE mode # "stopping"
    <3>1. item \in Listings /\ item \notin ahead
      BY <1>18 DEF Acknowledge, PagePartition
    <3>2. old' \in [Listings -> BOOLEAN]
      BY <1>18, <2>2, <3>1 DEF Acknowledge
    <3>3. /\ status' = [status EXCEPT ![item] = "published"]
          /\ hash' = [hash EXCEPT ![item] = text[item]]
          /\ shown' \in {shown, [shown EXCEPT ![item] = text[item]]}
          /\ work' = work \ {item} /\ UNCHANGED ahead
          /\ plan' = [plan EXCEPT ![item] = "none"] /\ pc' = "send"
          /\ UNCHANGED <<listings, cursor, process, page>>
      BY <1>18, <2>2 DEF Acknowledge, Onward
    <3>4. page = {}
      BY <1>18 DEF Acknowledge, PagePartition
    <3> QED
      BY <3>1, <3>2, <3>3, <3>4
  <2> QED
    BY <2>1, <2>2
<1>19. CASE PageDone
  BY <1>19 DEF PageDone
<1>20. CASE PassDone
  BY <1>20 DEF PassDone
<1>21. CASE Signal
  BY <1>21 DEF Signal
<1>22. CASE Exit
  BY <1>22 DEF Exit, Leave
<1>23. CASE Restart
  BY <1>23 DEF Restart
<1> QED
  BY <1>1, <1>2, <1>3, <1>4, <1>5, <1>6, <1>7, <1>8, <1>9, <1>10, <1>11, <1>12,
     <1>13, <1>14, <1>15, <1>16, <1>17, <1>18, <1>19, <1>20, <1>21, <1>22, <1>23
     DEF Next, Publish

\* Rows move from ahead to the page to the plan.
LEMMA PagePartitionStep == CInv /\ Next => PagePartition'
<1> SUFFICES ASSUME CInv, Next PROVE PagePartition'
  OBVIOUS
<1> USE DEF CInv, TypeOK, PagePartition
<1>1. ASSUME NEW l \in Listings, Commit(l) PROVE PagePartition'
  BY <1>1 DEF Commit, Idle
<1>2. ASSUME NEW l \in Listings, Encounter(l) PROVE PagePartition'
  BY <1>2 DEF Encounter, Idle
<1>3. ASSUME NEW l \in Listings, Age(l) PROVE PagePartition'
  BY <1>3 DEF Age
<1>4. ASSUME NEW l \in Listings, Delete(l) PROVE PagePartition'
  BY <1>4 DEF Delete
<1>5. CASE PrepareFirst
  BY <1>5 DEF PrepareFirst, Idle, Classified, Matches
<1>6. CASE Prepare
  BY <1>6 DEF Prepare, Idle, Readmissible, Matches
<1>7. CASE LoadPage
  BY <1>7 DEF LoadPage
<1>8. ASSUME NEW l \in Listings, Enter(l) PROVE PagePartition'
  BY <1>8 DEF Enter, Matches, Classified
<1>9. ASSUME NEW l \in Listings, Readmit(l) PROVE PagePartition'
  BY <1>9 DEF Readmit, Readmissible, Matches
<1>10. ASSUME NEW l \in Listings, Examine(l) PROVE PagePartition'
  BY <1>10 DEF Examine, Settled, Operation, Readmissible, Matches
<1>11. CASE Loaded
  BY <1>11 DEF Loaded
<1>12. ASSUME NEW l \in Listings, Take(l) PROVE PagePartition'
  BY <1>12 DEF Take, Leave
<1>13. CASE PostAccepted
  BY <1>13 DEF PostAccepted, Posting
<1>14. CASE EditAccepted
  BY <1>14 DEF EditAccepted
<1>15. CASE EditMissing
  BY <1>15 DEF EditMissing
<1>16. CASE CallFails
  BY <1>16 DEF CallFails, Onward
<1>17. CASE Refused
  BY <1>17 DEF Refused, Leave
<1>18. CASE Acknowledge
  BY <1>18 DEF Acknowledge, Onward, Leave, Posting
<1>19. CASE PageDone
  BY <1>19 DEF PageDone
<1>20. CASE PassDone
  BY <1>20 DEF PassDone
<1>21. CASE Signal
  BY <1>21 DEF Signal
<1>22. CASE Exit
  BY <1>22 DEF Exit, Leave
<1>23. CASE Restart
  BY <1>23 DEF Restart
<1> QED
  BY <1>1, <1>2, <1>3, <1>4, <1>5, <1>6, <1>7, <1>8, <1>9, <1>10, <1>11, <1>12,
     <1>13, <1>14, <1>15, <1>16, <1>17, <1>18, <1>19, <1>20, <1>21, <1>22, <1>23
     DEF Next, Publish

\* The configuration changes only between two processes.
LEMMA CursorCurrentStep == CInv /\ Next => CursorCurrent'
<1> SUFFICES ASSUME CInv, Next PROVE CursorCurrent'
  OBVIOUS
<1> USE DEF CInv, TypeOK, CursorCurrent
<1>1. ASSUME NEW l \in Listings, Commit(l) PROVE CursorCurrent'
  BY <1>1 DEF Commit, Idle
<1>2. ASSUME NEW l \in Listings, Encounter(l) PROVE CursorCurrent'
  BY <1>2 DEF Encounter, Idle
<1>3. ASSUME NEW l \in Listings, Age(l) PROVE CursorCurrent'
  BY <1>3 DEF Age
<1>4. ASSUME NEW l \in Listings, Delete(l) PROVE CursorCurrent'
  BY <1>4 DEF Delete
<1>5. CASE PrepareFirst
  BY <1>5 DEF PrepareFirst, Idle, Classified, Matches
<1>6. CASE Prepare
  BY <1>6 DEF Prepare, Idle, Readmissible, Matches
<1>7. CASE LoadPage
  BY <1>7 DEF LoadPage
<1>8. ASSUME NEW l \in Listings, Enter(l) PROVE CursorCurrent'
  BY <1>8 DEF Enter, Matches, Classified
<1>9. ASSUME NEW l \in Listings, Readmit(l) PROVE CursorCurrent'
  BY <1>9 DEF Readmit, Readmissible, Matches
<1>10. ASSUME NEW l \in Listings, Examine(l) PROVE CursorCurrent'
  BY <1>10 DEF Examine, Settled, Operation, Readmissible, Matches
<1>11. CASE Loaded
  BY <1>11 DEF Loaded
<1>12. ASSUME NEW l \in Listings, Take(l) PROVE CursorCurrent'
  BY <1>12 DEF Take, Leave
<1>13. CASE PostAccepted
  BY <1>13 DEF PostAccepted, Posting
<1>14. CASE EditAccepted
  BY <1>14 DEF EditAccepted
<1>15. CASE EditMissing
  BY <1>15 DEF EditMissing
<1>16. CASE CallFails
  BY <1>16 DEF CallFails, Onward
<1>17. CASE Refused
  BY <1>17 DEF Refused, Leave
<1>18. CASE Acknowledge
  BY <1>18 DEF Acknowledge, Onward, Leave, Posting
<1>19. CASE PageDone
  BY <1>19 DEF PageDone
<1>20. CASE PassDone
  BY <1>20 DEF PassDone
<1>21. CASE Signal
  BY <1>21 DEF Signal
<1>22. CASE Exit
  BY <1>22 DEF Exit, Leave
<1>23. CASE Restart
  BY <1>23 DEF Restart
<1> QED
  BY <1>1, <1>2, <1>3, <1>4, <1>5, <1>6, <1>7, <1>8, <1>9, <1>10, <1>11, <1>12,
     <1>13, <1>14, <1>15, <1>16, <1>17, <1>18, <1>19, <1>20, <1>21, <1>22, <1>23
     DEF Next, Publish

\* No statement drops a row that is still needed.
LEMMA CoveredStep == CInv /\ Next => Covered'
<1> SUFFICES ASSUME CInv, Next PROVE Covered'
  OBVIOUS
<1> USE DEF CInv, TypeOK, CursorCurrent, Covered, Releasable, Settled
<1>1. ASSUME NEW l \in Listings, Commit(l) PROVE Covered'
  BY <1>1 DEF Commit, Idle
<1>2. ASSUME NEW l \in Listings, Encounter(l) PROVE Covered'
  BY <1>2 DEF Encounter, Idle
<1>3. ASSUME NEW l \in Listings, Age(l) PROVE Covered'
  BY <1>3 DEF Age
<1>4. ASSUME NEW l \in Listings, Delete(l) PROVE Covered'
  BY <1>4 DEF Delete
<1>5. CASE PrepareFirst
  <2> SUFFICES ASSUME NEW k \in known
               PROVE  /\ (status[k] = "none" \/ ~Settled(k))' => k \in work'
                      /\ ~Releasable(k)'
    BY <1>5 DEF PrepareFirst
  <2>1. PICK selected \in SUBSET {l \in known : Matches(l)} :
          /\ status' = [l \in Listings |->
               IF l \in selected THEN "pending"
               ELSE IF l \in {m \in known : Matches(m)} THEN "skipped"
               ELSE IF l \in known THEN "filtered" ELSE "none"]
          /\ work' = selected
    BY <1>5 DEF PrepareFirst
  <2>2. ~seen'[k] /\ ~changed'[k] /\ prepared' = filter /\ UNCHANGED admitted
    BY <1>5 DEF PrepareFirst, Classified
  <2>3. CASE k \in selected
    <3>1. status'[k] = "pending" /\ k \in work'
      BY <2>1, <2>3
    <3> QED
      BY <3>1
  <2>4. CASE k \notin selected /\ Matches(k)
    <3>1. status'[k] = "skipped"
      BY <2>1, <2>4
    <3> QED
      BY <2>2, <3>1
  <2>5. CASE k \notin selected /\ ~Matches(k)
    <3>1. status'[k] = "filtered"
      BY <2>1, <2>5
    <3> QED
      BY <2>2, <2>5, <3>1 DEF Matches
  <2> QED
    BY <2>3, <2>4, <2>5
<1>6. CASE Prepare
  BY <1>6 DEF Prepare, Idle, Readmissible, Matches
<1>7. CASE LoadPage
  BY <1>7 DEF LoadPage
<1>8. ASSUME NEW l \in Listings, Enter(l) PROVE Covered'
  BY <1>8 DEF Enter, Matches, Classified
<1>9. ASSUME NEW l \in Listings, Readmit(l) PROVE Covered'
  BY <1>9 DEF Readmit, Readmissible, Matches
<1>10. ASSUME NEW l \in Listings, Examine(l) PROVE Covered'
  BY <1>10 DEF Examine, Settled, Operation, Readmissible, Matches
<1>11. CASE Loaded
  BY <1>11 DEF Loaded
<1>12. ASSUME NEW l \in Listings, Take(l) PROVE Covered'
  BY <1>12 DEF Take, Leave
<1>13. CASE PostAccepted
  BY <1>13 DEF PostAccepted, Posting
<1>14. CASE EditAccepted
  BY <1>14 DEF EditAccepted
<1>15. CASE EditMissing
  BY <1>15 DEF EditMissing
<1>16. CASE CallFails
  BY <1>16 DEF CallFails, Onward
<1>17. CASE Refused
  BY <1>17 DEF Refused, Leave
<1>18. CASE Acknowledge
  BY <1>18 DEF Acknowledge, Onward, Leave, Posting
<1>19. CASE PageDone
  BY <1>19 DEF PageDone
<1>20. CASE PassDone
  BY <1>20 DEF PassDone
<1>21. CASE Signal
  BY <1>21 DEF Signal
<1>22. CASE Exit
  BY <1>22 DEF Exit, Leave
<1>23. CASE Restart
  BY <1>23 DEF Restart
<1> QED
  BY <1>1, <1>2, <1>3, <1>4, <1>5, <1>6, <1>7, <1>8, <1>9, <1>10, <1>11, <1>12,
     <1>13, <1>14, <1>15, <1>16, <1>17, <1>18, <1>19, <1>20, <1>21, <1>22, <1>23
     DEF Next, Publish

\* Between its planning and its acknowledgement nothing changes an entry.
LEMMA PlanFitsStep == CInv /\ Next => PlanFits'
<1> SUFFICES ASSUME CInv, Next PROVE PlanFits'
  OBVIOUS
<1> USE DEF CInv, TypeOK, PagePartition, CursorCurrent, PlanFits
<1>1. ASSUME NEW l \in Listings, Commit(l) PROVE PlanFits'
  BY <1>1 DEF Commit, Idle
<1>2. ASSUME NEW l \in Listings, Encounter(l) PROVE PlanFits'
  BY <1>2 DEF Encounter, Idle
<1>3. ASSUME NEW l \in Listings, Age(l) PROVE PlanFits'
  BY <1>3 DEF Age
<1>4. ASSUME NEW l \in Listings, Delete(l) PROVE PlanFits'
  BY <1>4 DEF Delete
<1>5. CASE PrepareFirst
  BY <1>5 DEF PrepareFirst, Idle, Classified, Matches
<1>6. CASE Prepare
  BY <1>6 DEF Prepare, Idle, Readmissible, Matches
<1>7. CASE LoadPage
  BY <1>7 DEF LoadPage
<1>8. ASSUME NEW l \in Listings, Enter(l) PROVE PlanFits'
  BY <1>8 DEF Enter, Matches, Classified
<1>9. ASSUME NEW l \in Listings, Readmit(l) PROVE PlanFits'
  BY <1>9 DEF Readmit, Readmissible, Matches
<1>10. ASSUME NEW l \in Listings, Examine(l) PROVE PlanFits'
  BY <1>10 DEF Examine, Settled, Operation, Readmissible, Matches
<1>11. CASE Loaded
  BY <1>11 DEF Loaded
<1>12. ASSUME NEW l \in Listings, Take(l) PROVE PlanFits'
  BY <1>12 DEF Take, Leave
<1>13. CASE PostAccepted
  BY <1>13 DEF PostAccepted, Posting
<1>14. CASE EditAccepted
  BY <1>14 DEF EditAccepted
<1>15. CASE EditMissing
  BY <1>15 DEF EditMissing
<1>16. CASE CallFails
  BY <1>16 DEF CallFails, Onward
<1>17. CASE Refused
  BY <1>17 DEF Refused, Leave
<1>18. CASE Acknowledge
  BY <1>18 DEF Acknowledge, Onward, Leave, Posting
<1>19. CASE PageDone
  BY <1>19 DEF PageDone
<1>20. CASE PassDone
  BY <1>20 DEF PassDone
<1>21. CASE Signal
  BY <1>21 DEF Signal
<1>22. CASE Exit
  BY <1>22 DEF Exit, Leave
<1>23. CASE Restart
  BY <1>23 DEF Restart
<1> QED
  BY <1>1, <1>2, <1>3, <1>4, <1>5, <1>6, <1>7, <1>8, <1>9, <1>10, <1>11, <1>12,
     <1>13, <1>14, <1>15, <1>16, <1>17, <1>18, <1>19, <1>20, <1>21, <1>22, <1>23
     DEF Next, Publish

\* A step that changes nothing changes no promise.
LEMMA NextCInv == CInv /\ [Next]_vars => CInv'
<1> SUFFICES ASSUME CInv, [Next]_vars PROVE CInv'
  OBVIOUS
<1>1. CASE Next
  BY <1>1, TypeOKStep, PagePartitionStep, CursorCurrentStep, CoveredStep,
     PlanFitsStep DEF CInv
<1>2. CASE UNCHANGED vars
  BY <1>2 DEF vars, CInv, TypeOK, PagePartition, CursorCurrent, Covered,
              Releasable, Settled, PlanFits
<1> QED
  BY <1>1, <1>2

\* The inductive invariant holds in every reachable state.
THEOREM ChannelInvariance == Spec => []CInv
<1> QED
  BY InitCInv, NextCInv, PTL DEF Spec

\* Types; in particular what is planned or ahead still has its work row.
THEOREM ChannelTypeCorrect == Spec => []TypeOK
<1>1. CInv => TypeOK
  BY DEF CInv
<1> QED
  BY <1>1, ChannelInvariance, PTL

\* channel.rs moves the cursor in the transaction that enqueues what it passes,
\* and operations deletes only rows that need nothing: no crash, failed call or
\* change of the filter forgets a listing.
THEOREM ChannelForgetsNothing == Spec => []NothingForgotten
<1>1. CInv => NothingForgotten
  <2> SUFFICES ASSUME CInv, prepared = filter, NEW l \in known
               PROVE  /\ status[l] = "none" \/ ~Settled(l) => l \in work \cup unseen
                      /\ Readmissible(l) => \/ l \in work \cup unseen
                                            \/ status[l] = "skipped" /\ l \in again
    BY DEF NothingForgotten
  <2>1. prepared # None
    BY DEF CInv, TypeOK
  <2>2. Readmissible(l) => Releasable(l)
    BY DEF Readmissible, Releasable, Matches
  <2> QED
    BY <2>1, <2>2 DEF CInv, Covered
<1> QED
  BY <1>1, ChannelInvariance, PTL

\* operations sends anew only what was never published or is to be reposted, and
\* an edit becomes a post only when its message is gone.
THEOREM ChannelPostsOnce == Spec => NoKnownDuplicate
<1>1. CInv /\ [Next]_vars => [\A l \in Listings : ~PostsTwice(l)]_vars
  BY DEF CInv, TypeOK, PlanFits, PostsTwice, Posting
<1> QED
  BY <1>1, ChannelInvariance, PTL DEF Spec, NoKnownDuplicate
=============================================================================
