-------------------------- MODULE SelectionProofs --------------------------
(***************************************************************************)
(* What Selection promises a recipient, and that it implements Outbox,     *)
(* proved for any listings, filters and delivery limit.                    *)
(***************************************************************************)
EXTENDS Selection, FiniteSetTheorems, TLAPS

Classifying == {"select", "readmit", "filter", "retain"}

\* Classification has the database to itself and works on every work row.
Candidates ==
  pc \in Classifying => handler = "idle" /\ candidates = work

\* A pass in which there are rows comes after a classification, and the rows
\* are listings that nobody rejected or declined.
BatchUndecided ==
  /\ pc \notin {"deliver", "sending", "accepted"} => batch = {}
  /\ \A l \in batch : decision[l] \in {"none", "notified"}

\* NothingLost for every filter: with a cursor and an applied selection,
\* whatever is undecided and recent is in the work rows or ahead of the cursor.
\* Until a selection is applied, classification takes in all that is undecided.
Covered ==
  /\ applied /\ prepared # None =>
       \A l \in known :
         decision[l] = "none" /\ recent[l] => l \in work \cup unseen
  /\ pc = "select" => \A l \in known : decision[l] = "none" => l \in work

\* What was sent is acknowledged, and not changed since, or about to be.
SentAcknowledged ==
  \A l \in sent :
    \/ pc = "accepted" /\ item = l
    \/ decision[l] = "notified" /\ ~changed[l] /\ l \notin batch

\* What a filter rejected stays rejected or declined, and a selection that may
\* release it is preceded by the answer that asks for it.
RejectedDecided ==
  /\ \A l \in rejected :
       \/ decision[l] = "skipped"
       \/ decision[l] = "filtered" /\ ~changed[l]
  /\ pc = "select" => ~applied
  /\ (~applied \/ handler = "request") /\ initial => rejected = {}
  /\ pc \in Classifying \ {"select"} /\ ~applied => candidates = {}

SInv ==
  /\ TypeOK /\ Candidates /\ BatchUndecided /\ Covered /\ SentAcknowledged
  /\ RejectedDecided

USE ListingsAssumption, LimitAssumption
  DEF listings, userRow, recipient, pass, history, Decisions, Classifying

\* Nothing is known and nothing is under way in an initial state.
LEMMA InitSInv == Init => SInv
<1> SUFFICES ASSUME Init PROVE SInv
  OBVIOUS
<1>1. TypeOK
  BY DEF Init, TypeOK
<1>2. Candidates /\ BatchUndecided /\ Covered
  BY DEF Init, Candidates, BatchUndecided, Covered
<1>3. SentAcknowledged /\ RejectedDecided
  BY DEF Init, SentAcknowledged, RejectedDecided
<1> QED
  BY <1>1, <1>2, <1>3 DEF SInv

\* A limit of nothing selects nothing.
LEMMA NothingSelected ==
  ASSUME NEW S \in SUBSET Listings, Cardinality(S) = 0 \/ Cardinality(S) < 0
  PROVE  S = {}
<1>1. IsFiniteSet(S) /\ Cardinality(S) \in Nat
  BY FS_Subset, FS_CardinalityType
<1> QED
  BY <1>1, FS_EmptySet

\* What Select decides, listing by listing: what it selects is undecided or
\* released, and without an initial selection it releases nothing.
LEMMA SelectDecides ==
  ASSUME TypeOK, Candidates, Select
  PROVE  \E selected, skipped, filtered \in SUBSET candidates :
           /\ ~initial => selected = {}
           /\ filtered \cap (selected \cup skipped) = {}
           /\ \A l \in filtered : decision[l] = "none"
           /\ Decide({l \in selected : decision[l] = "filtered"}
                       \cup skipped \cup filtered,
                     [l \in Listings |->
                        IF l \in skipped THEN "skipped"
                        ELSE IF l \in filtered THEN "filtered" ELSE "none"])
<1> DEFINE selectable == {l \in candidates : Selectable(l)}
           limit == IF initial THEN Limit ELSE 0
           filtered == {l \in candidates : Unmatched(l)}
           released(S) == {l \in S : decision[l] = "filtered"}
           coded(S) == [l \in Listings |-> CASE l \in S -> "skipped"
                                             [] l \in filtered -> "filtered"
                                             [] OTHER -> "none"]
           status(S) == [l \in Listings |->
                           IF l \in S THEN "skipped"
                           ELSE IF l \in filtered THEN "filtered" ELSE "none"]
<1>1. PICK selected \in SUBSET selectable :
        /\ \/ Cardinality(selected) = limit
           \/ Cardinality(selected) < limit /\ selected = selectable
        /\ Decide(released(selected) \cup (selectable \ selected) \cup filtered,
                  coded(selectable \ selected))
  BY DEF Select
<1> DEFINE skipped == selectable \ selected
<1>2. candidates \in SUBSET Listings
  BY DEF TypeOK
<1>3. filtered \cap selectable = {} /\ \A l \in filtered : decision[l] = "none"
  BY DEF Unmatched, Selectable, Matches
<1>4. coded(skipped) = status(skipped)
  <2>1. ASSUME NEW l \in Listings
        PROVE  (CASE l \in skipped -> "skipped"
                  [] l \in filtered -> "filtered"
                  [] OTHER -> "none")
               = IF l \in skipped THEN "skipped"
                 ELSE IF l \in filtered THEN "filtered" ELSE "none"
    <3> HIDE DEF filtered
    <3>1. CASE l \in skipped
      <4>1. l \notin filtered
        BY <1>3, <3>1
      <4> HIDE DEF skipped
      <4> QED
        BY <3>1, <4>1
    <3>2. CASE l \notin skipped
      <4> HIDE DEF skipped
      <4> QED
        BY <3>2
    <3> QED
      BY <3>1, <3>2
  <2> QED
    BY <2>1
<1>5. ~initial => selected = {}
  <2> SUFFICES ASSUME ~initial PROVE selected = {}
    OBVIOUS
  <2>1. Cardinality(selected) = 0 \/ Cardinality(selected) < 0
    BY <1>1
  <2> QED
    BY <2>1, <1>2, NothingSelected
<1>6. Decide(released(selected) \cup skipped \cup filtered, status(skipped))
  BY <1>1, <1>4
<1>7. selected \in SUBSET candidates /\ skipped \in SUBSET candidates
      /\ filtered \in SUBSET candidates
  OBVIOUS
<1>8. filtered \cap (selected \cup skipped) = {}
  BY <1>3
<1> HIDE DEF selectable, skipped, filtered, limit
<1> QED
  BY <1>3, <1>5, <1>6, <1>7, <1>8

\* Types and bounds.
LEMMA TypeOKStep == SInv /\ Next => TypeOK'
<1> SUFFICES ASSUME SInv, Next PROVE TypeOK'
  OBVIOUS
<1> USE DEF SInv, TypeOK, Candidates, BatchUndecided
<1>1. CASE Prepare
  BY <1>1 DEF Prepare
<1>2. CASE Select
  <2>1. PICK selected, skipped, filtered \in SUBSET candidates :
          /\ ~initial => selected = {}
          /\ filtered \cap (selected \cup skipped) = {}
          /\ \A l \in filtered : decision[l] = "none"
          /\ Decide({l \in selected : decision[l] = "filtered"}
                      \cup skipped \cup filtered,
                    [l \in Listings |->
                       IF l \in skipped THEN "skipped"
                       ELSE IF l \in filtered THEN "filtered" ELSE "none"])
    BY <1>2, SelectDecides
  <2>2. /\ decision' \in [Listings -> Decisions]
        /\ changed' \in [Listings -> BOOLEAN]
        /\ rejected' \in SUBSET known
    BY <2>1 DEF Decide
  <2>3. /\ UNCHANGED <<known, admitted, recent, userRow, prepared, unseen, work>>
        /\ UNCHANGED <<candidates, renewed, batch, item, handler, sent, backlog>>
        /\ pc' = "readmit" /\ applied' = TRUE /\ answered' = FALSE
    BY <1>2 DEF Select
  <2> QED
    BY <2>2, <2>3
<1>3. ASSUME NEW l \in Listings, Readmit(l) PROVE TypeOK'
  BY <1>3 DEF Readmit, Readmittable
<1>4. CASE ReadmitDone
  BY <1>4 DEF ReadmitDone
<1>5. CASE Filter
  BY <1>5 DEF Filter, Decide, Unmatched
<1>6. CASE RetainPending
  BY <1>6 DEF RetainPending, Pending
<1>7. ASSUME NEW l \in Listings, Begin(l) PROVE TypeOK'
  BY <1>7 DEF Begin
<1>8. CASE Accept
  BY <1>8 DEF Accept
<1>9. CASE SendFails
  BY <1>9 DEF SendFails
<1>10. CASE Acknowledge
  BY <1>10 DEF Acknowledge
<1>11. CASE PassEnds
  BY <1>11 DEF PassEnds
<1>12. CASE RequestSelection
  BY <1>12 DEF RequestSelection
<1>13. CASE Stop
  BY <1>13 DEF Stop, Handling
<1>14. ASSUME NEW all \in BOOLEAN, StartAnswer(all) PROVE TypeOK'
  BY <1>14 DEF StartAnswer, Handling
<1>15. ASSUME NEW f \in Filters, ChangeFilter(f) PROVE TypeOK'
  BY <1>15 DEF ChangeFilter, Handling
<1>16. ASSUME NEW ids \in SUBSET Listings, AcceptHistory(ids) PROVE TypeOK'
  BY <1>16 DEF AcceptHistory, Handling, Offered, Unlocked
<1>17. ASSUME NEW ids \in SUBSET Listings, DeclineHistory(ids) PROVE TypeOK'
  BY <1>17 DEF DeclineHistory, Handling, Offered, Decide
<1>18. CASE Crash
  BY <1>18 DEF Crash
<1>19. ASSUME NEW l \in Listings, Commit(l) PROVE TypeOK'
  BY <1>19 DEF Commit
<1>20. ASSUME NEW l \in Listings, Age(l) PROVE TypeOK'
  BY <1>20 DEF Age
<1> QED
  BY <1>1, <1>2, <1>3, <1>4, <1>5, <1>6, <1>7, <1>8, <1>9, <1>10, <1>11, <1>12, <1>13, <1>14, <1>15, <1>16, <1>17, <1>18, <1>19, <1>20 DEF Next, Classify, Deliver, Handle

\* Only classification changes the work rows while it runs.
LEMMA CandidatesStep == SInv /\ Next => Candidates'
<1> SUFFICES ASSUME SInv, Next PROVE Candidates'
  OBVIOUS
<1> USE DEF SInv, TypeOK, Candidates
<1>1. CASE Prepare
  BY <1>1 DEF Prepare, Unlocked
<1>2. CASE Select
  BY <1>2 DEF Select, Decide, Selectable, Unmatched, Matches
<1>3. ASSUME NEW l \in Listings, Readmit(l) PROVE Candidates'
  BY <1>3 DEF Readmit, Readmittable
<1>4. CASE ReadmitDone
  BY <1>4 DEF ReadmitDone
<1>5. CASE Filter
  BY <1>5 DEF Filter, Decide, Unmatched
<1>6. CASE RetainPending
  BY <1>6 DEF RetainPending, Pending
<1>7. ASSUME NEW l \in Listings, Begin(l) PROVE Candidates'
  BY <1>7 DEF Begin
<1>8. CASE Accept
  BY <1>8 DEF Accept
<1>9. CASE SendFails
  BY <1>9 DEF SendFails
<1>10. CASE Acknowledge
  BY <1>10 DEF Acknowledge
<1>11. CASE PassEnds
  BY <1>11 DEF PassEnds
<1>12. CASE RequestSelection
  BY <1>12 DEF RequestSelection
<1>13. CASE Stop
  BY <1>13 DEF Stop, Handling
<1>14. ASSUME NEW all \in BOOLEAN, StartAnswer(all) PROVE Candidates'
  BY <1>14 DEF StartAnswer, Handling
<1>15. ASSUME NEW f \in Filters, ChangeFilter(f) PROVE Candidates'
  BY <1>15 DEF ChangeFilter, Handling
<1>16. ASSUME NEW ids \in SUBSET Listings, AcceptHistory(ids) PROVE Candidates'
  BY <1>16 DEF AcceptHistory, Handling, Offered, Unlocked
<1>17. ASSUME NEW ids \in SUBSET Listings, DeclineHistory(ids) PROVE Candidates'
  BY <1>17 DEF DeclineHistory, Handling, Offered, Decide
<1>18. CASE Crash
  BY <1>18 DEF Crash
<1>19. ASSUME NEW l \in Listings, Commit(l) PROVE Candidates'
  BY <1>19 DEF Commit
<1>20. ASSUME NEW l \in Listings, Age(l) PROVE Candidates'
  BY <1>20 DEF Age
<1> QED
  BY <1>1, <1>2, <1>3, <1>4, <1>5, <1>6, <1>7, <1>8, <1>9, <1>10, <1>11, <1>12, <1>13, <1>14, <1>15, <1>16, <1>17, <1>18, <1>19, <1>20 DEF Next, Classify, Deliver, Handle

\* Handlers decide only what was rejected.
LEMMA BatchUndecidedStep == SInv /\ Next => BatchUndecided'
<1> SUFFICES ASSUME SInv, Next PROVE BatchUndecided'
  OBVIOUS
<1> USE DEF SInv, TypeOK, Candidates, BatchUndecided
<1>1. CASE Prepare
  BY <1>1 DEF Prepare
<1>2. CASE Select
  BY <1>2 DEF Select, Decide, Selectable, Unmatched, Matches
<1>3. ASSUME NEW l \in Listings, Readmit(l) PROVE BatchUndecided'
  BY <1>3 DEF Readmit, Readmittable
<1>4. CASE ReadmitDone
  BY <1>4 DEF ReadmitDone
<1>5. CASE Filter
  BY <1>5 DEF Filter, Decide, Unmatched
<1>6. CASE RetainPending
  BY <1>6 DEF RetainPending, Pending
<1>7. ASSUME NEW l \in Listings, Begin(l) PROVE BatchUndecided'
  BY <1>7 DEF Begin
<1>8. CASE Accept
  BY <1>8 DEF Accept
<1>9. CASE SendFails
  BY <1>9 DEF SendFails
<1>10. CASE Acknowledge
  BY <1>10 DEF Acknowledge
<1>11. CASE PassEnds
  BY <1>11 DEF PassEnds
<1>12. CASE RequestSelection
  BY <1>12 DEF RequestSelection
<1>13. CASE Stop
  BY <1>13 DEF Stop, Handling
<1>14. ASSUME NEW all \in BOOLEAN, StartAnswer(all) PROVE BatchUndecided'
  BY <1>14 DEF StartAnswer, Handling
<1>15. ASSUME NEW f \in Filters, ChangeFilter(f) PROVE BatchUndecided'
  BY <1>15 DEF ChangeFilter, Handling
<1>16. ASSUME NEW ids \in SUBSET Listings, AcceptHistory(ids) PROVE BatchUndecided'
  BY <1>16 DEF AcceptHistory, Handling, Offered, Unlocked
<1>17. ASSUME NEW ids \in SUBSET Listings, DeclineHistory(ids) PROVE BatchUndecided'
  BY <1>17 DEF DeclineHistory, Handling, Offered, Decide
<1>18. CASE Crash
  BY <1>18 DEF Crash
<1>19. ASSUME NEW l \in Listings, Commit(l) PROVE BatchUndecided'
  BY <1>19 DEF Commit
<1>20. ASSUME NEW l \in Listings, Age(l) PROVE BatchUndecided'
  BY <1>20 DEF Age
<1> QED
  BY <1>1, <1>2, <1>3, <1>4, <1>5, <1>6, <1>7, <1>8, <1>9, <1>10, <1>11, <1>12, <1>13, <1>14, <1>15, <1>16, <1>17, <1>18, <1>19, <1>20 DEF Next, Classify, Deliver, Handle

\* No transaction leaves an undecided listing behind.
LEMMA CoveredStep == SInv /\ Next => Covered'
<1> SUFFICES ASSUME SInv, Next PROVE Covered'
  OBVIOUS
<1> USE DEF SInv, TypeOK, Candidates, Covered
<1>1. CASE Prepare
  BY <1>1 DEF Prepare
<1>2. CASE Select
  BY <1>2 DEF Select, Decide, Selectable, Unmatched, Matches
<1>3. ASSUME NEW l \in Listings, Readmit(l) PROVE Covered'
  BY <1>3 DEF Readmit, Readmittable
<1>4. CASE ReadmitDone
  BY <1>4 DEF ReadmitDone
<1>5. CASE Filter
  BY <1>5 DEF Filter, Decide, Unmatched
<1>6. CASE RetainPending
  BY <1>6 DEF RetainPending, Pending
<1>7. ASSUME NEW l \in Listings, Begin(l) PROVE Covered'
  BY <1>7 DEF Begin
<1>8. CASE Accept
  BY <1>8 DEF Accept
<1>9. CASE SendFails
  BY <1>9 DEF SendFails
<1>10. CASE Acknowledge
  BY <1>10 DEF Acknowledge
<1>11. CASE PassEnds
  BY <1>11 DEF PassEnds
<1>12. CASE RequestSelection
  BY <1>12 DEF RequestSelection
<1>13. CASE Stop
  BY <1>13 DEF Stop, Handling
<1>14. ASSUME NEW all \in BOOLEAN, StartAnswer(all) PROVE Covered'
  BY <1>14 DEF StartAnswer, Handling
<1>15. ASSUME NEW f \in Filters, ChangeFilter(f) PROVE Covered'
  BY <1>15 DEF ChangeFilter, Handling
<1>16. ASSUME NEW ids \in SUBSET Listings, AcceptHistory(ids) PROVE Covered'
  BY <1>16 DEF AcceptHistory, Handling, Offered, Unlocked
<1>17. ASSUME NEW ids \in SUBSET Listings, DeclineHistory(ids) PROVE Covered'
  BY <1>17 DEF DeclineHistory, Handling, Offered, Decide
<1>18. CASE Crash
  BY <1>18 DEF Crash
<1>19. ASSUME NEW l \in Listings, Commit(l) PROVE Covered'
  BY <1>19 DEF Commit
<1>20. ASSUME NEW l \in Listings, Age(l) PROVE Covered'
  BY <1>20 DEF Age
<1> QED
  BY <1>1, <1>2, <1>3, <1>4, <1>5, <1>6, <1>7, <1>8, <1>9, <1>10, <1>11, <1>12, <1>13, <1>14, <1>15, <1>16, <1>17, <1>18, <1>19, <1>20 DEF Next, Classify, Deliver, Handle

\* What was sent does not come back.
LEMMA SentAcknowledgedStep == SInv /\ Next => SentAcknowledged'
<1> SUFFICES ASSUME SInv, Next PROVE SentAcknowledged'
  OBVIOUS
<1> USE DEF SInv, TypeOK, Candidates, BatchUndecided, SentAcknowledged
<1>1. CASE Prepare
  BY <1>1 DEF Prepare
<1>2. CASE Select
  BY <1>2 DEF Select, Decide, Selectable, Unmatched, Matches
<1>3. ASSUME NEW l \in Listings, Readmit(l) PROVE SentAcknowledged'
  BY <1>3 DEF Readmit, Readmittable
<1>4. CASE ReadmitDone
  BY <1>4 DEF ReadmitDone
<1>5. CASE Filter
  BY <1>5 DEF Filter, Decide, Unmatched
<1>6. CASE RetainPending
  BY <1>6 DEF RetainPending, Pending
<1>7. ASSUME NEW l \in Listings, Begin(l) PROVE SentAcknowledged'
  BY <1>7 DEF Begin
<1>8. CASE Accept
  BY <1>8 DEF Accept
<1>9. CASE SendFails
  BY <1>9 DEF SendFails
<1>10. CASE Acknowledge
  BY <1>10 DEF Acknowledge
<1>11. CASE PassEnds
  BY <1>11 DEF PassEnds
<1>12. CASE RequestSelection
  BY <1>12 DEF RequestSelection
<1>13. CASE Stop
  BY <1>13 DEF Stop, Handling
<1>14. ASSUME NEW all \in BOOLEAN, StartAnswer(all) PROVE SentAcknowledged'
  BY <1>14 DEF StartAnswer, Handling
<1>15. ASSUME NEW f \in Filters, ChangeFilter(f) PROVE SentAcknowledged'
  BY <1>15 DEF ChangeFilter, Handling
<1>16. ASSUME NEW ids \in SUBSET Listings, AcceptHistory(ids) PROVE SentAcknowledged'
  BY <1>16 DEF AcceptHistory, Handling, Offered, Unlocked
<1>17. ASSUME NEW ids \in SUBSET Listings, DeclineHistory(ids) PROVE SentAcknowledged'
  BY <1>17 DEF DeclineHistory, Handling, Offered, Decide
<1>18. CASE Crash
  BY <1>18 DEF Crash
<1>19. ASSUME NEW l \in Listings, Commit(l) PROVE SentAcknowledged'
  BY <1>19 DEF Commit
<1>20. ASSUME NEW l \in Listings, Age(l) PROVE SentAcknowledged'
  BY <1>20 DEF Age
<1> QED
  BY <1>1, <1>2, <1>3, <1>4, <1>5, <1>6, <1>7, <1>8, <1>9, <1>10, <1>11, <1>12, <1>13, <1>14, <1>15, <1>16, <1>17, <1>18, <1>19, <1>20 DEF Next, Classify, Deliver, Handle

\* Only the source and the user release what was rejected.
LEMMA RejectedDecidedStep == SInv /\ Next => RejectedDecided'
<1> SUFFICES ASSUME SInv, Next PROVE RejectedDecided'
  OBVIOUS
<1> USE DEF SInv, TypeOK, Candidates, BatchUndecided, RejectedDecided
<1>1. CASE Prepare
  BY <1>1 DEF Prepare
<1>2. CASE Select
  <2>1. PICK selected, skipped, filtered \in SUBSET candidates :
          /\ ~initial => selected = {}
          /\ filtered \cap (selected \cup skipped) = {}
          /\ \A l \in filtered : decision[l] = "none"
          /\ Decide({l \in selected : decision[l] = "filtered"}
                      \cup skipped \cup filtered,
                    [l \in Listings |->
                       IF l \in skipped THEN "skipped"
                       ELSE IF l \in filtered THEN "filtered" ELSE "none"])
    BY <1>2, SelectDecides
  <2>2. /\ pc = "select" /\ pc' = "readmit" /\ applied' = TRUE
        /\ UNCHANGED <<initial, handler, candidates>>
    BY <1>2 DEF Select
  <2>3. ASSUME NEW l \in rejected'
        PROVE  \/ decision'[l] = "skipped"
               \/ decision'[l] = "filtered" /\ ~changed'[l]
    <3>1. CASE l \in rejected
      <4>1. ~(l \in selected /\ decision[l] = "filtered")
        BY <2>1, <2>2, <3>1
      <4>2. l \notin filtered
        BY <2>1, <3>1
      <4>3. l \in Listings
        BY <3>1
      <4>4. CASE l \in skipped
        <5>1. decision'[l] = "skipped"
          BY <2>1, <4>3, <4>4 DEF Decide
        <5> QED
          BY <5>1
      <4>5. CASE l \notin skipped
        <5>1. decision'[l] = decision[l] /\ (changed'[l] => changed[l])
          BY <2>1, <4>1, <4>2, <4>3, <4>5 DEF Decide
        <5> QED
          BY <3>1, <5>1
      <4> QED
        BY <4>4, <4>5
    <3>2. CASE l \notin rejected
      BY <2>1, <3>2 DEF Decide
    <3> QED
      BY <3>1, <3>2
  <2>4. ~((~applied \/ handler = "request") /\ initial)'
    BY <2>2
  <2> QED
    BY <2>2, <2>3, <2>4
<1>3. ASSUME NEW l \in Listings, Readmit(l) PROVE RejectedDecided'
  BY <1>3 DEF Readmit, Readmittable
<1>4. CASE ReadmitDone
  BY <1>4 DEF ReadmitDone
<1>5. CASE Filter
  BY <1>5 DEF Filter, Decide, Unmatched
<1>6. CASE RetainPending
  BY <1>6 DEF RetainPending, Pending
<1>7. ASSUME NEW l \in Listings, Begin(l) PROVE RejectedDecided'
  BY <1>7 DEF Begin
<1>8. CASE Accept
  BY <1>8 DEF Accept
<1>9. CASE SendFails
  BY <1>9 DEF SendFails
<1>10. CASE Acknowledge
  BY <1>10 DEF Acknowledge
<1>11. CASE PassEnds
  BY <1>11 DEF PassEnds
<1>12. CASE RequestSelection
  BY <1>12 DEF RequestSelection
<1>13. CASE Stop
  BY <1>13 DEF Stop, Handling
<1>14. ASSUME NEW all \in BOOLEAN, StartAnswer(all) PROVE RejectedDecided'
  BY <1>14 DEF StartAnswer, Handling
<1>15. ASSUME NEW f \in Filters, ChangeFilter(f) PROVE RejectedDecided'
  BY <1>15 DEF ChangeFilter, Handling
<1>16. ASSUME NEW ids \in SUBSET Listings, AcceptHistory(ids) PROVE RejectedDecided'
  BY <1>16 DEF AcceptHistory, Handling, Offered, Unlocked
<1>17. ASSUME NEW ids \in SUBSET Listings, DeclineHistory(ids) PROVE RejectedDecided'
  BY <1>17 DEF DeclineHistory, Handling, Offered, Decide
<1>18. CASE Crash
  BY <1>18 DEF Crash
<1>19. ASSUME NEW l \in Listings, Commit(l) PROVE RejectedDecided'
  BY <1>19 DEF Commit
<1>20. ASSUME NEW l \in Listings, Age(l) PROVE RejectedDecided'
  BY <1>20 DEF Age
<1> QED
  BY <1>1, <1>2, <1>3, <1>4, <1>5, <1>6, <1>7, <1>8, <1>9, <1>10, <1>11, <1>12, <1>13, <1>14, <1>15, <1>16, <1>17, <1>18, <1>19, <1>20 DEF Next, Classify, Deliver, Handle

\* A step that changes nothing changes no promise.
LEMMA NextSInv == SInv /\ [Next]_vars => SInv'
<1> SUFFICES ASSUME SInv, [Next]_vars PROVE SInv'
  OBVIOUS
<1>1. CASE Next
  BY <1>1, TypeOKStep, CandidatesStep, BatchUndecidedStep, CoveredStep,
     SentAcknowledgedStep, RejectedDecidedStep DEF SInv
<1>2. CASE UNCHANGED vars
  BY <1>2 DEF vars, SInv, TypeOK, Candidates, BatchUndecided, Covered,
              SentAcknowledged, RejectedDecided
<1> QED
  BY <1>1, <1>2

\* The inductive invariant holds in every reachable state.
THEOREM SelectionInvariance == Spec => []SInv
<1> QED
  BY InitSInv, NextSInv, PTL DEF Spec

\* Types, and the nesting of batch in the work rows in the stored listings.
THEOREM SelectionTypeCorrect == Spec => []TypeOK
<1>1. SInv => TypeOK
  BY DEF SInv
<1> QED
  BY <1>1, SelectionInvariance, PTL

\* storage.rs moves cursor, fingerprint and work rows in one transaction, so a
\* recent match that nobody decided is in the rows or ahead of the cursor.
THEOREM SelectionLosesNothing == Spec => []NothingLost
<1>1. SInv => NothingLost
  BY DEF SInv, TypeOK, Covered, NothingLost
<1> QED
  BY <1>1, SelectionInvariance, PTL

\* A declined listing is in no batch, so no acknowledgement overwrites it, and
\* no transaction turns "skipped" into anything else.
THEOREM SelectionDeclinesForGood == Spec => DeclinedForGood
<1>1. SInv /\ [Next]_vars =>
        [\A l \in Listings :
           decision[l] = "skipped" => decision'[l] = "skipped"]_vars
  <2> SUFFICES ASSUME SInv, Next, NEW l \in Listings, decision[l] = "skipped"
               PROVE  decision'[l] = "skipped"
    OBVIOUS
  <2> USE DEF SInv, TypeOK
  <2>1. CASE Prepare
    BY <2>1 DEF Prepare
  <2>2. CASE Select
    <3>1. PICK selected, skipped, filtered \in SUBSET candidates :
            /\ ~initial => selected = {}
            /\ filtered \cap (selected \cup skipped) = {}
            /\ \A k \in filtered : decision[k] = "none"
            /\ Decide({k \in selected : decision[k] = "filtered"}
                        \cup skipped \cup filtered,
                      [k \in Listings |->
                         IF k \in skipped THEN "skipped"
                         ELSE IF k \in filtered THEN "filtered" ELSE "none"])
      BY <2>2, SelectDecides DEF Candidates
    <3>2. l \notin filtered /\ l \notin {k \in selected : decision[k] = "filtered"}
      BY <3>1
    <3> QED
      BY <3>1, <3>2 DEF Decide
  <2>3. ASSUME NEW k \in Listings, Readmit(k) PROVE decision'[l] = "skipped"
    BY <2>3 DEF Readmit, Readmittable
  <2>4. CASE Filter
    BY <2>4 DEF Filter, Decide, Unmatched
  <2>5. CASE Acknowledge
    <3>1. item # l
      BY <2>5 DEF Acknowledge, BatchUndecided
    <3> QED
      BY <2>5, <3>1 DEF Acknowledge
  <2>6. ASSUME NEW ids \in SUBSET Listings,
               AcceptHistory(ids) \/ DeclineHistory(ids)
        PROVE  decision'[l] = "skipped"
    <3>1. l \notin ids
      BY <2>6 DEF AcceptHistory, DeclineHistory, Offered
    <3> QED
      BY <2>6, <3>1 DEF AcceptHistory, DeclineHistory, Decide
  <2>7. CASE ReadmitDone \/ RetainPending \/ Accept \/ SendFails \/ PassEnds
    BY <2>7 DEF ReadmitDone, RetainPending, Accept, SendFails, PassEnds,
                recipient, listings
  <2>8. CASE RequestSelection \/ Stop \/ Crash
    BY <2>8 DEF RequestSelection, Stop, Crash
  <2>9. ASSUME NEW all \in BOOLEAN, StartAnswer(all)
        PROVE  decision'[l] = "skipped"
    BY <2>9 DEF StartAnswer
  <2>10. ASSUME NEW f \in Filters, ChangeFilter(f) PROVE decision'[l] = "skipped"
    BY <2>10 DEF ChangeFilter
  <2>11. ASSUME NEW k \in Listings, Begin(k) \/ Commit(k) \/ Age(k)
         PROVE  decision'[l] = "skipped"
    BY <2>11 DEF Begin, Commit, Age
  <2> QED
    BY <2>1, <2>2, <2>3, <2>4, <2>5, <2>6, <2>7, <2>8, <2>9, <2>10, <2>11
       DEF Next, Classify, Deliver, Handle
<1> QED
  BY <1>1, SelectionInvariance, PTL DEF Spec, DeclinedForGood

\* What Telegram accepted is acknowledged out of the batch before the next send.
THEOREM SelectionSendsOncePerChange == Spec => SentOncePerChange
<1>1. SInv /\ [Next]_vars => [\A l \in sent : ~Sends(l)]_vars
  BY DEF SInv, TypeOK, SentAcknowledged, Sends
<1> QED
  BY <1>1, SelectionInvariance, PTL DEF Spec, SentOncePerChange

\* A batch holds nothing a filter rejected, whatever filters were set meanwhile.
THEOREM SelectionFilterReleasesNothing == Spec => FilterReleasesNothing
<1>1. SInv /\ [Next]_vars => [\A l \in rejected : ~Sends(l)]_vars
  BY DEF SInv, TypeOK, BatchUndecided, RejectedDecided, Sends
<1> QED
  BY <1>1, SelectionInvariance, PTL DEF Spec, FilterReleasesNothing

-----------------------------------------------------------------------------
(* Selection implements Outbox: every transaction on the tables of one         *)
(* recipient is a step that Outbox promises, or none that shows.               *)

\* Only what is being sent is in hand, and nothing is decided of a listing
\* before it is stored.
Placed ==
  /\ pc \notin {"sending", "accepted"} => item = None
  /\ \A l \in Listings \ known : decision[l] = "none" /\ ~changed[l]

\* Placed is an invariant.
LEMMA PlacedStep == SInv /\ Placed /\ [Next]_vars => Placed'
<1> SUFFICES ASSUME SInv, Placed, [Next]_vars PROVE Placed'
  OBVIOUS
<1> USE DEF SInv, TypeOK, Candidates, Placed
<1>1. CASE Prepare
  BY <1>1 DEF Prepare
<1>2. CASE Select
  BY <1>2 DEF Select, Decide, Selectable, Unmatched, Matches
<1>3. ASSUME NEW l \in Listings, Readmit(l) PROVE Placed'
  BY <1>3 DEF Readmit, Readmittable
<1>4. CASE ReadmitDone
  BY <1>4 DEF ReadmitDone
<1>5. CASE Filter
  BY <1>5 DEF Filter, Decide, Unmatched
<1>6. CASE RetainPending
  BY <1>6 DEF RetainPending, Pending
<1>7. ASSUME NEW l \in Listings, Begin(l) PROVE Placed'
  BY <1>7 DEF Begin
<1>8. CASE Accept
  BY <1>8 DEF Accept
<1>9. CASE SendFails
  BY <1>9 DEF SendFails
<1>10. CASE Acknowledge
  BY <1>10 DEF Acknowledge
<1>11. CASE PassEnds
  BY <1>11 DEF PassEnds
<1>12. CASE RequestSelection
  BY <1>12 DEF RequestSelection
<1>13. CASE Stop
  BY <1>13 DEF Stop, Handling
<1>14. ASSUME NEW all \in BOOLEAN, StartAnswer(all) PROVE Placed'
  BY <1>14 DEF StartAnswer, Handling
<1>15. ASSUME NEW f \in Filters, ChangeFilter(f) PROVE Placed'
  BY <1>15 DEF ChangeFilter, Handling
<1>16. ASSUME NEW ids \in SUBSET Listings, AcceptHistory(ids) PROVE Placed'
  BY <1>16 DEF AcceptHistory, Handling, Offered
<1>17. ASSUME NEW ids \in SUBSET Listings, DeclineHistory(ids) PROVE Placed'
  BY <1>17 DEF DeclineHistory, Handling, Offered, Decide
<1>18. CASE Crash
  BY <1>18 DEF Crash
<1>19. ASSUME NEW l \in Listings, Commit(l) PROVE Placed'
  BY <1>19 DEF Commit
<1>20. ASSUME NEW l \in Listings, Age(l) PROVE Placed'
  BY <1>20 DEF Age
<1>21. CASE UNCHANGED vars
  BY <1>21 DEF vars
<1> QED
  BY <1>1, <1>2, <1>3, <1>4, <1>5, <1>6, <1>7, <1>8, <1>9, <1>10, <1>11, <1>12, <1>13, <1>14, <1>15, <1>16, <1>17, <1>18, <1>19, <1>20, <1>21 DEF Next, Classify, Deliver, Handle

\* Setting one flag to FALSE, as Outbox writes it.
LEMMA Cleared ==
  ASSUME NEW f \in [Listings -> BOOLEAN], NEW l \in Listings
  PROVE  [f EXCEPT ![l] = FALSE] = [k \in Listings |-> f[k] /\ k \notin {l}]
<1> DEFINE g == [f EXCEPT ![l] = FALSE]
           h == [k \in Listings |-> f[k] /\ k \notin {l}]
<1>1. ASSUME NEW k \in Listings PROVE g[k] = h[k]
  <2>1. CASE k = l
    BY <2>1
  <2>2. CASE k # l
    <3>1. g[k] = f[k]
      BY <2>2
    <3>2. h[k] = (f[k] /\ TRUE)
      BY <2>2
    <3>3. f[k] \in BOOLEAN
      OBVIOUS
    <3> QED
      BY <3>1, <3>2, <3>3
  <2> QED
    BY <2>1, <2>2
<1> QED
  BY <1>1

\* What a listing's row stands for.
LEMMA PhaseOf ==
  ASSUME TypeOK
  PROVE  /\ Phase \in [Listings -> {"absent", "waiting", "sent", "rejected", "declined"}]
         /\ \A l \in Listings :
              /\ Phase[l] = "absent" <=> l \notin known
              /\ Phase[l] = "waiting" <=> l \in known /\ decision[l] = "none"
              /\ Phase[l] = "sent" <=> l \in known /\ decision[l] = "notified"
              /\ Phase[l] = "rejected" <=> l \in known /\ decision[l] = "filtered"
              /\ Phase[l] = "declined" <=> l \in known /\ decision[l] = "skipped"
  BY DEF TypeOK, Phase

\* A step that leaves the mapped tables alone does not show.
LEMMA Unseen ==
  ASSUME UNCHANGED <<known, decision, changed, batch, item, applied>>
  PROVE  UNCHANGED Promise!vars
  BY DEF Promise!vars, Phase

\* The initial states are initial states of Outbox.
LEMMA InitRefines == Init => Promise!Init
  BY DEF Init, Promise!Init, Phase

\* Every step is a step of Outbox, or does not show.
LEMMA StepRefines ==
  SInv /\ SInv' /\ Placed /\ [Next]_vars => [Promise!Next]_(Promise!vars)
<1> SUFFICES ASSUME SInv, SInv', Placed, [Next]_vars
             PROVE  Promise!Next \/ UNCHANGED Promise!vars
  OBVIOUS
<1> USE DEF SInv, Candidates, BatchUndecided, Placed
<1>p. /\ TypeOK /\ TypeOK'
      /\ Phase \in [Listings -> {"absent", "waiting", "sent", "rejected", "declined"}]
  BY PhaseOf
<1>q. \A l \in Listings :
        /\ Phase[l] = "absent" <=> l \notin known
        /\ Phase[l] = "waiting" <=> l \in known /\ decision[l] = "none"
        /\ Phase[l] = "sent" <=> l \in known /\ decision[l] = "notified"
        /\ Phase[l] = "rejected" <=> l \in known /\ decision[l] = "filtered"
        /\ Phase[l] = "declined" <=> l \in known /\ decision[l] = "skipped"
  BY <1>p, PhaseOf
<1>1. CASE Prepare
  <2>1. UNCHANGED <<known, decision, changed, batch, item, applied>>
    BY <1>1 DEF Prepare
  <2> QED
    BY <2>1, Unseen
<1>2. CASE Select
  <2> DEFINE selectable == {l \in candidates : Selectable(l)}
             filtered == {l \in candidates : Unmatched(l)}
  <2>1. PICK selected \in SUBSET selectable :
          Decide({l \in selected : decision[l] = "filtered"}
                   \cup (selectable \ selected) \cup filtered,
                 [l \in Listings |->
                    CASE l \in selectable \ selected -> "skipped"
                      [] l \in filtered -> "filtered"
                      [] OTHER -> "none"])
    BY <1>2 DEF Select
  <2> DEFINE released == {l \in selected : decision[l] = "filtered"}
             skipped == selectable \ selected
  <2>2. /\ applied' = TRUE /\ ~applied
        /\ UNCHANGED <<known, batch, item>>
    BY <1>2 DEF Select, RejectedDecided
  <2>3. /\ selectable \in SUBSET Listings /\ selectable \subseteq known
        /\ filtered \in SUBSET Listings /\ filtered \subseteq known
    BY <1>p DEF TypeOK
  <2>4. /\ \A l \in selectable : Matches(l) /\ decision[l] \in {"none", "filtered"}
        /\ \A l \in filtered : ~Matches(l) /\ decision[l] = "none"
    BY <1>p, <2>3 DEF TypeOK, Selectable, Unmatched
  <2> HIDE DEF selectable, filtered
  <2>5. /\ released \in SUBSET Listings /\ skipped \in SUBSET Listings
        /\ skipped \cap (released \cup filtered) = {}
    BY <2>3, <2>4
  <2>6. /\ released \subseteq Promise!In("rejected")
        /\ filtered \subseteq Promise!In("waiting")
        /\ skipped \subseteq Promise!In("waiting") \cup Promise!In("rejected")
    BY <2>3, <2>4, <1>q DEF Promise!In
  <2>7. Promise!Settle(released \cup filtered \cup skipped)
    BY <2>1 DEF Decide, Promise!Settle
  <2>8. Phase' = [l \in Listings |->
          CASE l \in released -> "waiting" [] l \in filtered -> "rejected"
            [] l \in skipped -> "declined" [] OTHER -> Phase[l]]
    <3>1. ASSUME NEW l \in Listings
          PROVE  Phase'[l] = CASE l \in released -> "waiting"
                               [] l \in filtered -> "rejected"
                               [] l \in skipped -> "declined" [] OTHER -> Phase[l]
      <4>1. decision'[l] = IF l \in released \cup skipped \cup filtered
                           THEN CASE l \in skipped -> "skipped"
                                  [] l \in filtered -> "filtered" [] OTHER -> "none"
                           ELSE decision[l]
        BY <2>1 DEF Decide
      <4>2. Phase'[l] = IF l \notin known THEN "absent"
                        ELSE CASE decision'[l] = "none" -> "waiting"
                               [] decision'[l] = "notified" -> "sent"
                               [] decision'[l] = "filtered" -> "rejected"
                               [] OTHER -> "declined"
        BY <2>2 DEF Phase
      <4>3. CASE l \in released
        BY <4>1, <4>2, <4>3, <2>3, <2>5
      <4>4. CASE l \in filtered
        BY <4>1, <4>2, <4>4, <2>3, <2>4, <2>5
      <4>5. CASE l \in skipped
        BY <4>1, <4>2, <4>5, <2>3, <2>4, <2>5
      <4>6. CASE l \notin released \cup filtered \cup skipped
        BY <4>1, <4>2, <4>6 DEF Phase
      <4> QED
        BY <4>3, <4>4, <4>5, <4>6
    <3> QED
      BY <3>1 DEF Phase
  <2>9. Promise!Select(released, filtered, skipped)
    BY <2>2, <2>5, <2>6, <2>7, <2>8 DEF Promise!Select
  <2> HIDE DEF released, skipped
  <2> QED
    BY <2>3, <2>5, <2>9 DEF Promise!Next
<1>3. ASSUME NEW l \in Listings, Readmit(l) PROVE Promise!Next \/ UNCHANGED Promise!vars
  <2>1. Promise!Release(l)
    BY <1>3, <1>p, <1>q DEF Readmit, Readmittable, Phase, TypeOK, Promise!Release, Promise!In, Promise!Fresh, Promise!Move
  <2> QED
    BY <2>1 DEF Promise!Next
<1>4. CASE ReadmitDone
  <2>1. UNCHANGED <<known, decision, changed, batch, item, applied>>
    BY <1>4 DEF ReadmitDone
  <2> QED
    BY <2>1, Unseen
<1>5. CASE Filter
  <2> DEFINE set == {l \in candidates : Unmatched(l)}
  <2>1. Promise!Reject(set)
    BY <1>5, <1>p, <1>q DEF Filter, Decide, Unmatched, Phase, TypeOK, Promise!Reject, Promise!In, Promise!Move, Promise!Settle
  <2> QED
    BY <2>1, <1>p DEF Promise!Next, TypeOK
<1>6. CASE RetainPending
  <2> DEFINE set == {l \in candidates : Pending(l)}
  <2>1. Promise!Queue(set)
    BY <1>6, <1>p, <1>q DEF RetainPending, Pending, Phase, TypeOK, Promise!Queue, Promise!In, Promise!Fresh
  <2> QED
    BY <2>1, <1>p DEF Promise!Next, TypeOK
<1>7. ASSUME NEW l \in Listings, Begin(l) PROVE Promise!Next \/ UNCHANGED Promise!vars
  <2>1. Promise!Send(l)
    BY <1>7 DEF Begin, Phase, Promise!Send
  <2> QED
    BY <2>1 DEF Promise!Next
<1>8. CASE Accept
  <2>1. UNCHANGED <<known, decision, changed, batch, item, applied>>
    BY <1>8 DEF Accept
  <2> QED
    BY <2>1, Unseen
<1>9. CASE SendFails
  <2>1. Promise!Return
    BY <1>9 DEF SendFails, Phase, Promise!Return
  <2> QED
    BY <2>1 DEF Promise!Next
<1>10. CASE Acknowledge
  <2>1. item \in Listings /\ item \in known
    BY <1>10, <1>p DEF Acknowledge, TypeOK
  <2>2. Promise!Settle({item})
    <3>1. changed' = [changed EXCEPT ![item] = FALSE]
      BY <1>10 DEF Acknowledge
    <3>2. changed \in [Listings -> BOOLEAN]
      BY <1>p DEF TypeOK
    <3> HIDE DEF SInv, Placed
    <3> QED
      BY <2>1, <3>1, <3>2, Cleared DEF Promise!Settle
  <2>3. Promise!Move({item}, "sent")
    BY <1>10, <1>p, <2>1 DEF Acknowledge, TypeOK, Promise!Move, Phase
  <2>4. item \in batch \cap (Promise!In("waiting") \cup Promise!In("sent"))
    BY <1>10, <1>p, <1>q, <2>1 DEF Acknowledge, TypeOK, Promise!In
  <2>5. Promise!Deliver
    BY <1>10, <2>2, <2>3, <2>4 DEF Acknowledge, Promise!Deliver
  <2> QED
    BY <2>5 DEF Promise!Next
<1>11. CASE PassEnds
  <2>1. Promise!Return
    BY <1>11 DEF PassEnds, Phase, Promise!Return
  <2> QED
    BY <2>1 DEF Promise!Next
<1>12. CASE RequestSelection
  <2>1. Promise!Ask
    BY <1>12 DEF RequestSelection, Phase, Promise!Ask
  <2> QED
    BY <2>1 DEF Promise!Next
<1>13. CASE Stop
  <2>1. UNCHANGED <<known, decision, changed, batch, item, applied>>
    BY <1>13 DEF Stop
  <2> QED
    BY <2>1, Unseen
<1>14. ASSUME NEW all \in BOOLEAN, StartAnswer(all) PROVE Promise!Next \/ UNCHANGED Promise!vars
  <2>1. UNCHANGED <<known, decision, changed, batch, item, applied>>
    BY <1>14 DEF StartAnswer
  <2> QED
    BY <2>1, Unseen
<1>15. ASSUME NEW f \in Filters, ChangeFilter(f) PROVE Promise!Next \/ UNCHANGED Promise!vars
  <2>1. UNCHANGED <<known, decision, changed, batch, item, applied>>
    BY <1>15 DEF ChangeFilter
  <2> QED
    BY <2>1, Unseen
<1>16. ASSUME NEW ids \in SUBSET Listings, AcceptHistory(ids) PROVE Promise!Next \/ UNCHANGED Promise!vars
  <2>1. Promise!Answer(ids)
    BY <1>16, <1>p, <1>q DEF AcceptHistory, Offered, Phase, TypeOK, Promise!Answer, Promise!In, Promise!Move, Promise!Settle
  <2> QED
    BY <2>1 DEF Promise!Next
<1>17. ASSUME NEW ids \in SUBSET Listings, DeclineHistory(ids) PROVE Promise!Next \/ UNCHANGED Promise!vars
  <2>1. Promise!Answer(ids)
    BY <1>17, <1>p, <1>q DEF DeclineHistory, Decide, Offered, Phase, TypeOK, Promise!Answer, Promise!In, Promise!Move, Promise!Settle
  <2> QED
    BY <2>1 DEF Promise!Next
<1>18. CASE Crash
  <2>1. Promise!Return
    BY <1>18 DEF Crash, Phase, Promise!Return
  <2> QED
    BY <2>1 DEF Promise!Next
<1>19. ASSUME NEW l \in Listings, Commit(l) PROVE Promise!Next \/ UNCHANGED Promise!vars
  <2>1. CASE l \notin known
    <3>1. Promise!Arrive(l)
      BY <1>19, <2>1, <1>p, <1>q DEF Commit, Phase, TypeOK, Promise!Arrive, Promise!Move
    <3> QED
      BY <3>1 DEF Promise!Next
  <2>2. CASE l \in known /\ decision[l] = "none"
    <3>1. Promise!Settle({l})
      BY <1>19, <2>2, <1>p, Cleared DEF Commit, TypeOK, Promise!Settle
    <3>2. Phase' = Phase
      BY <1>19, <2>2 DEF Commit, Phase
    <3>3. Promise!Fade(l)
      BY <1>19, <3>1, <3>2 DEF Commit, Promise!Fade
    <3> QED
      BY <3>3 DEF Promise!Next
  <2>3. CASE l \in known /\ decision[l] # "none"
    <3>1. Phase' = Phase
      BY <1>19, <2>3 DEF Commit, Phase
    <3>2. changed' = [changed EXCEPT ![l] = TRUE]
      BY <1>19, <2>3 DEF Commit
    <3>3. Phase[l] \notin {"absent", "waiting"}
      BY <2>3, <1>q
    <3>4. Promise!Change(l)
      BY <1>19, <3>1, <3>2, <3>3 DEF Commit, Promise!Change
    <3> QED
      BY <3>4 DEF Promise!Next
  <2> QED
    BY <2>1, <2>2, <2>3
<1>20. ASSUME NEW l \in Listings, Age(l) PROVE Promise!Next \/ UNCHANGED Promise!vars
  <2>1. Promise!Settle({l})
    BY <1>20, <1>p, Cleared DEF Age, TypeOK, Promise!Settle
  <2>2. Phase' = Phase
    BY <1>20 DEF Age, Phase
  <2>3. Promise!Fade(l)
    BY <1>20, <2>1, <2>2 DEF Age, Promise!Fade
  <2> QED
    BY <2>3 DEF Promise!Next
<1>21. CASE UNCHANGED vars
  <2>1. UNCHANGED <<known, decision, changed, batch, item, applied>>
    BY <1>21 DEF vars
  <2> QED
    BY <2>1, Unseen
<1> QED
  BY <1>1, <1>2, <1>3, <1>4, <1>5, <1>6, <1>7, <1>8, <1>9, <1>10, <1>11, <1>12, <1>13, <1>14, <1>15, <1>16, <1>17, <1>18, <1>19, <1>20, <1>21 DEF Next, Classify, Deliver, Handle

\* Selection implements Outbox.
THEOREM SelectionImplementsOutbox == Spec => ImplementsOutbox
<1>1. Init => SInv /\ Placed
  BY InitSInv DEF Init, Placed
<1>2. SInv /\ Placed /\ [Next]_vars => SInv' /\ Placed'
  BY NextSInv, PlacedStep
<1> QED
  BY <1>1, <1>2, InitRefines, StepRefines, PTL DEF Spec, ImplementsOutbox, Promise!Spec
=============================================================================
