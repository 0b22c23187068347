------------------------------- MODULE Outbox -------------------------------
(***************************************************************************)
(* What one recipient is promised, whatever tables, cursors and temporary  *)
(* rows it takes: each listing waits, is sent, or is turned away by the    *)
(* filter or by the recipient, and only certain events move it. README.md, *)
(* "Delivery"; Selection implements it.                                    *)
(***************************************************************************)
EXTENDS FiniteSets

CONSTANTS Listings, None

VARIABLES
  phase,   \* absent, waiting, sent, rejected (by the filter), declined
  fresh,   \* has the source changed it since that was decided
  due,     \* what the pass under way is to send
  flying,  \* what is being sent
  asked    \* has the recipient a selection to come

vars == <<phase, fresh, due, flying, asked>>

In(p) == {l \in Listings : phase[l] = p}
Fresh == {l \in Listings : fresh[l]}

Init ==
  /\ phase = [l \in Listings |-> "absent"]
  /\ fresh = [l \in Listings |-> FALSE]
  /\ due = {} /\ flying = None /\ asked = TRUE

Move(set, to) == phase' = [l \in Listings |-> IF l \in set THEN to ELSE phase[l]]
Settle(set) == fresh' = [l \in Listings |-> fresh[l] /\ l \notin set]

(* The source *)

Arrive(l) ==
  /\ phase[l] = "absent" /\ Move({l}, "waiting")
  /\ UNCHANGED <<fresh, due, flying, asked>>

Change(l) ==
  /\ phase[l] \notin {"absent", "waiting"}
  /\ fresh' = [fresh EXCEPT ![l] = TRUE]
  /\ UNCHANGED <<phase, due, flying, asked>>

Fade(l) == Settle({l}) /\ UNCHANGED <<phase, due, flying, asked>>

(* The recipient *)

Ask == asked' = TRUE /\ UNCHANGED <<phase, fresh, due, flying>>

Answer(set) ==
  /\ set \subseteq In("rejected") /\ Settle(set)
  /\ Move(set, "waiting") \/ Move(set, "declined")
  /\ UNCHANGED <<due, flying, asked>>

(* Classification *)

\* what waits may be rejected, what was rejected is released by a change
Reject(set) ==
  /\ set \subseteq In("waiting") /\ Move(set, "rejected") /\ Settle(set)
  /\ UNCHANGED <<due, flying, asked>>

Release(l) ==
  /\ l \in In("rejected") \cap Fresh /\ Move({l}, "waiting")
  /\ UNCHANGED <<fresh, due, flying, asked>>

\* the selection that was asked for moves everything that is not sent
Select(released, rejected, declined) ==
  /\ asked /\ asked' = FALSE
  /\ released \subseteq In("rejected") /\ rejected \subseteq In("waiting")
  /\ declined \subseteq In("waiting") \cup In("rejected")
  /\ declined \cap (released \cup rejected) = {}
  /\ phase' = [l \in Listings |->
       CASE l \in released -> "waiting" [] l \in rejected -> "rejected"
         [] l \in declined -> "declined" [] OTHER -> phase[l]]
  /\ Settle(released \cup rejected \cup declined)
  /\ UNCHANGED <<due, flying>>

(* Delivery *)

Queue(set) ==
  /\ due = {} /\ due' = set
  /\ set \subseteq In("waiting") \cup (In("sent") \cap Fresh)
  /\ UNCHANGED <<phase, fresh, flying, asked>>

Send(l) ==
  /\ flying = None /\ l \in due /\ flying' = l
  /\ UNCHANGED <<phase, fresh, due, asked>>

Deliver ==
  /\ flying \in due \cap (In("waiting") \cup In("sent")) /\ Move({flying}, "sent") /\ Settle({flying})
  /\ due' = due \ {flying} /\ flying' = None
  /\ UNCHANGED asked

\* the send is to be repeated, or the pass is over
Return ==
  /\ flying' = None /\ due' \in {due, {}}
  /\ UNCHANGED <<phase, fresh, asked>>

Next ==
  \/ \E l \in Listings : Arrive(l) \/ Change(l) \/ Fade(l) \/ Release(l) \/ Send(l)
  \/ \E set \in SUBSET Listings : Answer(set) \/ Reject(set) \/ Queue(set)
  \/ \E r, f, d \in SUBSET Listings : Select(r, f, d)
  \/ Ask \/ Deliver \/ Return

Spec == Init /\ [][Next]_vars
=============================================================================
