---------------------------- MODULE UpdatesProofs ----------------------------
(***************************************************************************)
(* The types of Updates, the place of a batch relative to the offset, what *)
(* the rate limit remembers of an update that is handled again, and what   *)
(* the updates leave in the database, for any users, any rate and any      *)
(* number of updates and crashes.                                          *)
(***************************************************************************)
EXTENDS Updates, SequenceTheorems, WellFoundedInduction, TLAPS

\* The update under way is the one at the offset, and the one just below it
\* from the transaction on that passes it.
BatchPlaced ==
  /\ pc \in {"handle", "reply", "ack"} => at \in 1..Len(log) /\ at <= end
  /\ pc \in {"down", "poll", "handle"} => held = None
  /\ pc = "reply" => \/ held = None /\ offset = at + 1
                     \/ held = at + 1 /\ offset = at
  /\ pc = "ack" => held = at + 1 /\ offset = at

\* Above the offset nothing has been decided.  What was decided of the update at
\* the offset was to let it in, and would be decided again.
Recalled ==
  /\ \A id \in Ids : verdict[id] # "none" => id <= offset /\ id <= Len(log)
  /\ \A id \in Ids : id = offset /\ verdict[id] # "none" =>
       /\ verdict[id] = "yes"
       /\ \/ decisions[id] = "yes"
          \/ decisions[id] = "none" /\ tokens[log[id].user] > 0

UInv == TypeOK /\ BatchPlaced /\ Recalled

USE UpdatesAssumption
  DEF database, batch, context, history, Ids, Kinds, NewRow, Undecided, Full

\* Nothing is under way and nothing decided in the initial state.
LEMMA InitUInv == Init => UInv
<1> SUFFICES ASSUME Init PROVE UInv
  OBVIOUS
<1>1. TypeOK
  <2>1. log \in Seq([user : Users, kind : Kinds]) /\ Len(log) = 0
    BY DEF Init
  <2> QED
    BY <2>1 DEF Init, TypeOK
<1>2. BatchPlaced /\ Recalled
  BY DEF Init, BatchPlaced, Recalled
<1> QED
  BY <1>1, <1>2 DEF UInv

\* What an update leaves of a row is a row.
LEMMA ApplyType ==
  ASSUME NEW row \in [pending : BOOLEAN, value : 0..MaxUpdates], NEW id \in Ids,
         NEW kind \in Kinds
  PROVE  Apply(row, id, kind) \in [pending : BOOLEAN, value : 0..MaxUpdates]
<1>1. row = [pending |-> row.pending, value |-> row.value]
      /\ row.value \in 0..MaxUpdates
  OBVIOUS
<1>2. CASE kind = "ask"
  <2>1. Apply(row, id, kind) = [pending |-> TRUE, value |-> row.value]
    BY <1>1, <1>2 DEF Apply
  <2> QED
    BY <1>1, <2>1
<1>3. CASE kind = "menu"
  <2>1. Apply(row, id, kind) = [pending |-> FALSE, value |-> row.value]
    BY <1>1, <1>3 DEF Apply
  <2> QED
    BY <1>1, <2>1
<1>4. CASE kind = "valid" /\ row.pending
  <2>1. Apply(row, id, kind) = [pending |-> FALSE, value |-> id]
    BY <1>4 DEF Apply
  <2> QED
    BY <2>1
<1>5. CASE kind \notin {"ask", "menu"} /\ ~(kind = "valid" /\ row.pending)
  BY <1>5 DEF Apply
<1> QED
  BY <1>2, <1>3, <1>4, <1>5

\* Every update has a sender.
LEMMA Sender ==
  ASSUME TypeOK, NEW id \in 1..Len(log)
  PROVE  log[id] \in [user : Users, kind : Kinds] /\ log[id].user \in Users
<1>1. log \in Seq([user : Users, kind : Kinds])
  BY DEF TypeOK
<1>2. log[id] \in [user : Users, kind : Kinds]
  BY <1>1, ElementOfSeq
<1> QED
  BY <1>2

\* How the log, the offset and the update under way lie.
LEMMA Lengths ==
  ASSUME UInv
  PROVE  /\ Len(log) \in Nat /\ Len(log) <= MaxUpdates
         /\ offset - 1 \in 0..MaxUpdates /\ offset - 1 <= Len(log)
         /\ pc = "handle" => at = offset
         /\ pc \in {"handle", "reply", "ack"} => at \in 1..Len(log) /\ at \in Ids
<1>1. /\ log \in Seq([user : Users, kind : Kinds]) /\ Len(log) <= MaxUpdates
      /\ offset \in 1..(Len(log) + 1)
      /\ pc = "handle" => at = offset
  BY DEF UInv, TypeOK
<1>2. pc \in {"handle", "reply", "ack"} => at \in 1..Len(log)
  BY DEF UInv, BatchPlaced
<1>3. Len(log) \in Nat
  BY <1>1, LenProperties
<1>4. 1..Len(log) \subseteq Ids
  BY <1>1, <1>3
<1>5. offset - 1 \in 0..MaxUpdates /\ offset - 1 <= Len(log)
  BY <1>1, <1>3
<1> QED
  BY <1>1, <1>2, <1>3, <1>4, <1>5

\* A decision is made, and an update that is handled again meets the first one.
LEMMA DecisionRecalled ==
  ASSUME TypeOK, Recalled, NEW id \in Ids, id = offset, id <= Len(log)
  PROVE  /\ Decision(id, log[id].user) \in {"yes", "no"}
         /\ verdict[id] # "none" => Decision(id, log[id].user) = verdict[id]
<1>1. log[id] \in [user : Users, kind : Kinds]
  <2>1. id \in 1..Len(log)
    BY DEF TypeOK
  <2> QED
    BY <2>1, Sender
<1>2. tokens[log[id].user] \in 0..Rate
  BY <1>1 DEF TypeOK
<1> QED
  BY <1>2 DEF TypeOK, Recalled, Decision

\* Handling an update keeps the invariant.
LEMMA HandleStep ==
  ASSUME UInv, Handle
  PROVE  UInv'
<1> DEFINE u == log[at].user
           kind == log[at].kind
           decision == Decision(at, u)
           allowed == decision = "yes"
           holds == allowed /\ Rejects(rows[u], kind)
<1>1. /\ at \in Ids /\ at = offset /\ at <= Len(log) /\ at <= end
      /\ u \in Users /\ kind \in Kinds
  <2>1. at \in 1..Len(log) /\ at \in Ids /\ at = offset
    BY Lengths DEF Handle
  <2>2. at <= end /\ at <= Len(log)
    BY <2>1, Lengths DEF UInv, BatchPlaced, Handle
  <2>3. log[at] \in [user : Users, kind : Kinds]
    BY <2>1, Sender DEF UInv
  <2> QED
    BY <2>1, <2>2, <2>3
<1>2. /\ decision \in {"yes", "no"}
      /\ verdict[at] # "none" => decision = verdict[at]
  BY <1>1, DecisionRecalled DEF UInv
<1>3. /\ pc' = "reply" /\ UNCHANGED <<log, at, end, replied, crashes>>
      /\ offset' = IF holds THEN offset ELSE at + 1
      /\ held' = IF holds THEN at + 1 ELSE None
      /\ rows' = IF allowed THEN [rows EXCEPT ![u] = Apply(@, at, kind)] ELSE rows
      /\ tokens' = Tokens(at, u)
      /\ decisions' = Remembered(at, decision, offset')
      /\ limited' = IF allowed THEN limited ELSE limited \cup {at}
      /\ verdict' = [verdict EXCEPT ![at] = decision]
  BY DEF Handle, HandledOffset
<1> HIDE DEF u, kind, decision
<1>4. TypeOK'
  <2>1. rows' \in [Users -> [pending : BOOLEAN, value : 0..MaxUpdates]]
    BY <1>1, <1>3, ApplyType DEF UInv, TypeOK
  <2>2. tokens' \in [Users -> 0..Rate]
    <3>1. tokens \in [Users -> 0..Rate] /\ tokens[u] \in 0..Rate
      BY <1>1 DEF UInv, TypeOK
    <3>2. CASE decisions[at] = "none" /\ tokens[u] > 0
      <4>1. tokens[u] - 1 \in 0..Rate
        BY <3>1, <3>2
      <4>2. tokens' = [tokens EXCEPT ![u] = tokens[u] - 1]
        BY <1>3, <3>2 DEF Tokens
      <4> QED
        BY <3>1, <4>1, <4>2
    <3>3. CASE ~(decisions[at] = "none" /\ tokens[u] > 0)
      BY <1>3, <3>1, <3>3 DEF Tokens
    <3> QED
      BY <3>2, <3>3
  <2>3. decisions' \in [Ids -> {"none", "yes", "no"}]
    BY <1>1, <1>2, <1>3 DEF UInv, TypeOK, Remembered
  <2>4. offset' \in 1..(Len(log) + 1) /\ held' \in 2..(MaxUpdates + 1) \cup {None}
    BY <1>1, <1>3 DEF UInv, TypeOK
  <2>5. /\ limited' \subseteq Ids
        /\ verdict' \in [Ids -> {"none", "yes", "no"}]
    BY <1>1, <1>2, <1>3 DEF UInv, TypeOK
  <2> QED
    BY <1>1, <1>3, <2>1, <2>2, <2>3, <2>4, <2>5 DEF UInv, TypeOK
<1>5. BatchPlaced'
  <2>1. Len(log) \in Nat /\ end \in 0..Len(log)
    BY DEF UInv, TypeOK
  <2>2. \/ held' = None /\ offset' = at' + 1
        \/ held' = at' + 1 /\ offset' = at'
    BY <1>1, <1>3
  <2>3. pc' = "reply" /\ at' \in 1..Len(log') /\ at' <= end'
    BY <1>1, <1>3, <2>1
  <2> QED
    BY <2>2, <2>3 DEF BatchPlaced
<1>6. Recalled'
  <2>1. \A id \in Ids : verdict'[id] # "none" => id <= at /\ id <= Len(log)
    BY <1>1, <1>3 DEF UInv, TypeOK, Recalled
  <2>2. holds => /\ offset' = at /\ verdict'[at] = "yes" /\ decisions'[at] = "yes"
    BY <1>1, <1>3 DEF UInv, TypeOK, Remembered
  <2>3. ~holds => offset' = at + 1
    BY <1>3
  <2>4. UNCHANGED log /\ at \in Nat
    BY <1>1, <1>3
  <2>5. CASE holds
    BY <1>1, <2>1, <2>2, <2>4, <2>5 DEF Recalled
  <2>6. CASE ~holds
    BY <1>1, <2>1, <2>3, <2>4, <2>6 DEF Recalled
  <2> QED
    BY <2>5, <2>6
<1> QED
  BY <1>4, <1>5, <1>6 DEF UInv

\* The types and the place of the batch over a log of n updates.
Sized(n) ==
  /\ offset \in 1..(n + 1) /\ end \in 0..n
  /\ rows \in [Users -> [pending : BOOLEAN, value : 0..MaxUpdates]]
  /\ pc \in {"down", "poll", "handle", "reply", "ack"}
  /\ at \in 0..MaxUpdates
  /\ held \in 2..(MaxUpdates + 1) \cup {None}
  /\ tokens \in [Users -> 0..Rate]
  /\ decisions \in [Ids -> {"none", "yes", "no"}]
  /\ limited \subseteq Ids /\ replied \subseteq Ids
  /\ verdict \in [Ids -> {"none", "yes", "no"}]
  /\ crashes \in 0..MaxCrashes
  /\ pc = "handle" => at = offset /\ at <= end
  /\ pc = "ack" => held = offset + 1
  /\ pc \in {"handle", "reply", "ack"} => at \in 1..n /\ at <= end
  /\ pc \in {"down", "poll", "handle"} => held = None
  /\ pc = "reply" => \/ held = None /\ offset = at + 1
                     \/ held = at + 1 /\ offset = at
  /\ pc = "ack" => held = at + 1 /\ offset = at

\* What Sized says of the length of the log is what the invariant says.
LEMMA SizedByLength ==
  TypeOK /\ BatchPlaced <=>
    /\ log \in Seq([user : Users, kind : Kinds]) /\ Len(log) <= MaxUpdates
    /\ Sized(Len(log))
BY DEF TypeOK, BatchPlaced, Sized

\* Every step that neither handles nor writes an update keeps both.
LEMMA SizedStep ==
  ASSUME NEW n \in 0..MaxUpdates, Len(log) = n, Sized(n), Next, ~Handle,
         ~(\E u \in Users, kind \in Kinds : Write(u, kind))
  PROVE  Sized(n)' /\ log' = log
<1> USE DEF Sized
<1>2. CASE Start
  BY <1>2 DEF Start
<1>3. CASE Replied
  <2>1. CASE held = None /\ at < end
    BY <1>3, <2>1 DEF Replied, NextUpdate
  <2>2. CASE held = None /\ ~(at < end)
    BY <1>3, <2>2 DEF Replied, NextUpdate
  <2>3. CASE held # None
    BY <1>3, <2>3 DEF Replied
  <2> QED
    BY <2>1, <2>2, <2>3
<1>4. CASE ReplyFails
  BY <1>4 DEF ReplyFails
<1>5. CASE Acknowledge
  <2>1. CASE at < end
    BY <1>5, <2>1 DEF Acknowledge, NextUpdate
  <2>2. CASE ~(at < end)
    BY <1>5, <2>2 DEF Acknowledge, NextUpdate
  <2> QED
    BY <2>1, <2>2
<1>6. ASSUME NEW last \in Ids, GetUpdates(last) PROVE Sized(n)' /\ log' = log
  BY <1>6 DEF GetUpdates
<1>7. CASE GetNothing
  BY <1>7 DEF GetNothing, vars
<1>8. CASE Crash
  BY <1>8 DEF Crash
<1>9. CASE Expire
  BY <1>9 DEF Expire
<1>10. ASSUME NEW u \in Users, Refill(u) PROVE Sized(n)' /\ log' = log
  <2>1. tokens' = [tokens EXCEPT ![u] = tokens[u] + 1] /\ tokens[u] \in 0..Rate
        /\ tokens[u] < Rate
    BY <1>10 DEF Refill
  <2>2. \A k \in 0..Rate : k < Rate => k + 1 \in 0..Rate
    OBVIOUS
  <2>3. tokens' \in [Users -> 0..Rate]
    BY <2>1, <2>2
  <2> QED
    BY <1>10, <2>3 DEF Refill
<1> QED
  BY <1>2, <1>3, <1>4, <1>5, <1>6, <1>7, <1>8, <1>9, <1>10 DEF Next, Poll

\* An update that is written is one more behind the batch.
LEMMA WriteStep ==
  ASSUME NEW u \in Users, NEW kind \in Kinds, TypeOK, BatchPlaced, Write(u, kind)
  PROVE  (TypeOK /\ BatchPlaced)'
<1> DEFINE S == [user : Users, kind : Kinds]
           e == [user |-> u, kind |-> kind]
<1>1. e \in S /\ log \in Seq(S) /\ log' = Append(log, e) /\ Len(log) < MaxUpdates
  BY DEF TypeOK, Write
<1>2. log' \in Seq(S) /\ Len(log') = Len(log) + 1 /\ Len(log) \in Nat
  BY <1>1, AppendProperties, LenProperties
<1>3. PICK n \in Nat : n = Len(log)
  BY <1>2
<1>4. Sized(n) /\ UNCHANGED <<database, batch, context, history, crashes>>
  BY <1>3, SizedByLength DEF Write
<1>5. Sized(n + 1)'
  BY <1>4 DEF Sized
<1>6. Len(log') = n + 1 /\ n + 1 <= MaxUpdates
  BY <1>1, <1>2, <1>3
<1>7. Sized(Len(log))'
  BY <1>5, <1>6 DEF Sized
<1> QED
  BY <1>1, <1>2, <1>6, <1>7, SizedByLength DEF TypeOK, BatchPlaced, Sized

\* Every step keeps the types and the place of the batch.
LEMMA PlacedStep == UInv /\ [Next]_vars => (TypeOK /\ BatchPlaced)'
<1> SUFFICES ASSUME UInv, [Next]_vars PROVE (TypeOK /\ BatchPlaced)'
  OBVIOUS
<1>1. CASE Handle
  BY <1>1, HandleStep DEF UInv
<1>2. ASSUME NEW u \in Users, NEW kind \in Kinds, Write(u, kind)
      PROVE  (TypeOK /\ BatchPlaced)'
  BY <1>2, WriteStep DEF UInv
<1>3. CASE /\ Next /\ ~Handle
           /\ ~(\E u \in Users, kind \in Kinds : Write(u, kind))
  <2>1. Len(log) \in 0..MaxUpdates
    BY LenProperties DEF UInv, TypeOK
  <2>2. PICK n \in 0..MaxUpdates : Len(log) = n
    BY <2>1
  <2>3. Sized(n)
    BY <2>2, SizedByLength DEF UInv
  <2>4. Sized(n)' /\ log' = log
    BY <1>3, <2>2, <2>3, SizedStep
  <2> QED
    BY <2>2, <2>4 DEF UInv, TypeOK, BatchPlaced, Sized
<1>4. CASE UNCHANGED vars
  BY <1>4 DEF vars, UInv, TypeOK, BatchPlaced
<1> QED
  BY <1>1, <1>2, <1>3, <1>4

\* Every step keeps what the rate limit remembers.
LEMMA RecalledStep == UInv /\ [Next]_vars => Recalled'
<1> SUFFICES ASSUME UInv, [Next]_vars PROVE Recalled'
  OBVIOUS
<1> USE DEF UInv, TypeOK, BatchPlaced, Recalled
<1>1. CASE Handle
  BY <1>1, HandleStep
<1>2. CASE Start
  BY <1>2 DEF Start
<1>3. CASE Replied
  BY <1>3 DEF Replied, NextUpdate
<1>4. CASE ReplyFails
  BY <1>4 DEF ReplyFails
<1>5. CASE Acknowledge
  BY <1>5 DEF Acknowledge, NextUpdate
<1>6. ASSUME NEW last \in Ids, GetUpdates(last) PROVE Recalled'
  BY <1>6 DEF GetUpdates
<1>7. CASE GetNothing
  BY <1>7 DEF GetNothing, vars
<1>8. CASE Crash
  BY <1>8 DEF Crash
<1>9. CASE Expire
  <2>1. ASSUME NEW id \in Ids, verdict[id] # "none"
        PROVE  Rate > 0 /\ tokens'[log'[id].user] = Rate
    <3>1. id \in 1..Len(log)
      BY <2>1
    <3>2. log[id].user \in Users
      BY <3>1, Sender
    <3> QED
      BY <1>9, <3>2 DEF Expire
  <2>2. decisions' = Undecided /\ UNCHANGED <<offset, verdict, log>>
    BY <1>9 DEF Expire
  <2> QED
    BY <2>1, <2>2
<1>10. ASSUME NEW w \in Users, Refill(w) PROVE Recalled'
  <2>1. /\ UNCHANGED <<offset, verdict, decisions, log>>
        /\ tokens' = [tokens EXCEPT ![w] = tokens[w] + 1] /\ tokens[w] \in 0..Rate
    BY <1>10 DEF Refill
  <2>2. \A v \in Users : tokens[v] > 0 => tokens'[v] > 0
    BY <2>1
  <2>3. ASSUME NEW id \in Ids, id <= Len(log) PROVE log[id].user \in Users
    <3>1. id \in 1..Len(log)
      BY <2>3
    <3> QED
      BY <3>1, Sender
  <2> HIDE DEF TypeOK, BatchPlaced, UInv, Recalled
  <2> QED
    BY <2>1, <2>2, <2>3 DEF UInv, Recalled
<1>11. ASSUME NEW u \in Users, NEW kind \in Kinds, Write(u, kind) PROVE Recalled'
  <2>1. /\ UNCHANGED <<offset, verdict, decisions, tokens>>
        /\ log' = Append(log, [user |-> u, kind |-> kind])
    BY <1>11 DEF Write
  <2>2. /\ [user |-> u, kind |-> kind] \in [user : Users, kind : Kinds]
        /\ log \in Seq([user : Users, kind : Kinds])
    OBVIOUS
  <2>3. /\ Len(log) \in Nat /\ Len(log') = Len(log) + 1
        /\ \A i \in 1..Len(log) : log'[i] = log[i]
    BY <2>1, <2>2, AppendProperties, LenProperties
  <2> HIDE DEF TypeOK, BatchPlaced, UInv, Recalled
  <2>4. ASSUME NEW id \in Ids, verdict[id] # "none"
        PROVE  /\ id <= offset /\ id <= Len(log) /\ id \in 1..Len(log)
               /\ id = offset => /\ verdict[id] = "yes"
                                 /\ \/ decisions[id] = "yes"
                                    \/ /\ decisions[id] = "none"
                                       /\ tokens[log[id].user] > 0
    BY <2>4, <2>3 DEF UInv, Recalled
  <2>5. ASSUME NEW id \in Ids, verdict'[id] # "none"
        PROVE  /\ id <= offset' /\ id <= Len(log')
               /\ id = offset' => /\ verdict'[id] = "yes"
                                  /\ \/ decisions'[id] = "yes"
                                     \/ /\ decisions'[id] = "none"
                                        /\ tokens'[log'[id].user] > 0
    BY <2>1, <2>3, <2>4, <2>5
  <2> QED
    BY <2>5 DEF Recalled
<1>12. CASE UNCHANGED vars
  BY <1>12 DEF vars
<1> QED
  BY <1>1, <1>2, <1>3, <1>4, <1>5, <1>6, <1>7, <1>8, <1>9, <1>10, <1>11, <1>12
     DEF Next, Poll

\* Every step keeps the invariant.
LEMMA NextUInv == UInv /\ [Next]_vars => UInv'
  BY PlacedStep, RecalledStep DEF UInv

\* The batch stays where the offset is, whatever fails.
THEOREM UpdatesInvariance == Spec => []UInv
  BY InitUInv, NextUInv, PTL DEF Spec

\* The types of Updates.
THEOREM UpdatesTypeCorrect == Spec => []TypeOK
<1>1. UInv => TypeOK
  BY DEF UInv
<1> QED
  BY <1>1, UpdatesInvariance, PTL

\* An update that is handled again because its reply failed meets the decision
\* of the rate limit it met before, also after the buckets were dropped.
THEOREM DecisionsStand == Spec => DecisionStands
<1> DEFINE Stands == pc' # "down" =>
             \A id \in Ids : verdict[id] # "none" => verdict'[id] = verdict[id]
<1>1. UInv /\ [Next]_vars => [Stands]_vars
  <2> SUFFICES ASSUME UInv, [Next]_vars PROVE Stands \/ UNCHANGED vars
    OBVIOUS
  <2>1. CASE Handle
    <3>1. /\ at \in Ids /\ at = offset /\ at <= Len(log)
      BY <2>1 DEF UInv, TypeOK, BatchPlaced, Handle
    <3>2. verdict[at] # "none" => Decision(at, log[at].user) = verdict[at]
      BY <3>1, DecisionRecalled DEF UInv
    <3>3. verdict' = [verdict EXCEPT ![at] = Decision(at, log[at].user)]
      BY <2>1 DEF Handle
    <3> QED
      BY <3>1, <3>2, <3>3 DEF UInv, TypeOK
  <2>2. CASE Crash
    BY <2>2 DEF Crash
  <2>3. CASE ~Handle /\ ~Crash
    <3>1. UNCHANGED verdict
      BY <2>3 DEF Next, Poll, Start, Replied, ReplyFails, Acknowledge, GetUpdates,
                  GetNothing, Expire, Refill, Write, vars
    <3> QED
      BY <3>1
  <2> QED
    BY <2>1, <2>2, <2>3
<1> QED
  BY <1>1, UpdatesInvariance, PTL DEF Spec, DecisionStands

-----------------------------------------------------------------------------
(* What the updates leave in the database *)

\* Induction, for a set of naturals.
LEMMA SetInduction ==
  ASSUME NEW S, 0 \in S, \A n \in Nat : n \in S => n + 1 \in S
  PROVE  Nat \subseteq S
<1> SUFFICES ASSUME Nat \ S # {} PROVE FALSE
  OBVIOUS
<1> DEFINE T == Nat \ S
           R == OpToRel(<, Nat)
<1>1. IsWellFoundedOn(R, Nat)
  BY NatLessThanWellFounded
<1>2. T \subseteq Nat /\ T # {}
  OBVIOUS
<1>3. \A x, y \in Nat : x < y => <<x, y>> \in R
  BY DEF OpToRel
<1> HIDE DEF T, R
<1>4. PICK x \in T : \A y \in T : ~ (<<y, x>> \in R)
  BY <1>1, <1>2, WFMin
<1>5. x \in Nat /\ x # 0 /\ x \notin S
  BY <1>4 DEF T
<1>6. x - 1 \in Nat /\ x - 1 < x /\ x = (x - 1) + 1
  BY <1>5
<1>7. x - 1 \in S
  BY <1>3, <1>4, <1>5, <1>6 DEF T
<1> QED
  BY <1>5, <1>6, <1>7

\* The rows with one more update applied.
Applied(before, n) ==
  IF n \in limited THEN before
  ELSE [before EXCEPT ![log[n].user] = Apply(@, n, log[n].kind)]

\* The rows after n updates are what the recursion says they are.
Unfolds ==
  /\ After[0] = [u \in Users |-> NewRow]
  /\ \A n \in 1..MaxUpdates : After[n] = Applied(After[n - 1], n)

LEMMA AfterUnfolds == Unfolds
<1> DEFINE first == [u \in Users |-> NewRow]
           Solves(f, n) ==
             f = [i \in 0..n |-> IF i = 0 THEN first ELSE Applied(f[i - 1], i)]
           S == {n \in Nat : \E f : Solves(f, n)}
<1>1. 0 \in S
  <2> DEFINE f == [i \in 0..0 |-> first]
  <2>1. Solves(f, 0)
    OBVIOUS
  <2> QED
    BY <2>1
<1>2. ASSUME NEW n \in Nat, n \in S PROVE n + 1 \in S
  <2>1. PICK f : Solves(f, n)
    BY <1>2
  <2> DEFINE g == [i \in 0..(n + 1) |-> IF i = n + 1 THEN Applied(f[n], n + 1) ELSE f[i]]
  <2>2. \A i \in 0..n : f[i] = IF i = 0 THEN first ELSE Applied(f[i - 1], i)
    BY <2>1
  <2> HIDE DEF first
  <2>3. ASSUME NEW i \in 0..(n + 1)
        PROVE  g[i] = IF i = 0 THEN first ELSE Applied(g[i - 1], i)
    <3>1. CASE i = n + 1
      <4>1. g[i] = Applied(f[n], n + 1) /\ g[i - 1] = f[n]
        BY <3>1
      <4> QED
        BY <3>1, <4>1
    <3>2. CASE i # n + 1 /\ i # 0
      <4>1. i \in 0..n /\ i - 1 \in 0..n /\ g[i] = f[i] /\ g[i - 1] = f[i - 1]
        BY <3>2
      <4> HIDE DEF g
      <4> QED
        BY <2>2, <3>2, <4>1
    <3>3. CASE i = 0
      BY <2>2, <3>3
    <3> QED
      BY <3>1, <3>2, <3>3
  <2>4. g = [i \in 0..(n + 1) |-> IF i = 0 THEN first ELSE Applied(g[i - 1], i)]
    <3>1. g = [i \in 0..(n + 1) |-> g[i]]
      OBVIOUS
    <3> HIDE DEF g
    <3> QED
      BY <2>3, <3>1
  <2>5. Solves(g, n + 1)
    BY <2>4
  <2> HIDE DEF g, Solves
  <2>6. \E f2 : Solves(f2, n + 1)
    BY <2>5
  <2> QED
    BY <2>6
<1>3. MaxUpdates \in S
  <2> HIDE DEF S
  <2>1. \A n \in Nat : n \in S => n + 1 \in S
    BY <1>2
  <2>2. Nat \subseteq S
    BY <1>1, <2>1, SetInduction
  <2> QED
    BY <2>2, UpdatesAssumption
<1>4. PICK f : Solves(f, MaxUpdates)
  BY <1>3
<1>5. After = CHOOSE f2 : Solves(f2, MaxUpdates)
  BY DEF After, Applied
<1>6. Solves(After, MaxUpdates)
  <2> HIDE DEF Solves
  <2> QED
    BY <1>4, <1>5
<1>7. \A n \in 0..MaxUpdates :
        After[n] = IF n = 0 THEN first ELSE Applied(After[n - 1], n)
  BY <1>6
<1>8. After[0] = first
  <2> HIDE DEF first
  <2> QED
    BY <1>7, UpdatesAssumption
<1>9. ASSUME NEW n \in 1..MaxUpdates PROVE After[n] = Applied(After[n - 1], n)
  <2> HIDE DEF first
  <2> QED
    BY <1>7, UpdatesAssumption
<1> QED
  BY <1>8, <1>9 DEF Unfolds

\* So are they in the next state.
LEMMA AfterUnfoldsNext == Unfolds'
  BY AfterUnfolds, PTL

\* The first updates leave the rows they left before when neither the updates
\* nor their refusals change.
LEMMA AfterSame ==
  ASSUME NEW m \in 0..MaxUpdates,
         \A n \in 1..m : log'[n] = log[n] /\ (n \in limited' <=> n \in limited)
  PROVE  \A n \in 0..m : After'[n] = After[n]
<1> DEFINE S == {n \in Nat : n <= m => After'[n] = After[n]}
<1>1. /\ After[0] = After'[0]
      /\ \A n \in 1..MaxUpdates : After[n] = Applied(After[n - 1], n)
      /\ \A n \in 1..MaxUpdates : After'[n] = Applied(After[n - 1], n)'
  BY AfterUnfolds, AfterUnfoldsNext DEF Unfolds
<1>2. 0 \in S
  BY <1>1
<1>3. ASSUME NEW n \in Nat, n \in S PROVE n + 1 \in S
  <2>1. CASE n + 1 <= m
    <3>1. n + 1 \in 1..m /\ n + 1 \in 1..MaxUpdates /\ (n + 1) - 1 = n
          /\ After'[n] = After[n]
      BY <1>3, <2>1
    <3>2. /\ After[n + 1] = Applied(After[n], n + 1)
          /\ After'[n + 1] = Applied(After[n], n + 1)'
      BY <1>1, <3>1
    <3>3. Applied(After[n], n + 1)' = Applied(After[n], n + 1)
      BY <3>1 DEF Applied
    <3> QED
      BY <3>2, <3>3
  <2>2. CASE ~(n + 1 <= m)
    BY <2>2
  <2> QED
    BY <2>1, <2>2
<1>4. Nat \subseteq S
  <2> HIDE DEF S
  <2>1. \A n \in Nat : n \in S => n + 1 \in S
    BY <1>3
  <2> QED
    BY <1>2, <2>1, SetInduction
<1> QED
  BY <1>4

\* Only updates below the offset have been refused.  An update whose offset is
\* held was rejected, and its user has been told before the offset is saved.
Settled ==
  /\ limited \subseteq 1..(offset - 1)
  /\ pc \in {"reply", "ack"} /\ held # None => Rejects(rows[log[at].user], log[at].kind)
  /\ pc = "ack" => at \in replied

SInv == Settled /\ StateMatchesOffset /\ RejectedAreTold

LEMMA InitSInv == Init => SInv
<1> SUFFICES ASSUME Init PROVE SInv
  OBVIOUS
<1>1. After[0] = [u \in Users |-> NewRow]
  BY AfterUnfolds DEF Unfolds
<1> QED
  BY <1>1 DEF Init, SInv, Settled, StateMatchesOffset, RejectedAreTold

\* A step that leaves the updates below the offset, their refusals and the rows
\* as they are.
LEMMA NothingApplied ==
  ASSUME UInv, SInv, UNCHANGED <<offset, rows, limited>>, replied \subseteq replied',
         \A n \in 1..Len(log) : log'[n] = log[n]
  PROVE  StateMatchesOffset' /\ RejectedAreTold'
<1>1. offset - 1 \in 0..MaxUpdates /\ offset - 1 <= Len(log) /\ Len(log) \in Nat
  BY Lengths
<1>2. \A n \in 0..(offset - 1) : After'[n] = After[n]
  <2>1. \A n \in 1..(offset - 1) : log'[n] = log[n] /\ (n \in limited' <=> n \in limited)
    BY <1>1
  <2> QED
    BY <1>1, <2>1, AfterSame
<1>3. StateMatchesOffset'
  BY <1>1, <1>2 DEF SInv, StateMatchesOffset
<1>4. RejectedAreTold'
  <2> SUFFICES ASSUME NEW id \in 1..(offset - 1), id \notin limited,
                      Rejects(After'[id - 1][log'[id].user], log'[id].kind)
               PROVE  id \in replied'
    BY DEF RejectedAreTold, Rejects
  <2>1. log'[id] = log[id] /\ After'[id - 1] = After[id - 1]
    BY <1>1, <1>2
  <2> QED
    BY <2>1 DEF SInv, RejectedAreTold
<1> QED
  BY <1>3, <1>4

\* A rejected input leaves its row as it is.
LEMMA RejectedChangesNothing ==
  ASSUME TypeOK, NEW u \in Users, NEW id, NEW kind, Rejects(rows[u], kind)
  PROVE  [rows EXCEPT ![u] = Apply(@, id, kind)] = rows
<1>1. Apply(rows[u], id, kind) = rows[u]
  BY DEF Rejects, Apply
<1> QED
  BY <1>1 DEF TypeOK

\* Handling an update applies it to what the updates before it left.
LEMMA HandleSettles ==
  ASSUME UInv, SInv, Handle
  PROVE  SInv'
<1> DEFINE u == log[at].user
           kind == log[at].kind
           allowed == Decision(at, u) = "yes"
           holds == allowed /\ Rejects(rows[u], kind)
<1>1. /\ at \in Ids /\ at = offset /\ at <= Len(log) /\ u \in Users /\ Len(log) \in Nat
  <2>1. at \in 1..Len(log) /\ at \in Ids /\ at = offset /\ Len(log) \in Nat
    BY Lengths DEF Handle
  <2>2. u \in Users
    BY <2>1, Sender DEF UInv
  <2> QED
    BY <2>1, <2>2
<1>2. /\ pc' = "reply" /\ UNCHANGED <<log, at, replied>>
      /\ offset' = IF holds THEN offset ELSE at + 1
      /\ held' = IF holds THEN at + 1 ELSE None
      /\ rows' = IF allowed THEN [rows EXCEPT ![u] = Apply(@, at, kind)] ELSE rows
      /\ limited' = IF allowed THEN limited ELSE limited \cup {at}
  BY DEF Handle, HandledOffset
<1>3. at \notin limited
  BY <1>1 DEF SInv, Settled
<1>4. rows = After[at - 1] /\ at - 1 \in 0..MaxUpdates
  BY <1>1 DEF SInv, StateMatchesOffset
<1> HIDE DEF u, kind, allowed
<1>5. CASE holds
  <2>1. rows' = rows
    BY <1>1, <1>2, <1>5, RejectedChangesNothing DEF UInv
  <2>2. Settled'
    BY <1>2, <1>5, <2>1 DEF SInv, Settled, u, kind
  <2>3. StateMatchesOffset' /\ RejectedAreTold'
    BY <1>2, <1>5, <2>1, NothingApplied
  <2> QED
    BY <2>2, <2>3 DEF SInv
<1>6. CASE ~holds
  <2>1. \A n \in 0..(at - 1) : After'[n] = After[n]
    <3>1. \A n \in 1..(at - 1) : log'[n] = log[n] /\ (n \in limited' <=> n \in limited)
      BY <1>1, <1>2
    <3> QED
      BY <1>4, <3>1, AfterSame
  <2>2. at \in limited' <=> ~allowed
    BY <1>2, <1>3
  <2>3. After'[at] = Applied(After[at - 1], at)'
    BY <1>1, <1>2, AfterUnfoldsNext DEF Unfolds, Applied
  <2>4. Applied(After[at - 1], at)' = rows'
    <3>1. After'[at' - 1] = rows
      BY <1>1, <1>2, <1>4, <2>1
    <3> QED
      BY <1>2, <2>2, <3>1 DEF Applied, u, kind
  <2>5. StateMatchesOffset'
    BY <1>1, <1>2, <1>6, <2>3, <2>4 DEF StateMatchesOffset
  <2>6. Settled'
    BY <1>1, <1>2, <1>6 DEF SInv, Settled
  <2>7. RejectedAreTold'
    <3> SUFFICES ASSUME NEW id \in 1..at, id \notin limited',
                        Rejects(After'[id - 1][log'[id].user], log'[id].kind)
                 PROVE  id \in replied'
      BY <1>1, <1>2, <1>6 DEF RejectedAreTold, Rejects
    <3>1. log'[id] = log[id] /\ After'[id - 1] = After[id - 1] /\ id \notin limited
      BY <1>1, <1>2, <2>1
    <3>2. CASE id = at
      BY <1>2, <1>4, <1>6, <2>2, <3>1, <3>2 DEF u, kind
    <3>3. CASE id < at
      BY <1>1, <1>2, <3>1, <3>3 DEF SInv, RejectedAreTold
    <3> QED
      BY <1>1, <3>2, <3>3
  <2> QED
    BY <2>5, <2>6, <2>7 DEF SInv
<1> QED
  BY <1>5, <1>6

\* The offset passes a rejected input after its user was told.
LEMMA AcknowledgeSettles ==
  ASSUME UInv, SInv, Acknowledge
  PROVE  SInv'
<1>1. /\ at \in 1..Len(log) /\ at = offset /\ held = at + 1 /\ at \in Ids
      /\ Len(log) \in Nat
  BY Lengths DEF UInv, BatchPlaced, Acknowledge
<1>2. /\ offset' = at + 1 /\ pc' \in {"handle", "poll"} /\ held' = None
      /\ UNCHANGED <<log, rows, limited, replied>>
  BY <1>1 DEF Acknowledge, NextUpdate
<1>3. /\ Rejects(rows[log[at].user], log[at].kind) /\ at \in replied
      /\ at \notin limited /\ rows = After[at - 1]
  BY <1>1, UpdatesAssumption DEF Acknowledge, SInv, Settled, StateMatchesOffset
<1>4. \A n \in 0..at : After'[n] = After[n]
  BY <1>1, <1>2, AfterSame
<1>5. After[at] = rows
  <2>1. After[at] = [rows EXCEPT ![log[at].user] = Apply(@, at, log[at].kind)]
    BY <1>1, <1>3, AfterUnfolds DEF Unfolds, Applied
  <2>2. log[at].user \in Users
    BY <1>1, Sender DEF UInv
  <2>3. [rows EXCEPT ![log[at].user] = Apply(@, at, log[at].kind)] = rows
    BY <1>3, <2>2, RejectedChangesNothing DEF UInv
  <2> QED
    BY <2>1, <2>3
<1>6. StateMatchesOffset'
  BY <1>1, <1>2, <1>4, <1>5 DEF StateMatchesOffset
<1>7. Settled'
  BY <1>1, <1>2 DEF SInv, Settled
<1>8. RejectedAreTold'
  <2> SUFFICES ASSUME NEW id \in 1..at, id \notin limited,
                      Rejects(After'[id - 1][log[id].user], log[id].kind)
               PROVE  id \in replied
    BY <1>1, <1>2 DEF RejectedAreTold, Rejects
  <2>1. CASE id = at
    BY <1>3, <2>1
  <2>2. CASE id < at
    <3>1. After'[id - 1] = After[id - 1] /\ id \in 1..(offset - 1)
      BY <1>1, <1>4, <2>2
    <3> QED
      BY <3>1 DEF SInv, RejectedAreTold
  <2> QED
    BY <1>1, <2>1, <2>2
<1> QED
  BY <1>6, <1>7, <1>8 DEF SInv

\* Every step keeps the rows with the offset.
LEMMA NextSInv == UInv /\ SInv /\ [Next]_vars => SInv'
<1> SUFFICES ASSUME UInv, SInv, [Next]_vars PROVE SInv'
  OBVIOUS
<1>1. CASE Handle
  BY <1>1, HandleSettles
<1>2. CASE Acknowledge
  BY <1>2, AcknowledgeSettles
<1>3. CASE Replied
  <2>1. /\ UNCHANGED <<log, offset, rows, limited, held>>
        /\ replied' = replied \cup {at}
        /\ pc' = "ack" => at' = at /\ held # None
        /\ pc' # "reply"
    BY <1>3 DEF Replied, NextUpdate
  <2>2. StateMatchesOffset' /\ RejectedAreTold'
    BY <2>1, NothingApplied
  <2>3. Settled'
    BY <1>3, <2>1 DEF SInv, Settled, Replied
  <2> QED
    BY <2>2, <2>3 DEF SInv
<1>4. ASSUME NEW u \in Users, NEW k \in Kinds, Write(u, k) PROVE SInv'
  <2>1. /\ UNCHANGED <<offset, rows, limited, replied, pc, at, held>>
        /\ log' = Append(log, [user |-> u, kind |-> k])
        /\ log \in Seq([user : Users, kind : Kinds])
    BY <1>4 DEF Write, UInv, TypeOK
  <2>2. \A n \in 1..Len(log) : log'[n] = log[n]
    BY <2>1, AppendProperties
  <2>3. StateMatchesOffset' /\ RejectedAreTold'
    BY <2>1, <2>2, NothingApplied
  <2>4. pc \in {"reply", "ack"} => log'[at] = log[at]
    BY <2>2 DEF UInv, BatchPlaced
  <2>5. Settled'
    BY <2>1, <2>4 DEF SInv, Settled, Rejects
  <2> QED
    BY <2>3, <2>5 DEF SInv
<1>5. CASE Start \/ ReplyFails \/ Crash \/ \E last \in Ids : GetUpdates(last)
  <2>1. /\ UNCHANGED <<log, offset, rows, limited, replied>>
        /\ pc' \notin {"reply", "ack"}
    BY <1>5 DEF Start, ReplyFails, Crash, GetUpdates
  <2>2. StateMatchesOffset' /\ RejectedAreTold'
    BY <2>1, NothingApplied
  <2>3. Settled'
    BY <2>1 DEF SInv, Settled
  <2> QED
    BY <2>2, <2>3 DEF SInv
<1>6. CASE Expire \/ GetNothing \/ UNCHANGED vars \/ \E u \in Users : Refill(u)
  <2>1. UNCHANGED <<log, offset, rows, limited, replied, pc, at, held>>
    BY <1>6 DEF Expire, GetNothing, Refill, vars
  <2>2. StateMatchesOffset' /\ RejectedAreTold'
    BY <2>1, NothingApplied
  <2>3. Settled'
    BY <2>1 DEF SInv, Settled, Rejects
  <2> QED
    BY <2>2, <2>3 DEF SInv
<1> QED
  BY <1>1, <1>2, <1>3, <1>4, <1>5, <1>6 DEF Next, Poll

LEMMA UpdatesSettled == Spec => []SInv
  BY InitUInv, NextUInv, InitSInv, NextSInv, PTL DEF Spec

\* The database is what the updates below the offset made of it, each applied
\* once and in order, whatever is abandoned, fails or crashes.
THEOREM StateFollowsOffset == Spec => []StateMatchesOffset
<1>1. SInv => StateMatchesOffset
  BY DEF SInv
<1> QED
  BY <1>1, UpdatesSettled, PTL

\* The offset passes a rejected input only after its user was told.
THEOREM RejectionsAreTold == Spec => []RejectedAreTold
<1>1. SInv => RejectedAreTold
  BY DEF SInv
<1> QED
  BY <1>1, UpdatesSettled, PTL
=============================================================================
