------------------------------- MODULE Updates -------------------------------
(***************************************************************************)
(* The updates of Telegram from getUpdates to the stored offset            *)
(* (runtime.rs: poll_thread, send_operations; bot.rs: handle_update,       *)
(* process, Context; storage.rs: save_telegram, update_offset).            *)
(*                                                                         *)
(* The offset is saved in one transaction with what an update changes,     *)
(* before its reply is sent; the offset of an input that is rejected is    *)
(* saved after its reply. A reply may fail, which abandons the batch, and  *)
(* the process may die between any two steps.                              *)
(*                                                                         *)
(* Of a user's row the filter that is being entered is kept, since an      *)
(* update means something else before and after it. Deletion, access and   *)
(* deactivation are in Delivery, the answers about listings in Selection.  *)
(***************************************************************************)
EXTENDS Naturals, Sequences

CONSTANTS
  Users,
  None,
  Rate,         \* telegramUserUpdatesPerMinute
  MaxUpdates, MaxCrashes   \* bounds

ASSUME UpdatesAssumption ==
  /\ Rate \in Nat \ {0} /\ MaxUpdates \in Nat /\ MaxCrashes \in Nat
  /\ None \notin Nat

VARIABLES
  log,        \* what users sent to Telegram; an update's id is its place
  \* the database
  offset,
  rows,       \* telegram_users: the input that is pending, the filter's value
  \* the poll thread
  pc,
  at, end,    \* the update under way, the last of the batch
  held,       \* ackOffset
  tokens,     \* Context.buckets
  decisions,  \* Context.decisions
  \* history and bounds
  limited,    \* updates that were refused by the rate limit
  replied,    \* updates whose reply Telegram accepted or refused for good
  verdict,    \* what this process first decided of an update's rate
  crashes

database == <<offset, rows>>
batch    == <<pc, at, end, held>>
context  == <<tokens, decisions>>
history  == <<limited, replied, verdict>>
vars == <<log, database, batch, context, history, crashes>>

Ids == 1..MaxUpdates
Kinds == {"ask", "valid", "invalid", "menu"}
NewRow == [pending |-> FALSE, value |-> 0]
Undecided == [id \in Ids |-> "none"]
Full == [u \in Users |-> Rate]

TypeOK ==
  /\ log \in Seq([user : Users, kind : Kinds]) /\ Len(log) <= MaxUpdates
  /\ offset \in 1..(Len(log) + 1)
  /\ rows \in [Users -> [pending : BOOLEAN, value : 0..MaxUpdates]]
  /\ pc \in {"down", "poll", "handle", "reply", "ack"}
  /\ at \in 0..MaxUpdates /\ end \in 0..Len(log)
  /\ held \in 2..(MaxUpdates + 1) \cup {None}
  /\ tokens \in [Users -> 0..Rate]
  /\ decisions \in [Ids -> {"none", "yes", "no"}]
  /\ limited \subseteq Ids /\ replied \subseteq Ids
  /\ verdict \in [Ids -> {"none", "yes", "no"}]
  /\ crashes \in 0..MaxCrashes
  \* the batch goes on where the offset is, or just before while a reply is due
  /\ pc = "handle" => at = offset /\ at <= end
  /\ pc = "ack" => held = offset + 1

Init ==
  /\ log = <<>> /\ offset = 1 /\ rows = [u \in Users |-> NewRow]
  /\ pc = "down" /\ at = 0 /\ end = 0 /\ held = None
  /\ tokens = Full /\ decisions = Undecided
  /\ limited = {} /\ replied = {} /\ verdict = Undecided
  /\ crashes = 0

-----------------------------------------------------------------------------
(* Users and time *)

Write(u, kind) ==
  /\ Len(log) < MaxUpdates
  /\ log' = Append(log, [user |-> u, kind |-> kind])
  /\ UNCHANGED <<database, batch, context, history, crashes>>

Refill(u) ==
  /\ tokens[u] < Rate
  /\ tokens' = [tokens EXCEPT ![u] = @ + 1]
  /\ UNCHANGED <<log, database, batch, decisions, history, crashes>>

\* after a quarter of an hour buckets and decisions are dropped
Expire ==
  /\ decisions # Undecided
  /\ decisions' = Undecided /\ tokens' = Full
  /\ UNCHANGED <<log, database, batch, history, crashes>>

-----------------------------------------------------------------------------
(* process: what an update does to a row *)

Rejects(row, kind) == row.pending /\ kind = "invalid"

Apply(row, id, kind) ==
  CASE kind = "ask"  -> [row EXCEPT !.pending = TRUE]
    [] kind = "menu" -> [row EXCEPT !.pending = FALSE]
    [] kind = "valid" /\ row.pending -> [pending |-> FALSE, value |-> id]
    [] OTHER -> row

\* Context.consume: a decision that is remembered costs nothing
Decision(id, u) ==
  IF decisions[id] # "none" THEN decisions[id]
  ELSE IF tokens[u] > 0 THEN "yes" ELSE "no"

Tokens(id, u) ==
  IF decisions[id] = "none" /\ tokens[u] > 0
  THEN [tokens EXCEPT ![u] = @ - 1] ELSE tokens

\* mutant: the decision on the update whose offset is held is dropped too
RememberedAbove(id, decision, saved) ==
  [i \in Ids |-> IF i <= saved THEN "none"
                 ELSE IF i = id THEN decision ELSE decisions[i]]

\* decisions below the saved offset are dropped
Remembered(id, decision, saved) ==
  [i \in Ids |-> IF i < saved THEN "none"
                 ELSE IF i = id THEN decision ELSE decisions[i]]

-----------------------------------------------------------------------------
(* The poll thread *)

Start ==
  /\ pc = "down" /\ pc' = "poll"
  /\ UNCHANGED <<log, database, at, end, held, context, history, crashes>>

\* a call that fails or returns nothing is repeated
GetNothing == pc = "poll" /\ UNCHANGED vars

\* getUpdates returns some of what it has from the offset on
GetUpdates(last) ==
  /\ pc = "poll" /\ last \in offset..Len(log)
  /\ pc' = "handle" /\ at' = offset /\ end' = last
  /\ UNCHANGED <<log, database, held, context, history, crashes>>

\* mutant: the offset is saved before the reply to a rejected input
HandledOffsetAtOnce(holds) == offset' = at + 1 /\ held' = None

\* mutant: every offset is saved after the reply
HandledOffsetLate(holds) == offset' = offset /\ held' = at + 1

\* the offset of a rejected input is saved after its reply
HandledOffset(holds) ==
  /\ offset' = IF holds THEN offset ELSE at + 1
  /\ held' = IF holds THEN at + 1 ELSE None

\* handle_update, with the database locked
Handle ==
  /\ pc = "handle" /\ pc' = "reply"
  /\ LET u == log[at].user
         kind == log[at].kind
         decision == Decision(at, u)
         allowed == decision = "yes"
     IN /\ HandledOffset(allowed /\ Rejects(rows[u], kind))
        /\ rows' = IF allowed THEN [rows EXCEPT ![u] = Apply(@, at, kind)] ELSE rows
        /\ tokens' = Tokens(at, u)
        /\ decisions' = Remembered(at, decision, offset')
        /\ limited' = IF allowed THEN limited ELSE limited \cup {at}
        /\ verdict' = [verdict EXCEPT ![at] = decision]
  /\ UNCHANGED <<log, at, end, replied, crashes>>

NextUpdate ==
  IF at < end THEN pc' = "handle" /\ at' = at + 1 /\ UNCHANGED end
              ELSE pc' = "poll" /\ at' = 0 /\ end' = 0

\* accepted, or refused because the user blocked the bot
Replied ==
  /\ pc = "reply"
  /\ replied' = replied \cup {at}
  /\ IF held = None THEN NextUpdate ELSE pc' = "ack" /\ UNCHANGED <<at, end>>
  /\ UNCHANGED <<log, database, held, context, limited, verdict, crashes>>

\* the rest of the batch waits for the next getUpdates
ReplyFails ==
  /\ pc = "reply"
  /\ pc' = "poll" /\ at' = 0 /\ end' = 0 /\ held' = None
  /\ UNCHANGED <<log, database, context, history, crashes>>

\* mutant: the offset is not saved when the reply was accepted
AcknowledgeNothing ==
  /\ pc = "ack"
  /\ held' = None
  /\ NextUpdate
  /\ UNCHANGED <<log, database, context, history, crashes>>

\* update_offset
Acknowledge ==
  /\ pc = "ack"
  /\ offset' = held /\ held' = None
  /\ NextUpdate
  /\ UNCHANGED <<log, rows, context, history, crashes>>

\* a crash, a statement that fails, or the end of a process told to stop
Crash ==
  /\ pc # "down" /\ crashes < MaxCrashes
  /\ crashes' = crashes + 1
  /\ pc' = "down" /\ at' = 0 /\ end' = 0 /\ held' = None
  /\ tokens' = Full /\ decisions' = Undecided /\ verdict' = Undecided
  /\ UNCHANGED <<log, database, limited, replied>>

Poll ==
  \/ Start \/ Handle \/ Replied \/ ReplyFails \/ Acknowledge
  \/ \E last \in Ids : GetUpdates(last)

Next ==
  \/ Poll \/ GetNothing \/ Crash \/ Expire
  \/ \E u \in Users : Refill(u) \/ \E kind \in Kinds : Write(u, kind)

Spec == Init /\ [][Next]_vars
\* in the end Telegram answers
FairSpec == Spec /\ WF_vars(Poll) /\ SF_vars(Replied)

-----------------------------------------------------------------------------
\* the rows after the first n updates, each applied once and in order
After[n \in 0..MaxUpdates] ==
  IF n = 0 THEN [u \in Users |-> NewRow]
  ELSE IF n \in limited THEN After[n - 1]
  ELSE [After[n - 1] EXCEPT ![log[n].user] = Apply(@, n, log[n].kind)]

\* The database is what the updates below the offset made of it, each of them
\* applied once and in order: a batch that is abandoned, a reply that fails, a
\* crash between any two steps lose none and repeat none.
StateMatchesOffset == rows = After[offset - 1]

\* The offset passes a rejected input only after its user has been told, or
\* cannot be.
RejectedAreTold ==
  \A id \in 1..(offset - 1) :
    id \notin limited /\ Rejects(After[id - 1][log[id].user], log[id].kind)
      => id \in replied

\* An update that is handled again because its reply failed meets the same
\* decision of the rate limit: it is neither charged into a refusal nor let in.
DecisionStands ==
  [][pc' # "down" =>
       \A id \in Ids : verdict[id] # "none" => verdict'[id] = verdict[id]]_vars

\* Every update is handled in the end, also those behind a reply that fails.
Handled == \A id \in Ids : Len(log) >= id ~> offset > id
=============================================================================
