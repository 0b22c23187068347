------------------------------- MODULE Crawl -------------------------------
(***************************************************************************)
(* Discovery (crawl.rs) against a source that changes while it is read:    *)
(* the pages of each category, the date watermark derived from what is     *)
(* stored (storage.rs: load_crawl), and the one transaction that commits   *)
(* a whole crawl (commit_crawl).                                           *)
(*                                                                         *)
(* List.am is outside: a board per category, newest card first, to which   *)
(* cards are posted and refreshed at the top with the date of the day. A   *)
(* card's data is its date; a card may show none. Only calendar days       *)
(* matter, since a card counts as posted at the end of its day.            *)
(***************************************************************************)
EXTENDS Integers, Sequences, FiniteSets

CONSTANTS
  Cards,
  Categories,       \* the sources a deployment may configure, in their order
  None,
  PageSize,
  InitialPages, AddedPages,   \* initialPageCount, addedCategoryPageCount
  Undated,          \* the cards that show no date
  RelativeDates,    \* are the last two days shown as Today and Yesterday
  MaxDays, MaxRefreshes, MaxFailures  \* bounds

ASSUME SourceAssumption ==
  /\ IsFiniteSet(Cards) /\ Undated \subseteq Cards /\ RelativeDates \in BOOLEAN
  /\ Categories \in Seq(STRING) /\ Len(Categories) > 0
  /\ \A i, j \in 1..Len(Categories) : Categories[i] = Categories[j] => i = j
ASSUME PagesAssumption ==
  PageSize \in Nat \ {0} /\ InitialPages \in Nat \ {0} /\ AddedPages \in Nat \ {0}
ASSUME BoundsAssumption ==
  MaxDays \in Nat \ {0} /\ MaxRefreshes \in Nat /\ MaxFailures \in Nat

VARIABLES
  \* List.am
  day,
  board,      \* the cards of each category, the newest first
  date,       \* the day each one was last posted or refreshed
  \* the database
  stored,     \* apartments
  \* the crawl
  sources,    \* how many categories are configured
  pc,
  at,         \* the category being read
  page,
  today,      \* now_ms, taken when the crawl began
  watermarks, \* None for a category without stored history
  seen,       \* encountered, with the date each card was read with
  signatures, \* the pages of this category already read
  \* history and bounds
  moves,      \* cards that came to the top of a board since the last fetch
  owed,       \* posted or refreshed since the first crawl of their category
  due,        \* the owed ones this crawl must store
  unstored,   \* changed by the source since they were stored
  refreshes, failures

source   == <<day, board, date>>
crawl    == <<pc, at, page, today, watermarks, seen, signatures>>
history  == <<moves, owed, due, unstored>>
bounds   == <<refreshes, failures>>
vars == <<source, stored, sources, crawl, history, bounds>>

Kinds == {Categories[i] : i \in 1..Len(Categories)}
Kind == Categories[at]
On(k) == {board[k][i] : i \in 1..Len(board[k])}
Posted == UNION {On(k) : k \in Kinds}

\* a date as it is written: a calendar day, or so many days ago
Texts == [relative : BOOLEAN, n : 0..MaxDays]
Calendar(d) == [relative |-> FALSE, n |-> d]
Written(d) == IF RelativeDates /\ day - d <= 1
              THEN [relative |-> TRUE, n |-> day - d] ELSE Calendar(d)

\* posting_date_ms, at a reference
Value(text, reference) == IF text.relative THEN reference - text.n ELSE text.n

Listings == [kind : Kinds, text : Texts]

ASSUME NoneAssumption == None \notin Nat /\ None \notin Listings

TypeOK ==
  /\ day \in 1..MaxDays /\ board \in [Kinds -> Seq(Cards)]
  /\ date \in [Cards -> 0..MaxDays]
  /\ stored \in [Cards -> Listings \cup {None}]
  /\ sources \in 1..Len(Categories)
  /\ pc \in {"idle", "fetch", "commit"} /\ at \in 1..sources /\ page \in Nat \ {0}
  /\ today \in 1..MaxDays
  /\ watermarks \in [Kinds -> 0..MaxDays \cup {None}]
  /\ seen \in [Cards -> Listings \cup {None}]
  /\ signatures \in SUBSET Seq(Cards)
  /\ moves \in Nat /\ owed \subseteq Cards /\ due \subseteq owed
  /\ unstored \subseteq Cards
  /\ refreshes \in 0..MaxRefreshes /\ failures \in 0..MaxFailures
  \* no card is on two boards, or twice on one
  /\ \A k, l \in Kinds : \A i \in 1..Len(board[k]), j \in 1..Len(board[l]) :
       board[k][i] = board[l][j] => k = l /\ i = j

Init ==
  /\ day = 1 /\ board = [k \in Kinds |-> <<>>] /\ date = [c \in Cards |-> 0]
  /\ stored = [c \in Cards |-> None] /\ sources = 1
  /\ pc = "idle" /\ at = 1 /\ page = 1 /\ today = 1
  /\ watermarks = [k \in Kinds |-> None]
  /\ seen = [c \in Cards |-> None] /\ signatures = {}
  /\ moves = 0 /\ owed = {} /\ due = {} /\ unstored = {}
  /\ refreshes = 0 /\ failures = 0

-----------------------------------------------------------------------------
(* List.am *)

\* fewer than a page of cards come to the top between two fetches
Calm == pc = "fetch" => moves < PageSize - 1

OfKind(k) == {c \in Cards : stored[c] # None /\ stored[c].kind = k}

\* what a category shows is owed once its first page has been read for the
\* first time
Followed(k) ==
  \/ OfKind(k) # {}
  \/ \E i \in 1..sources : Categories[i] = k /\
       (pc = "commit" \/ i < at \/ (i = at /\ page > 1))

\* c comes first, and the cards above place p move down
Raised(cards, c, p) ==
  [i \in 1..(IF p <= Len(cards) THEN Len(cards) ELSE p) |->
     IF i = 1 THEN c ELSE IF i <= p THEN cards[i - 1] ELSE cards[i]]

Without(cards, p) ==
  [i \in 1..(Len(cards) - 1) |-> IF i < p THEN cards[i] ELSE cards[i + 1]]

ToTop(c, k, p) ==
  /\ Calm
  /\ board' = [board EXCEPT ![k] = Raised(@, c, p)]
  /\ date' = [date EXCEPT ![c] = day]
  /\ moves' = IF pc = "fetch" THEN moves + 1 ELSE 0
  /\ owed' = IF Followed(k) THEN owed \cup {c} ELSE owed
  /\ due' = due \ {c}
  /\ unstored' = IF c \in Undated /\ stored[c] # None THEN unstored
                                                      ELSE unstored \cup {c}
  /\ UNCHANGED <<day, stored, sources, crawl, failures>>

Post(c, k) ==
  /\ c \notin Posted /\ date[c] = 0
  /\ ToTop(c, k, Len(board[k]) + 1)
  /\ UNCHANGED refreshes

Refresh(p, k) ==
  /\ refreshes < MaxRefreshes /\ refreshes' = refreshes + 1
  /\ ToTop(board[k][p], k, p)

\* a card taken down moves those below it up; a category is never emptied
Remove(p, k) ==
  /\ pc # "fetch" /\ Len(board[k]) > 1
  /\ board' = [board EXCEPT ![k] = Without(@, p)]
  /\ owed' = owed \ {board[k][p]} /\ due' = due \ {board[k][p]}
  /\ UNCHANGED <<day, date, stored, sources, crawl, moves, unstored, bounds>>

Tick ==
  /\ day < MaxDays /\ day' = day + 1
  /\ UNCHANGED <<board, date, stored, sources, crawl, history, bounds>>

-----------------------------------------------------------------------------
(* The crawl *)

\* a restart with one more category, which shows cards
AddCategory ==
  /\ pc = "idle" /\ sources < Len(Categories)
  /\ board[Categories[sources + 1]] # <<>>
  /\ sources' = sources + 1
  /\ UNCHANGED <<source, stored, crawl, history, bounds>>

\* load_crawl: the newest date stored for the category
Watermark(k) ==
  IF OfKind(k) = {} THEN None
  ELSE LET values == {Value(stored[c].text, day) : c \in OfKind(k)} IN
         CHOOSE v \in values : \A w \in values : w <= v

Begin ==
  /\ pc = "idle" /\ pc' = "fetch" /\ at' = 1 /\ page' = 1
  /\ today' = day
  /\ watermarks' = [k \in Kinds |-> Watermark(k)]
  /\ seen' = [c \in Cards |-> None] /\ signatures' = {}
  /\ moves' = 0
  /\ due' = {c \in owed : \E i \in 1..sources : c \in On(Categories[i])}
  /\ UNCHANGED <<source, stored, sources, owed, unstored, bounds>>

Initial(k) == watermarks[k] = None

\* is anything stored at all
FirstCrawl == \A c \in Cards : stored[c] = None

Budget == IF FirstCrawl THEN InitialPages ELSE AddedPages

OverBudget == Initial(Kind) /\ page > Budget

\* the cards before the page that is read next
Passed == (page - 1) * PageSize

\* does the category end before it
Beyond == Passed >= Len(board[Kind])

\* a page of the cards after the first n
PageAfter(cards, n) ==
  SubSeq(cards, n + 1, IF n + PageSize < Len(cards) THEN n + PageSize ELSE Len(cards))

\* past the end List.am shows no cards, or the last page again
Pages ==
  LET cards == board[Kind]
      last == {n \in 0..(Len(cards) - 1) : n % PageSize = 0 /\ n + PageSize >= Len(cards)}
  IN IF Beyond THEN {<<>>} \cup {PageAfter(cards, n) : n \in last}
               ELSE {PageAfter(cards, Passed)}

\* mutant: an undated card is dated by the crawl that reads it
ReadDateNow(c) ==
  IF c \notin Undated THEN Written(date[c]) ELSE Calendar(today)

\* the date a card is read with: what it shows, else what is stored for it,
\* else the day of the crawl
ReadDate(c) ==
  IF c \notin Undated THEN Written(date[c])
  ELSE IF stored[c] # None THEN stored[c].text ELSE Calendar(today)

\* mutant: a card of the watermark's own day ends the scan
OldOrEqual(c) ==
  /\ ~Initial(Kind) /\ c \notin Undated
  /\ Value(ReadDate(c), today) <= watermarks[Kind]

\* mutant: a card that is already stored ends the scan
OldOrKnown(c) == ~Initial(Kind) /\ stored[c] # None

Old(c) ==
  /\ ~Initial(Kind) /\ c \notin Undated
  /\ Value(ReadDate(c), today) < watermarks[Kind]

\* the cards before the first old one, and that one if it is known
Scanned(cards) ==
  LET old == {i \in 1..Len(cards) : Old(cards[i])}
      stop == CHOOSE i \in old : \A j \in old : i <= j
  IN IF old = {} THEN {cards[i] : i \in 1..Len(cards)}
     ELSE {cards[i] : i \in 1..(stop - 1)} \cup
          {c \in {cards[stop]} : stored[c] # None}

Collected(cards) ==
  [c \in Cards |-> IF seen[c] = None /\ c \in Scanned(cards)
                   THEN [kind |-> Kind, text |-> ReadDate(c)] ELSE seen[c]]

\* mutant: the last category is not recognised
NextCategoryBeyond ==
  /\ signatures' = {} /\ page' = 1
  /\ IF at > sources THEN pc' = "commit" /\ UNCHANGED at
                     ELSE at' = at + 1 /\ UNCHANGED pc

NextCategory ==
  /\ signatures' = {} /\ page' = 1
  /\ IF at = sources THEN pc' = "commit" /\ UNCHANGED at
                     ELSE at' = at + 1 /\ UNCHANGED pc

NextPage(cards) ==
  /\ signatures' = signatures \cup {cards} /\ page' = page + 1
  /\ UNCHANGED <<pc, at>>

BudgetSpent ==
  /\ pc = "fetch" /\ OverBudget
  /\ NextCategory
  /\ UNCHANGED <<source, stored, sources, today, watermarks, seen, history, bounds>>

\* A last page shown again on a later day has cards of that day among those read
\* before.  A card that came to its top meanwhile keeps its first date, which
\* the next watermark passes: nothing is promised for it.
Forgone == {c \in On(Kind) \ due : seen[c] # None /\ Beyond /\ day # today}

\* an empty page and a page already read end the category
Fetch(cards) ==
  /\ pc = "fetch" /\ ~OverBudget
  /\ cards # <<>> \/ page > 1
  /\ moves' = 0
  /\ IF cards = <<>> \/ cards \in signatures
     THEN NextCategory /\ UNCHANGED <<seen, owed>>
     ELSE /\ seen' = Collected(cards) /\ owed' = owed \ Forgone
          /\ IF \E i \in 1..Len(cards) : Old(cards[i]) THEN NextCategory
                                                       ELSE NextPage(cards)
  /\ UNCHANGED <<source, stored, sources, today, watermarks, due, unstored, bounds>>

Abandon ==
  /\ pc' = "idle" /\ at' = 1 /\ page' = 1
  /\ seen' = [c \in Cards |-> None] /\ signatures' = {}
  /\ watermarks' = [k \in Kinds |-> None]
  /\ today' = 1 /\ moves' = 0 /\ due' = {}
  /\ owed' = owed \ UNION {On(k) : k \in {l \in Kinds : OfKind(l) = {}}}
  /\ UNCHANGED <<source, stored, sources, unstored>>

\* an empty first page fails the integrity check
FirstPageEmpty ==
  /\ pc = "fetch" /\ page = 1 /\ board[Kind] = <<>>
  /\ Abandon /\ UNCHANGED bounds

\* a fetch fails or is challenged, a page fails another integrity check, the
\* transaction fails, or the process dies
Fail ==
  /\ pc # "idle" /\ failures < MaxFailures
  /\ failures' = failures + 1 /\ UNCHANGED refreshes
  /\ Abandon

\* a new card, or one whose date is written differently now
Changed(c) == seen[c] # None /\ (stored[c] = None \/ stored[c].text # seen[c].text)

\* what the transaction leaves for a card
After(c) == IF Changed(c) THEN seen[c] ELSE stored[c]

UpToDate(c) ==
  After(c) # None /\ (c \in Undated \/ Value(After(c).text, today) = date[c])

Commit ==
  /\ pc = "commit" /\ pc' = "idle" /\ at' = 1 /\ today' = 1
  /\ stored' = [c \in Cards |-> After(c)]
  /\ owed' = {c \in owed : ~UpToDate(c)} /\ due' = {}
  /\ unstored' = {c \in unstored : ~UpToDate(c)}
  /\ seen' = [c \in Cards |-> None]
  /\ watermarks' = [k \in Kinds |-> None]
  /\ UNCHANGED <<source, sources, page, signatures, moves, bounds>>

Step == Begin \/ BudgetSpent \/ (\E cards \in Pages : Fetch(cards))
        \/ FirstPageEmpty \/ Commit

Next ==
  \/ \E k \in Kinds : \/ \E c \in Cards : Post(c, k)
                     \/ \E p \in 1..Len(board[k]) : Refresh(p, k) \/ Remove(p, k)
  \/ Tick \/ AddCategory \/ Step \/ Fail

Spec == Init /\ [][Next]_vars
FairSpec == Spec /\ WF_vars(Step)

-----------------------------------------------------------------------------
\* A crawl that commits has stored, with its current date, every card that was
\* posted or refreshed before the crawl began and after the first crawl of its
\* category: also those that share the day of the watermark and those below a
\* refreshed or a known card, whatever came to the top while it was reading.
NothingMissed ==
  [][stored' # stored \/ (pc = "commit" /\ pc' = "idle" /\ failures' = failures)
       => \A c \in due : UpToDate(c)]_vars

\* A stored listing changes only when List.am changed it: reading a card again,
\* on another day or without a date, is no news.
UpdatesAreReal ==
  [][\A c \in Cards :
       stored'[c] # stored[c] => stored[c] = None \/ c \in unstored]_vars

\* What is owed is stored in the end, or taken down, although crawls fail and
\* their pages move.
Discovered == \A c \in Cards : c \in owed ~> c \notin owed
=============================================================================
