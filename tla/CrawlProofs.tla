----------------------------- MODULE CrawlProofs -----------------------------
(***************************************************************************)
(* What a crawl stores of a source that changes while it is read, proved   *)
(* for any cards, categories, page size, page budgets and bounds: the      *)
(* types for every way of writing dates, the rest for calendar dates.      *)
(***************************************************************************)
EXTENDS Crawl, FiniteSetTheorems, SequenceTheorems, WellFoundedInduction, TLAPS

\* No date lies ahead of the day, and only the last two days are written
\* relative to it.
InTime ==
  /\ today <= day
  /\ \A c \in Cards : date[c] <= day
  /\ \A c \in Cards : stored[c] # None => (stored[c].text.relative => stored[c].text.n <= 1)
  /\ \A c \in Cards : seen[c] # None => (seen[c].text.relative => seen[c].text.n <= 1)

TInv == TypeOK /\ InTime

\* Every date that was read is a calendar day.
Plain ==
  /\ \A c \in Cards : stored[c] # None =>
       stored[c].text.relative = FALSE /\ stored[c].text.n <= day
  /\ \A c \in Cards : seen[c] # None =>
       seen[c].text.relative = FALSE /\ seen[c].text.n <= day

\* What the source has not changed since it was stored is read as it is stored.
Faithful ==
  /\ \A c \in Cards \ (Undated \cup unstored) :
       /\ stored[c] # None => stored[c].text = Calendar(date[c])
       /\ seen[c] # None => seen[c].text = Calendar(date[c])
  /\ \A c \in Undated :
       stored[c] # None /\ seen[c] # None => seen[c].text = stored[c].text

\* A board shows its newest card first.
Sorted ==
  \A k \in Kinds : \A i, j \in 1..Len(board[k]) :
    i < j => date[board[k][j]] <= date[board[k][i]]

\* A card that was never posted is nowhere, and a card keeps its category.
Placed ==
  /\ \A c \in Cards : date[c] = 0 => c \notin Posted /\ stored[c] = None /\ seen[c] = None
  /\ \A k \in Kinds : \A c \in On(k) :
       /\ stored[c] # None => stored[c].kind = k
       /\ seen[c] # None => seen[c].kind = k
  /\ \A c \in Cards :
       stored[c] # None /\ seen[c] # None => seen[c].kind = stored[c].kind

\* Has this crawl read the first page of a category?
ReadOf(i) ==
  \/ pc = "commit"
  \/ pc = "fetch" /\ (i < at \/ (i = at /\ page > 1))

SeenOf(k) == {c \in Cards : seen[c] # None /\ seen[c].kind = k}

\* Where a crawl is.
Stage ==
  /\ pc = "idle" => at = 1 /\ due = {}
  /\ pc # "fetch" => page = 1
  /\ page = 1 => signatures = {}
  /\ pc = "fetch" => moves < PageSize

\* What is stored and what was read is of configured categories, and a category
\* that was read has something of either.
Kept ==
  /\ \A k \in Kinds : OfKind(k) # {} => \E i \in 1..sources : Categories[i] = k
  /\ \A k \in Kinds : SeenOf(k) # {} => \E i \in 1..sources : Categories[i] = k /\ ReadOf(i)
  /\ \A i \in 1..sources : ReadOf(i) =>
       OfKind(Categories[i]) # {} \/ SeenOf(Categories[i]) # {}

\* The watermark of a crawl is the date of a stored card, if there is one.
Marked ==
  pc # "idle" => \A k \in Kinds :
    /\ watermarks[k] = None => OfKind(k) = {}
    /\ watermarks[k] # None => \E c \in OfKind(k) : stored[c].text.n = watermarks[k]

\* What is owed is on the board of a category that is followed, and no stored card
\* of that category is newer.
OwedPlaced ==
  /\ \A c \in owed : \E k \in Kinds :
       /\ c \in On(k) /\ Followed(k)
       /\ \A x \in OfKind(k) : stored[x].text.n <= date[c]
  /\ pc # "idle" => \A c \in owed \ due : today <= date[c]

\* The cards of the pages already read were all seen, and are not among those of
\* a full page that is still to come.
Signed ==
  \A s \in signatures : \A j \in 1..Len(s) :
    /\ seen[s[j]] # None
    /\ \A i \in 1..Len(board[Kind]) : board[Kind][i] = s[j] => i <= Passed + moves

\* A card was read with the date it has.
Current(c) == seen[c] # None /\ (c \notin Undated => seen[c].text = Calendar(date[c]))

\* Nothing of a category was read that is newer than a card.
Newest(c, k) == \A x \in SeenOf(k) : seen[x].text.n <= date[c]

\* A card at place i is still to be read, or came up behind the page read next.
Pending(c, i) == seen[c] = None /\ watermarks[Kind] # None /\ i > Passed
Behind(c, i) ==
  /\ c \notin due /\ page > 1
  /\ i <= Passed - PageSize + moves /\ Newest(c, Kind)

\* What is owed and shown by the category that is being read is one or the other,
\* or was read with its date.
Expected ==
  pc = "fetch" => \A i \in 1..Len(board[Kind]) : board[Kind][i] \in owed =>
    Current(board[Kind][i]) \/ Pending(board[Kind][i], i) \/ Behind(board[Kind][i], i)

\* What is owed and shown by a category that was read was read with its date, or
\* is not due and newer than all that was read.
Finished ==
  \A n \in 1..sources : (pc = "commit" \/ (pc = "fetch" /\ n < at)) =>
    \A c \in owed : c \in On(Categories[n]) =>
      Current(c) \/ (c \notin due /\ Newest(c, Categories[n]))

\* A set of naturals has a least one.
LEMMA LeastNatural ==
  ASSUME NEW T, T \subseteq Nat, T # {}
  PROVE  \E x \in T : \A y \in T : x <= y
<1> DEFINE R == OpToRel(<, Nat)
<1>1. IsWellFoundedOn(R, Nat)
  BY NatLessThanWellFounded
<1>2. \A x, y \in Nat : x < y => <<x, y>> \in R
  BY DEF OpToRel
<1> HIDE DEF R
<1>3. PICK x \in T : \A y \in T : ~ (<<y, x>> \in R)
  BY <1>1, WFMin
<1>4. ASSUME NEW y \in T, y < x PROVE FALSE
  <2>1. <<y, x>> \in R
    BY <1>2, <1>4
  <2> QED
    BY <1>3, <2>1
<1>5. \A y \in T : x \in Nat /\ y \in Nat /\ ~(y < x)
  BY <1>4
<1> QED
  BY <1>5

USE PagesAssumption, BoundsAssumption

-----------------------------------------------------------------------------
(* Boards *)

\* A raised card comes first, those above its place follow one place lower.
LEMMA RaisedShape ==
  ASSUME NEW cards \in Seq(Cards), NEW c \in Cards, NEW p \in 1..(Len(cards) + 1)
  PROVE  /\ Raised(cards, c, p) \in Seq(Cards)
         /\ Len(Raised(cards, c, p)) = IF p <= Len(cards) THEN Len(cards) ELSE p
         /\ Len(cards) <= Len(Raised(cards, c, p))
         /\ Raised(cards, c, p)[1] = c
         /\ \A i \in 2..p : Raised(cards, c, p)[i] = cards[i - 1]
         /\ \A i \in (p + 1)..Len(cards) : Raised(cards, c, p)[i] = cards[i]
<1> DEFINE n == IF p <= Len(cards) THEN Len(cards) ELSE p
           new == Raised(cards, c, p)
<1>1. /\ Len(cards) \in Nat /\ n \in Nat /\ Len(cards) <= n /\ p <= n
      /\ \A i \in 1..Len(cards) : cards[i] \in Cards
  BY LenProperties, ElementOfSeq
<1>2. new = [i \in 1..n |-> IF i = 1 THEN c ELSE IF i <= p THEN cards[i - 1] ELSE cards[i]]
  BY DEF Raised
<1>3. n = Len(cards) \/ (n = p /\ p = Len(cards) + 1)
  BY <1>1
<1> HIDE DEF n, new
<1>4. \A i \in 1..n : new[i] \in Cards
  <2> TAKE i \in 1..n
  <2>1. CASE i = 1
    BY <1>2, <2>1
  <2>2. CASE i # 1 /\ i <= p
    <3>1. i - 1 \in 1..Len(cards)
      BY <1>1, <2>2
    <3> QED
      BY <1>1, <1>2, <2>2, <3>1
  <2>3. CASE i > p
    <3>1. i \in 1..Len(cards) /\ i # 1 /\ ~(i <= p)
      BY <1>1, <1>3, <2>3
    <3> QED
      BY <1>1, <1>2, <3>1
  <2> QED
    BY <2>1, <2>2, <2>3
<1>5. new \in [1..n -> Cards]
  BY <1>2, <1>4
<1>6. new \in Seq(Cards) /\ Len(new) = n
  BY <1>1, <1>5
<1>7. new[1] = c
  BY <1>1, <1>2
<1>8. \A i \in 2..p : new[i] = cards[i - 1]
  BY <1>1, <1>2
<1>9. \A i \in (p + 1)..Len(cards) : new[i] = cards[i]
  BY <1>1, <1>2
<1> QED
  BY <1>1, <1>6, <1>7, <1>8, <1>9 DEF n, new

\* A card taken down leaves its place to the one below it.
LEMMA WithoutShape ==
  ASSUME NEW cards \in Seq(Cards), NEW p \in 1..Len(cards)
  PROVE  /\ Without(cards, p) \in Seq(Cards)
         /\ Len(Without(cards, p)) = Len(cards) - 1
         /\ \A i \in 1..(p - 1) : Without(cards, p)[i] = cards[i]
         /\ \A i \in p..(Len(cards) - 1) : Without(cards, p)[i] = cards[i + 1]
<1> DEFINE n == Len(cards) - 1
           new == Without(cards, p)
<1>1. /\ Len(cards) \in Nat /\ n \in Nat /\ Len(cards) = n + 1
      /\ \A i \in 1..Len(cards) : cards[i] \in Cards
  BY LenProperties, ElementOfSeq
<1>2. new = [i \in 1..n |-> IF i < p THEN cards[i] ELSE cards[i + 1]]
  BY DEF Without
<1> HIDE DEF n, new
<1>3. new \in [1..n -> Cards]
  BY <1>1, <1>2
<1>4. new \in Seq(Cards) /\ Len(new) = n
  BY <1>1, <1>3
<1>5. \A i \in 1..(p - 1) : new[i] = cards[i]
  BY <1>1, <1>2
<1>6. \A i \in p..n : new[i] = cards[i + 1]
  BY <1>1, <1>2
<1> QED
  BY <1>4, <1>5, <1>6 DEF n, new

\* A page holds the next cards, as many as it can.
LEMMA PageShape ==
  ASSUME NEW cards \in Seq(Cards), NEW n \in 0..(Len(cards) - 1)
  PROVE  /\ PageAfter(cards, n) \in Seq(Cards)
         /\ Len(PageAfter(cards, n)) \in 1..PageSize
         /\ n + Len(PageAfter(cards, n)) <= Len(cards)
         /\ \/ Len(PageAfter(cards, n)) = PageSize
            \/ n + Len(PageAfter(cards, n)) = Len(cards)
         /\ \A j \in 1..Len(PageAfter(cards, n)) : PageAfter(cards, n)[j] = cards[n + j]
<1> DEFINE e == IF n + PageSize < Len(cards) THEN n + PageSize ELSE Len(cards)
           m == n + 1
<1>1. /\ Len(cards) \in Nat /\ n \in Nat /\ n < Len(cards) /\ PageSize \in Nat \ {0}
      /\ m \in 1..(Len(cards) + 1) /\ m = n + 1
      /\ e \in Nat /\ e \in (m - 1)..Len(cards) /\ n < e /\ e <= n + PageSize
      /\ e = n + PageSize \/ e = Len(cards)
  BY LenProperties
<1>2. PageAfter(cards, n) = SubSeq(cards, m, e)
  BY DEF PageAfter
<1> HIDE DEF e, m
<1>3. e \in Int /\ m \in Int /\ \A i \in m..e : cards[i] \in Cards
  <2>1. \A i \in m..e : i \in 1..Len(cards)
    BY <1>1
  <2> QED
    BY <1>1, <2>1, ElementOfSeq
<1>4. /\ SubSeq(cards, m, e) \in Seq(Cards)
      /\ Len(SubSeq(cards, m, e)) = IF m <= e THEN e - m + 1 ELSE 0
      /\ \A i \in 1..(e - m + 1) : SubSeq(cards, m, e)[i] = cards[m + i - 1]
  BY <1>1, <1>3, SubSeqProperties
<1>5. Len(PageAfter(cards, n)) = e - n
  BY <1>1, <1>2, <1>4
<1>6. \A j \in 1..(e - n) : PageAfter(cards, n)[j] = cards[n + j]
  <2> TAKE j \in 1..(e - n)
  <2>1. j \in 1..(e - m + 1) /\ m + j - 1 = n + j
    BY <1>1
  <2> QED
    BY <1>2, <1>4, <2>1
<1> QED
  BY <1>1, <1>2, <1>4, <1>5, <1>6

-----------------------------------------------------------------------------
(* Dates and types *)

\* None is neither a number nor a listing.
LEMMA NoneIsNone == (\A v \in Nat : v # None) /\ (\A l \in Listings : l # None)
  BY NoneAssumption

USE DEF source, crawl, history, bounds, Texts, Listings, Calendar

\* The configured categories are categories.
LEMMA KindsConfigured ==
  ASSUME TypeOK
  PROVE  /\ \A i \in 1..sources : i \in 1..Len(Categories) /\ Categories[i] \in Kinds
         /\ Kind \in Kinds /\ at \in 1..sources /\ at \in 1..Len(Categories)
<1>1. Len(Categories) \in Nat /\ sources \in 1..Len(Categories) /\ at \in 1..sources
  BY LenProperties, SourceAssumption DEF TypeOK
<1>2. \A i \in 1..sources : i \in 1..Len(Categories)
  BY <1>1
<1> QED
  BY <1>1, <1>2 DEF Kinds, Kind

\* A set of days has a last one.
LEMMA LastDay ==
  ASSUME NEW V \in SUBSET (0..MaxDays), V # {}
  PROVE  \E v \in V : \A w \in V : w <= v
<1> DEFINE T == {MaxDays - v : v \in V}
<1>1. T \subseteq Nat /\ T # {}
  <2>1. \A v \in V : v \in 0..MaxDays /\ MaxDays - v \in Nat
    OBVIOUS
  <2> QED
    BY <2>1
<1>2. PICK x \in T : \A y \in T : x <= y
  <2> HIDE DEF T
  <2> QED
    BY <1>1, LeastNatural
<1>3. PICK v \in V : x = MaxDays - v
  BY <1>2 DEF T
<1>4. \A w \in V : w <= v
  <2> TAKE w \in V
  <2>1. MaxDays - w \in T
    BY DEF T
  <2> QED
    BY <1>2, <1>3, <2>1
<1> QED
  BY <1>4

\* A date that was read stands for a day.
LEMMA ValueType ==
  ASSUME NEW text \in Texts, NEW r \in 1..MaxDays, text.relative => text.n <= 1
  PROVE  Value(text, r) \in 0..MaxDays
<1>1. text.n \in 0..MaxDays /\ r \in Nat
  OBVIOUS
<1>2. CASE text.relative
  BY <1>1, <1>2 DEF Value
<1>3. CASE ~text.relative
  BY <1>1, <1>3 DEF Value
<1> QED
  BY <1>2, <1>3

\* The watermark is the date of a stored listing of the category, if it has one.
LEMMA WatermarkType ==
  ASSUME TInv, NEW k \in Kinds
  PROVE  /\ Watermark(k) \in 0..MaxDays \cup {None}
         /\ OfKind(k) = {} <=> Watermark(k) = None
         /\ OfKind(k) # {} => \E c \in OfKind(k) : Watermark(k) = Value(stored[c].text, day)
<1> DEFINE V == {Value(stored[c].text, day) : c \in OfKind(k)}
<1>1. \A c \in OfKind(k) : Value(stored[c].text, day) \in 0..MaxDays
  <2> TAKE c \in OfKind(k)
  <2>1. /\ stored[c].text \in Texts /\ day \in 1..MaxDays
        /\ stored[c].text.relative => stored[c].text.n <= 1
    BY DEF TInv, TypeOK, InTime, OfKind
  <2> QED
    BY <2>1, ValueType
<1>2. CASE OfKind(k) = {}
  BY <1>2 DEF Watermark
<1>3. CASE OfKind(k) # {}
  <2>1. V \in SUBSET (0..MaxDays) /\ V # {}
    BY <1>1, <1>3
  <2>2. Watermark(k) = CHOOSE v \in V : \A w \in V : w <= v
    BY <1>3 DEF Watermark
  <2> HIDE DEF V
  <2>3. Watermark(k) \in V
    <3>1. \E v \in V : \A w \in V : w <= v
      BY <2>1, LastDay
    <3> QED
      BY ONLY <2>2, <3>1
  <2>4. Watermark(k) \in 0..MaxDays /\ Watermark(k) \in Nat
    <3>1. Watermark(k) \in 0..MaxDays
      BY ONLY <2>1, <2>3
    <3> QED
      BY ONLY <3>1
  <2>5. Watermark(k) # None
    BY <2>4, NoneIsNone
  <2> QED
    BY <1>3, <2>3, <2>4, <2>5 DEF V
<1> QED
  BY <1>2, <1>3

\* What a card shows, and the date it is read with.
LEMMA ReadDateType ==
  ASSUME TInv, NEW c \in Cards
  PROVE  /\ ReadDate(c) \in Texts
         /\ ReadDate(c).relative => ReadDate(c).n <= 1
<1>1. /\ day \in 1..MaxDays /\ date[c] \in 0..MaxDays /\ date[c] <= day
      /\ today \in 1..MaxDays
  BY DEF TInv, TypeOK, InTime
<1>2. CASE c \notin Undated
  <2>1. ReadDate(c) = Written(date[c])
    BY <1>2 DEF ReadDate
  <2>2. CASE RelativeDates /\ day - date[c] <= 1
    <3>1. ReadDate(c) = [relative |-> TRUE, n |-> day - date[c]]
      BY <2>1, <2>2 DEF Written
    <3> QED
      BY <1>1, <2>2, <3>1
  <2>3. CASE ~(RelativeDates /\ day - date[c] <= 1)
    <3>1. ReadDate(c) = [relative |-> FALSE, n |-> date[c]]
      BY <2>1, <2>3 DEF Written
    <3> QED
      BY <1>1, <3>1
  <2> QED
    BY <2>2, <2>3
<1>3. CASE c \in Undated /\ stored[c] # None
  <2>1. ReadDate(c) = stored[c].text
    BY <1>3 DEF ReadDate
  <2> QED
    BY <1>3, <2>1 DEF TInv, TypeOK, InTime
<1>4. CASE c \in Undated /\ stored[c] = None
  <2>1. ReadDate(c) = [relative |-> FALSE, n |-> today]
    BY <1>4 DEF ReadDate
  <2> QED
    BY <1>1, <2>1
<1> QED
  BY <1>2, <1>3, <1>4

\* The page that is fetched is a page, and of cards of the category.
LEMMA PageType ==
  ASSUME TypeOK, NEW cards \in Pages
  PROVE  /\ cards \in Seq(Cards) /\ Len(cards) \in Nat
         /\ Passed \in Nat
         /\ cards = <<>> => Beyond
         /\ cards # <<>> =>
              \E n \in 0..(Len(board[Kind]) - 1) :
                /\ cards = PageAfter(board[Kind], n) /\ (~Beyond => n = Passed)
                /\ Beyond => n + PageSize >= Len(board[Kind])
<1>1. board[Kind] \in Seq(Cards) /\ Len(board[Kind]) \in Nat
  BY KindsConfigured, LenProperties DEF TypeOK
<1>2. Passed \in Nat
  BY DEF TypeOK, Passed
<1>3. CASE cards = <<>> /\ Beyond
  BY <1>2, <1>3
<1>4. ASSUME NEW n \in 0..(Len(board[Kind]) - 1), cards = PageAfter(board[Kind], n),
             ~Beyond => n = Passed
      PROVE  cards \in Seq(Cards) /\ Len(cards) \in Nat /\ cards # <<>>
  <2>1. cards \in Seq(Cards) /\ Len(cards) \in 1..PageSize
    BY <1>1, <1>4, PageShape
  <2> QED
    BY <2>1
<1>5. \/ cards = <<>> /\ Beyond
      \/ \E n \in 0..(Len(board[Kind]) - 1) :
           /\ cards = PageAfter(board[Kind], n) /\ (~Beyond => n = Passed)
           /\ Beyond => n + PageSize >= Len(board[Kind])
  <2>1. CASE Beyond
    BY <2>1 DEF Pages
  <2>2. CASE ~Beyond
    <3>1. cards = PageAfter(board[Kind], Passed)
      BY <2>2 DEF Pages
    <3>2. Passed \in 0..(Len(board[Kind]) - 1)
      BY <1>1, <1>2, <2>2 DEF Beyond
    <3> QED
      BY <2>2, <3>1, <3>2
  <2> QED
    BY <2>1, <2>2
<1> QED
  BY <1>2, <1>3, <1>4, <1>5

\* Nothing is shown, stored or read in the initial state.
LEMMA InitTInv == Init => TInv
<1> SUFFICES ASSUME Init PROVE TInv
  OBVIOUS
<1>1. TypeOK
  <2>1. Len(Categories) \in Nat /\ 1 \in 1..Len(Categories)
    BY SourceAssumption, LenProperties
  <2>2. \A k \in Kinds : board[k] = <<>> /\ Len(board[k]) = 0
    BY DEF Init
  <2> QED
    BY <2>1, <2>2 DEF Init, TypeOK
<1>2. InTime
  BY DEF Init, InTime
<1> QED
  BY <1>1, <1>2 DEF TInv

\* A card that comes to the top is new, or comes from its place on the board.
Rises(c, k, p) ==
  \/ p = Len(board[k]) + 1 /\ c \notin Posted /\ date[c] = 0
  \/ p \in 1..Len(board[k]) /\ c = board[k][p]

\* Where the cards of a raised board were before.
LEMMA RaisedFrom ==
  ASSUME TypeOK, NEW c \in Cards, NEW k \in Kinds, NEW p, Rises(c, k, p), ToTop(c, k, p)
  PROVE  /\ p \in 1..(Len(board[k]) + 1) /\ Len(board[k]) \in Nat
         /\ board' \in [Kinds -> Seq(Cards)]
         /\ Len(board'[k]) \in Nat /\ Len(board[k]) <= Len(board'[k])
         /\ 1 \in 1..Len(board'[k]) /\ board'[k][1] = c
         /\ \A i \in 1..Len(board'[k]) :
              \/ i = 1
              \/ i \in 2..p /\ i - 1 \in 1..Len(board[k]) /\ i - 1 # p
                 /\ board'[k][i] = board[k][i - 1]
              \/ i > p /\ i \in 1..Len(board[k]) /\ board'[k][i] = board[k][i]
         /\ \A j \in 1..Len(board[k]) :
              /\ j < p => j + 1 \in 1..Len(board'[k]) /\ board'[k][j + 1] = board[k][j]
              /\ j > p => j \in 1..Len(board'[k]) /\ board'[k][j] = board[k][j]
         /\ \A l \in Kinds : l # k => board'[l] = board[l]
<1>1. board \in [Kinds -> Seq(Cards)] /\ board[k] \in Seq(Cards) /\ Len(board[k]) \in Nat
  BY LenProperties DEF TypeOK
<1>2. p \in 1..(Len(board[k]) + 1)
  BY <1>1 DEF Rises
<1> DEFINE new == Raised(board[k], c, p)
<1>3. board' = [board EXCEPT ![k] = new]
  BY DEF ToTop
<1>4. board'[k] = new /\ \A l \in Kinds : l # k => board'[l] = board[l]
  BY <1>1, <1>3
<1>5. /\ new \in Seq(Cards)
      /\ Len(new) = IF p <= Len(board[k]) THEN Len(board[k]) ELSE p
      /\ Len(board[k]) <= Len(new) /\ new[1] = c
      /\ \A i \in 2..p : new[i] = board[k][i - 1]
      /\ \A i \in (p + 1)..Len(board[k]) : new[i] = board[k][i]
  <2> DEFINE cards == board[k]
  <2>1. cards \in Seq(Cards) /\ p \in 1..(Len(cards) + 1)
    BY <1>1, <1>2
  <2> HIDE DEF cards, new
  <2>2. new = Raised(cards, c, p)
    BY DEF new, cards
  <2>3. /\ new \in Seq(Cards)
        /\ Len(new) = IF p <= Len(cards) THEN Len(cards) ELSE p
        /\ Len(cards) <= Len(new) /\ new[1] = c
        /\ \A i \in 2..p : new[i] = cards[i - 1]
        /\ \A i \in (p + 1)..Len(cards) : new[i] = cards[i]
    BY <2>1, <2>2, RaisedShape
  <2> QED
    BY ONLY <2>3 DEF cards
<1> HIDE DEF new
<1>6. Len(new) \in Nat /\ 1 \in 1..Len(new)
  <2>1. Len(new) \in Nat
    BY <1>5, LenProperties
  <2> QED
    BY <1>1, <1>2, <1>5, <2>1
<1>7. ASSUME NEW i \in 1..Len(new)
      PROVE  \/ i = 1
             \/ i \in 2..p /\ i - 1 \in 1..Len(board[k]) /\ i - 1 # p
                /\ new[i] = board[k][i - 1]
             \/ i > p /\ i \in 1..Len(board[k]) /\ new[i] = board[k][i]
  <2>1. CASE i # 1 /\ i <= p
    BY <1>1, <1>2, <1>5, <2>1
  <2>2. CASE i > p
    <3>1. Len(new) = Len(board[k]) \/ Len(new) = p
      BY <1>5
    <3>2. i \in (p + 1)..Len(board[k])
      BY <1>1, <1>2, <1>6, <2>2, <3>1
    <3> QED
      BY <1>5, <2>2, <3>2
  <2> QED
    BY <1>1, <1>2, <1>6, <2>1, <2>2
<1>8. board' \in [Kinds -> Seq(Cards)]
  BY <1>1, <1>3, <1>5
<1>9. ASSUME NEW j \in 1..Len(board[k])
      PROVE  /\ j < p => j + 1 \in 1..Len(new) /\ new[j + 1] = board[k][j]
             /\ j > p => j \in 1..Len(new) /\ new[j] = board[k][j]
  <2>1. CASE j < p
    <3>1. j + 1 \in 2..p /\ j + 1 \in 1..Len(new) /\ (j + 1) - 1 = j
      BY <1>1, <1>2, <1>5, <1>6, <2>1
    <3> QED
      BY <1>2, <1>5, <2>1, <3>1
  <2>2. CASE j > p
    <3>1. j \in (p + 1)..Len(board[k]) /\ j \in 1..Len(new)
      BY <1>1, <1>2, <1>5, <1>6, <2>2
    <3> QED
      BY <1>2, <1>5, <2>2, <3>1
  <2> QED
    BY <1>2, <2>1, <2>2
<1> QED
  BY <1>1, <1>2, <1>4, <1>5, <1>6, <1>7, <1>8, <1>9

\* No card is on two boards, or twice on one.
OnePlace ==
  \A k, l \in Kinds : \A i \in 1..Len(board[k]), j \in 1..Len(board[l]) :
    board[k][i] = board[l][j] => k = l /\ i = j

\* Place i of board l shows what place j showed before the card at place p of
\* board k came to the top.
Came(k, p, l, i, j) ==
  /\ j \in 1..Len(board[l]) /\ i \in 1..Len(board'[l]) /\ board'[l][i] = board[l][j]
  /\ l = k => j # p /\ i = IF j < p THEN j + 1 ELSE j
  /\ l # k => i = j

\* Only the card that comes to the top changes its order among the others.
LEMMA RaisedCame ==
  ASSUME TypeOK, NEW c \in Cards, NEW k \in Kinds, NEW p, Rises(c, k, p), ToTop(c, k, p)
  PROVE  /\ \A l \in Kinds : \A i \in 1..Len(board'[l]) :
              (l = k /\ i = 1 /\ board'[l][i] = c) \/ \E j : Came(k, p, l, i, j)
         /\ \A l \in Kinds : \A i, j : Came(k, p, l, i, j) => board[l][j] # c
         /\ \A l \in Kinds : \A j \in 1..Len(board[l]) :
              board[l][j] = c \/ \E i : Came(k, p, l, i, j)
<1>1. OnePlace
  BY DEF TypeOK, OnePlace
<1>2. p \in Nat
  BY RaisedFrom
<1>3. ASSUME NEW l \in Kinds, NEW i \in 1..Len(board'[l])
      PROVE  (l = k /\ i = 1 /\ board'[l][i] = c) \/ \E j : Came(k, p, l, i, j)
  <2>1. CASE l # k
    <3>1. Came(k, p, l, i, i)
      BY <2>1, RaisedFrom DEF Came
    <3> QED
      BY <3>1
  <2>2. CASE l = k /\ i = 1
    BY <2>2, RaisedFrom
  <2>3. CASE l = k /\ i \in 2..p /\ i - 1 \in 1..Len(board[k]) /\ i - 1 # p
             /\ board'[k][i] = board[k][i - 1]
    <3>1. Came(k, p, l, i, i - 1)
      BY <1>2, <2>3 DEF Came
    <3> QED
      BY <3>1
  <2>4. CASE l = k /\ i > p /\ i \in 1..Len(board[k]) /\ board'[k][i] = board[k][i]
    <3>1. Came(k, p, l, i, i)
      BY <1>2, <2>4 DEF Came
    <3> QED
      BY <3>1
  <2> QED
    BY <2>1, <2>2, <2>3, <2>4, RaisedFrom
<1>4. ASSUME NEW l \in Kinds, NEW i, NEW j, Came(k, p, l, i, j) PROVE board[l][j] # c
  <2>1. CASE p = Len(board[k]) + 1 /\ c \notin Posted
    BY <1>4, <2>1 DEF Posted, On, Came
  <2>2. CASE p \in 1..Len(board[k]) /\ c = board[k][p]
    BY <1>1, <1>4, <2>2 DEF OnePlace, Came
  <2> QED
    BY <2>1, <2>2 DEF Rises
<1>5. ASSUME NEW l \in Kinds, NEW j \in 1..Len(board[l])
      PROVE  board[l][j] = c \/ \E i : Came(k, p, l, i, j)
  <2>1. CASE l # k
    <3>1. Came(k, p, l, j, j)
      BY <2>1, RaisedFrom DEF Came
    <3> QED
      BY <3>1
  <2>2. CASE l = k /\ j < p
    <3>1. j + 1 \in 1..Len(board'[k]) /\ board'[k][j + 1] = board[k][j]
      BY <2>2, RaisedFrom
    <3>2. Came(k, p, l, j + 1, j)
      BY <1>2, <2>2, <3>1 DEF Came
    <3> QED
      BY <3>2
  <2>3. CASE l = k /\ j > p
    <3>1. j \in 1..Len(board'[k]) /\ board'[k][j] = board[k][j]
      BY <2>3, RaisedFrom
    <3>2. Came(k, p, l, j, j)
      BY <1>2, <2>3, <3>1 DEF Came
    <3> QED
      BY <3>2
  <2>4. CASE l = k /\ j = p
    <3>1. Len(board[k]) \in Nat
      BY RaisedFrom
    <3> QED
      BY <2>4, <3>1 DEF Rises
  <2> QED
    BY <1>2, <2>1, <2>2, <2>3, <2>4
<1> QED
  BY <1>3, <1>4, <1>5

\* A card that comes to the top has one place still.
LEMMA RaisedOnce ==
  ASSUME TypeOK, NEW c \in Cards, NEW k \in Kinds, NEW p, Rises(c, k, p), ToTop(c, k, p)
  PROVE  OnePlace'
<1>1. ASSUME NEW l \in Kinds, NEW m \in Kinds, NEW i, NEW j, NEW a, NEW b,
             Came(k, p, l, i, a), Came(k, p, m, j, b), board'[l][i] = board'[m][j]
      PROVE  l = m /\ i = j
  <2>1. a \in 1..Len(board[l]) /\ b \in 1..Len(board[m]) /\ board[l][a] = board[m][b]
    BY <1>1 DEF Came
  <2>2. l = m /\ a = b
    BY <2>1 DEF TypeOK
  <2> QED
    BY <1>1, <2>2 DEF Came
<1>2. \A l \in Kinds : \A i, j : Came(k, p, l, i, j) => board'[l][i] # c
  <2>1. \A l \in Kinds : \A i, j : Came(k, p, l, i, j) => board'[l][i] = board[l][j]
    BY DEF Came
  <2> QED
    BY <2>1, RaisedCame
<1>3. ASSUME NEW l \in Kinds, NEW m \in Kinds, NEW i \in 1..Len(board'[l]),
             NEW j \in 1..Len(board'[m]), board'[l][i] = board'[m][j]
      PROVE  l = m /\ i = j
  <2>1. /\ (l = k /\ i = 1 /\ board'[l][i] = c) \/ \E a : Came(k, p, l, i, a)
        /\ (m = k /\ j = 1 /\ board'[m][j] = c) \/ \E b : Came(k, p, m, j, b)
    BY RaisedCame
  <2> QED
    BY <1>1, <1>2, <1>3, <2>1
<1> QED
  BY <1>3 DEF OnePlace

\* A card that comes to the top leaves every state well typed.
LEMMA TopType ==
  ASSUME TInv, NEW c \in Cards, NEW k \in Kinds, NEW p, Rises(c, k, p), ToTop(c, k, p),
         refreshes' \in 0..MaxRefreshes
  PROVE  TInv'
<1>1. board' \in [Kinds -> Seq(Cards)] /\ OnePlace'
  BY RaisedFrom, RaisedOnce DEF TInv
<1>2. TypeOK'
  <2>1. /\ moves' \in Nat /\ owed' \subseteq Cards /\ due' \subseteq owed'
        /\ unstored' \subseteq Cards
    BY DEF TInv, TypeOK, ToTop
  <2>2. date' \in [Cards -> 0..MaxDays]
    BY DEF TInv, TypeOK, ToTop
  <2>3. UNCHANGED <<day, stored, sources, pc, at, page, today, watermarks, seen,
                    signatures, failures>>
    BY DEF ToTop
  <2> QED
    BY <1>1, <2>1, <2>2, <2>3 DEF TInv, TypeOK, OnePlace
<1>3. InTime'
  BY DEF TInv, TypeOK, InTime, ToTop
<1> QED
  BY <1>2, <1>3 DEF TInv

\* Where the cards of a board were before one was taken down.
LEMMA RemovedFrom ==
  ASSUME TypeOK, NEW k \in Kinds, NEW p \in 1..Len(board[k]), Remove(p, k)
  PROVE  /\ board' \in [Kinds -> Seq(Cards)]
         /\ Len(board'[k]) = Len(board[k]) - 1 /\ Len(board[k]) \in Nat
         /\ \A i \in 1..Len(board'[k]) :
              /\ i \in 1..Len(board[k]) /\ i + 1 \in 1..Len(board[k])
              /\ board'[k][i] = board[k][IF i < p THEN i ELSE i + 1]
         /\ \A l \in Kinds : l # k => board'[l] = board[l]
<1>1. board \in [Kinds -> Seq(Cards)] /\ board[k] \in Seq(Cards) /\ Len(board[k]) \in Nat
  BY LenProperties DEF TypeOK
<1> DEFINE new == Without(board[k], p)
           cards == board[k]
<1>2. board' = [board EXCEPT ![k] = new]
  BY DEF Remove
<1>3. board'[k] = new /\ \A l \in Kinds : l # k => board'[l] = board[l]
  BY <1>1, <1>2
<1>4. new = Without(cards, p) /\ cards \in Seq(Cards) /\ p \in 1..Len(cards)
      /\ Len(cards) \in Nat
  BY <1>1
<1> HIDE DEF new, cards
<1>5. /\ new \in Seq(Cards) /\ Len(new) = Len(cards) - 1
      /\ \A i \in 1..(p - 1) : new[i] = cards[i]
      /\ \A i \in p..(Len(cards) - 1) : new[i] = cards[i + 1]
  BY <1>4, WithoutShape
<1>6. \A i \in 1..Len(new) : /\ i \in 1..Len(cards) /\ i + 1 \in 1..Len(cards)
                            /\ new[i] = cards[IF i < p THEN i ELSE i + 1]
  BY <1>4, <1>5
<1>7. board' \in [Kinds -> Seq(Cards)]
  BY <1>1, <1>2, <1>5
<1> QED
  BY <1>3, <1>4, <1>5, <1>6, <1>7 DEF cards

\* The place whose card place i of board l shows once the card at place p of
\* board k was taken down.
From(k, p, l, i) == IF l = k /\ ~(i < p) THEN i + 1 ELSE i

\* The others keep their order.
LEMMA RemovedOthers ==
  ASSUME TypeOK, NEW k \in Kinds, NEW p \in 1..Len(board[k]), Remove(p, k)
  PROVE  /\ \A l \in Kinds : \A i \in 1..Len(board'[l]) :
              /\ i \in Nat /\ From(k, p, l, i) \in 1..Len(board[l])
              /\ board'[l][i] = board[l][From(k, p, l, i)]
         /\ \A l \in Kinds : \A j \in 1..Len(board[l]) :
              board[l][j] = board[k][p] \/
              \E i \in 1..Len(board'[l]) : board'[l][i] = board[l][j]
<1>1. ASSUME NEW l \in Kinds, NEW i \in 1..Len(board'[l])
      PROVE  /\ i \in Nat /\ From(k, p, l, i) \in 1..Len(board[l])
             /\ board'[l][i] = board[l][From(k, p, l, i)]
  <2>1. CASE l # k
    BY <2>1, RemovedFrom DEF From
  <2>2. CASE l = k
    BY <2>2, RemovedFrom DEF From
  <2> QED
    BY <2>1, <2>2
<1>2. ASSUME NEW l \in Kinds, NEW j \in 1..Len(board[l]), board[l][j] # board[k][p]
      PROVE  \E i \in 1..Len(board'[l]) : board'[l][i] = board[l][j]
  <2>1. CASE l # k
    BY <2>1, RemovedFrom
  <2>2. CASE l = k /\ j < p
    <3>1. j \in 1..Len(board'[k]) /\ board'[k][j] = board[k][j]
      BY <2>2, RemovedFrom
    <3> QED
      BY <2>2, <3>1
  <2>3. CASE l = k /\ ~(j < p)
    <3>1. /\ j - 1 \in 1..Len(board'[k]) /\ ~(j - 1 < p) /\ (j - 1) + 1 = j
      BY <1>2, <2>3, RemovedFrom
    <3>2. board'[k][j - 1] = board[k][IF j - 1 < p THEN j - 1 ELSE (j - 1) + 1]
      BY <3>1, RemovedFrom
    <3>3. board'[k][j - 1] = board[k][j]
      BY <3>1, <3>2
    <3> QED
      BY <2>3, <3>1, <3>3
  <2> QED
    BY <2>1, <2>2, <2>3
<1> QED
  BY <1>1, <1>2

\* A card that is taken down leaves every state well typed.
LEMMA RemoveType ==
  ASSUME TInv, NEW k \in Kinds, NEW p \in 1..Len(board[k]), Remove(p, k)
  PROVE  TInv'
<1>1. \A l \in Kinds : \A i, j \in Nat : From(k, p, l, i) = From(k, p, l, j) => i = j
  BY DEF From
<1>2. OnePlace'
  <2> SUFFICES ASSUME NEW l \in Kinds, NEW m \in Kinds,
                      NEW i \in 1..Len(board'[l]), NEW j \in 1..Len(board'[m]),
                      board'[l][i] = board'[m][j]
               PROVE  l = m /\ i = j
    BY DEF OnePlace
  <2>1. /\ From(k, p, l, i) \in 1..Len(board[l]) /\ From(k, p, m, j) \in 1..Len(board[m])
        /\ board[l][From(k, p, l, i)] = board[m][From(k, p, m, j)]
        /\ i \in Nat /\ j \in Nat
    BY RemovedOthers DEF TInv
  <2>2. l = m /\ From(k, p, l, i) = From(k, p, m, j)
    <3>1. OnePlace
      BY DEF TInv, TypeOK, OnePlace
    <3> QED
      BY <2>1, <3>1 DEF OnePlace
  <2> QED
    BY <1>1, <2>1, <2>2
<1>3. TypeOK'
  BY <1>2, RemovedFrom DEF TInv, TypeOK, Remove, OnePlace
<1>4. InTime'
  BY DEF TInv, InTime, Remove
<1> QED
  BY <1>3, <1>4 DEF TInv

\* What a page leaves of the cards read is of the category that is read.
LEMMA CollectedType ==
  ASSUME TInv, NEW cards
  PROVE  /\ Collected(cards) \in [Cards -> Listings \cup {None}]
         /\ \A c \in Cards : Collected(cards)[c] # None =>
              (Collected(cards)[c].text.relative => Collected(cards)[c].text.n <= 1)
<1>1. Kind \in Kinds /\ seen \in [Cards -> Listings \cup {None}]
  BY KindsConfigured DEF TInv, TypeOK
<1>2. ASSUME NEW c \in Cards
      PROVE  /\ Collected(cards)[c] \in Listings \cup {None}
             /\ Collected(cards)[c] # None =>
                  (Collected(cards)[c].text.relative => Collected(cards)[c].text.n <= 1)
  <2>1. CASE seen[c] = None /\ c \in Scanned(cards)
    <3>1. Collected(cards)[c] = [kind |-> Kind, text |-> ReadDate(c)]
      BY <2>1 DEF Collected
    <3> HIDE DEF Texts
    <3>2. Collected(cards)[c] \in Listings /\ Collected(cards)[c].text = ReadDate(c)
      BY <1>1, <3>1, ReadDateType
    <3> QED
      BY <3>2, ReadDateType
  <2>2. CASE ~(seen[c] = None /\ c \in Scanned(cards))
    <3>1. Collected(cards)[c] = seen[c]
      BY <2>2 DEF Collected
    <3> QED
      BY <1>1, <3>1 DEF TInv, InTime
  <2> QED
    BY <2>1, <2>2
<1>3. Collected(cards) = [c \in Cards |-> Collected(cards)[c]]
  BY DEF Collected
<1> QED
  BY <1>2, <1>3

\* A category that ends is followed by the next, or by the transaction.
LEMMA NextCategoryType ==
  ASSUME TypeOK, pc = "fetch", NextCategory, sources' = sources
  PROVE  /\ pc' \in {"fetch", "commit"} /\ at' \in 1..sources' /\ page' = 1
         /\ signatures' = {}
         /\ pc' = "fetch" => at' = at + 1
         /\ pc' = "commit" => at = sources /\ at' = at
<1>1. sources \in 1..Len(Categories) /\ at \in 1..sources /\ Len(Categories) \in Nat
  BY SourceAssumption, LenProperties DEF TypeOK
<1> QED
  BY <1>1 DEF NextCategory

\* A step of the crawl, or its end, leaves every state well typed.
LEMMA CrawlType ==
  ASSUME TInv, Step \/ Fail
  PROVE  TInv'
<1>1. CASE Begin
  <2>1. watermarks' \in [Kinds -> 0..MaxDays \cup {None}]
    BY <1>1, WatermarkType DEF Begin
  <2>2. 1 \in 1..sources
    BY SourceAssumption, LenProperties DEF TInv, TypeOK
  <2>3. TypeOK'
    BY <1>1, <2>1, <2>2 DEF TInv, TypeOK, Begin
  <2>4. InTime'
    BY <1>1 DEF TInv, TypeOK, InTime, Begin
  <2> QED
    BY <2>3, <2>4 DEF TInv
<1>2. CASE BudgetSpent
  <2>1. /\ pc' \in {"fetch", "commit"} /\ at' \in 1..sources' /\ page' = 1
        /\ signatures' = {}
    BY <1>2, NextCategoryType DEF BudgetSpent, TInv
  <2>2. TypeOK'
    BY <1>2, <2>1 DEF TInv, TypeOK, BudgetSpent
  <2>3. InTime'
    BY <1>2 DEF TInv, InTime, BudgetSpent
  <2> QED
    BY <2>2, <2>3 DEF TInv
<1>3. ASSUME NEW cards \in Pages, Fetch(cards) PROVE TInv'
  <2>1. cards \in Seq(Cards)
    BY PageType DEF TInv
  <2>2. seen' \in {seen, Collected(cards)} /\ owed' \in {owed, owed \ Forgone}
    BY <1>3 DEF Fetch
  <2>3. /\ pc' \in {"fetch", "commit"} /\ at' \in 1..sources' /\ page' \in Nat \ {0}
        /\ signatures' \in SUBSET Seq(Cards)
    <3>1. CASE NextCategory
      BY <1>3, <3>1, NextCategoryType DEF Fetch, TInv
    <3>2. CASE NextPage(cards)
      BY <1>3, <2>1, <3>2 DEF Fetch, NextPage, TInv, TypeOK
    <3> QED
      BY <1>3, <3>1, <3>2 DEF Fetch
  <2>4. seen' \in [Cards -> Listings \cup {None}]
    BY <2>2, CollectedType DEF TInv, TypeOK
  <2>5. due' \subseteq owed' /\ owed' \subseteq Cards
    BY <1>3, <2>2 DEF Fetch, TInv, TypeOK, Forgone
  <2>6. TypeOK'
    BY <1>3, <2>3, <2>4, <2>5 DEF Fetch, TInv, TypeOK
  <2>7. InTime'
    <3>1. UNCHANGED <<day, today, date, stored>>
      BY <1>3 DEF Fetch
    <3>2. \A c \in Cards : seen'[c] # None =>
            (seen'[c].text.relative => seen'[c].text.n <= 1)
      BY <2>2, CollectedType DEF TInv, InTime
    <3> QED
      BY <3>1, <3>2 DEF TInv, InTime
  <2> QED
    BY <2>6, <2>7 DEF TInv
<1>4. CASE FirstPageEmpty \/ Fail
  <2>1. Abandon /\ failures' \in 0..MaxFailures /\ UNCHANGED refreshes
    BY <1>4 DEF FirstPageEmpty, Fail, TInv, TypeOK
  <2>2. 1 \in 1..sources
    BY SourceAssumption, LenProperties DEF TInv, TypeOK
  <2>3. TypeOK'
    BY <2>1, <2>2 DEF TInv, TypeOK, Abandon
  <2>4. InTime'
    BY <2>1 DEF TInv, TypeOK, InTime, Abandon
  <2> QED
    BY <2>3, <2>4 DEF TInv
<1>5. CASE Commit
  <2>1. 1 \in 1..sources
    BY SourceAssumption, LenProperties DEF TInv, TypeOK
  <2>2. \A c \in Cards : stored'[c] \in {stored[c], seen[c]}
    BY <1>5 DEF Commit, After
  <2>3. stored' \in [Cards -> Listings \cup {None}]
    <3>1. stored' = [c \in Cards |-> stored'[c]]
      BY <1>5 DEF Commit
    <3> QED
      BY <2>2, <3>1 DEF TInv, TypeOK
  <2>4. TypeOK'
    BY <1>5, <2>1, <2>3 DEF TInv, TypeOK, Commit
  <2>5. InTime'
    <3>1. \A c \in Cards : stored'[c] # None =>
            (stored'[c].text.relative => stored'[c].text.n <= 1)
      BY <2>2 DEF TInv, InTime
    <3>2. today' <= day' /\ day' = day /\ date' = date
      BY <1>5 DEF TInv, TypeOK, Commit
    <3>3. \A c \in Cards : seen'[c] = None
      BY <1>5 DEF Commit
    <3> QED
      BY <3>1, <3>2, <3>3 DEF TInv, InTime
  <2> QED
    BY <2>4, <2>5 DEF TInv
<1> QED
  BY <1>1, <1>2, <1>3, <1>4, <1>5 DEF Step

\* Every step does.
LEMMA NextTInv == TInv /\ [Next]_vars => TInv'
<1> SUFFICES ASSUME TInv, [Next]_vars PROVE TInv'
  OBVIOUS
<1>1. ASSUME NEW c \in Cards, NEW k \in Kinds, Post(c, k) PROVE TInv'
  <2>1. Rises(c, k, Len(board[k]) + 1) /\ ToTop(c, k, Len(board[k]) + 1)
    BY <1>1 DEF Post, Rises
  <2>2. refreshes' \in 0..MaxRefreshes
    BY <1>1 DEF Post, TInv, TypeOK
  <2> QED
    BY <2>1, <2>2, TopType
<1>2. ASSUME NEW k \in Kinds, NEW p \in 1..Len(board[k]), Refresh(p, k) PROVE TInv'
  <2>1. Rises(board[k][p], k, p) /\ ToTop(board[k][p], k, p) /\ board[k][p] \in Cards
    BY <1>2, ElementOfSeq DEF Refresh, Rises, TInv, TypeOK
  <2>2. refreshes' \in 0..MaxRefreshes
    BY <1>2 DEF Refresh, TInv, TypeOK
  <2> QED
    BY <2>1, <2>2, TopType
<1>3. ASSUME NEW k \in Kinds, NEW p \in 1..Len(board[k]), Remove(p, k) PROVE TInv'
  BY <1>3, RemoveType
<1>4. CASE Tick
  <2>1. TypeOK'
    BY <1>4 DEF TInv, TypeOK, Tick
  <2>2. InTime'
    BY <1>4 DEF TInv, TypeOK, InTime, Tick
  <2> QED
    BY <2>1, <2>2 DEF TInv
<1>5. CASE AddCategory
  <2>1. Len(Categories) \in Nat
    BY SourceAssumption, LenProperties
  <2>2. TypeOK'
    BY <1>5, <2>1 DEF TInv, TypeOK, AddCategory
  <2>3. InTime'
    BY <1>5 DEF TInv, InTime, AddCategory
  <2> QED
    BY <2>2, <2>3 DEF TInv
<1>6. CASE Step \/ Fail
  BY <1>6, CrawlType
<1>7. CASE UNCHANGED vars
  BY <1>7 DEF vars, TInv, TypeOK, InTime
<1> QED
  BY <1>1, <1>2, <1>3, <1>4, <1>5, <1>6, <1>7 DEF Next

LEMMA CrawlTInv == Spec => []TInv
  BY InitTInv, NextTInv, PTL DEF Spec

\* The types of Crawl, and that no card is shown twice.
THEOREM CrawlTypeCorrect == Spec => []TypeOK
<1>1. TInv => TypeOK
  BY DEF TInv
<1> QED
  BY <1>1, CrawlTInv, PTL

-----------------------------------------------------------------------------
(* What a crawl changes *)

\* The dates that are read of cards that show calendar days.
LEMMA PlainDate ==
  ASSUME ~RelativeDates, TInv, Plain, NEW c \in Cards
  PROVE  /\ ReadDate(c) \in Texts
         /\ ReadDate(c).relative = FALSE /\ ReadDate(c).n <= day
         /\ c \notin Undated => ReadDate(c) = Calendar(date[c])
         /\ c \in Undated /\ stored[c] # None => ReadDate(c) = stored[c].text
         /\ c \in Undated /\ stored[c] = None => ReadDate(c) = Calendar(today)
<1>1. date[c] <= day /\ today <= day /\ ReadDate(c) \in Texts
  BY ReadDateType DEF TInv, InTime
<1>2. CASE c \notin Undated
  <2>1. ReadDate(c) = Calendar(date[c])
    BY <1>2 DEF ReadDate, Written
  <2> QED
    BY <1>1, <1>2, <2>1
<1>3. CASE c \in Undated /\ stored[c] # None
  <2>1. ReadDate(c) = stored[c].text
    BY <1>3 DEF ReadDate
  <2> QED
    BY <1>1, <1>3, <2>1 DEF Plain
<1>4. CASE c \in Undated /\ stored[c] = None
  <2>1. ReadDate(c) = Calendar(today)
    BY <1>4 DEF ReadDate
  <2> QED
    BY <1>1, <1>4, <2>1
<1> QED
  BY <1>2, <1>3, <1>4

\* A listing with a calendar day is valued at that day.
LEMMA PlainValue ==
  ASSUME NEW text \in Texts, text.relative = FALSE, NEW r
  PROVE  /\ Value(text, r) = text.n /\ text.n \in 0..MaxDays
         /\ \A d : text.n = d => text = Calendar(d)
  BY DEF Value

LEMMA UndatedAreCards == Undated \subseteq Cards
  BY SourceAssumption

\* What a card was read with after a page.
LEMMA CollectedCard ==
  ASSUME NEW cards, NEW c \in Cards
  PROVE  /\ seen[c] # None => Collected(cards)[c] = seen[c]
         /\ seen[c] = None /\ c \in Scanned(cards) =>
              /\ Collected(cards)[c] = [kind |-> Kind, text |-> ReadDate(c)]
              /\ Collected(cards)[c].kind = Kind
              /\ Collected(cards)[c].text = ReadDate(c)
         /\ seen[c] = None /\ c \notin Scanned(cards) => Collected(cards)[c] = None
  BY DEF Collected

\* A transaction leaves what was stored of a card or what was read of it.
LEMMA AfterOf ==
  ASSUME NEW c \in Cards
  PROVE  /\ After(c) \in {stored[c], seen[c]}
         /\ seen[c] # None => After(c) # None /\ After(c).text = seen[c].text
         /\ seen[c] = None => After(c) = stored[c]
         /\ stored[c] # None => After(c) # None
  BY DEF After, Changed

PInv == TInv /\ Plain /\ Faithful

\* Reading a page keeps the dates faithful.
LEMMA FetchFaithful ==
  ASSUME ~RelativeDates, PInv, NEW cards \in Pages, Fetch(cards)
  PROVE  Plain' /\ Faithful'
<1>1. UNCHANGED <<day, date, stored, unstored>>
  BY DEF Fetch
<1>2. CASE seen' = seen
  BY <1>1, <1>2 DEF PInv, Plain, Faithful
<1>3. CASE seen' = Collected(cards)
  <2>1. ASSUME NEW c \in Cards, seen'[c] # None
        PROVE  /\ seen'[c].text.relative = FALSE /\ seen'[c].text.n <= day
               /\ c \notin Undated \cup unstored => seen'[c].text = Calendar(date[c])
               /\ c \in Undated /\ stored[c] # None => seen'[c].text = stored[c].text
    <3>1. CASE seen[c] # None
      <4>1. seen'[c] = seen[c]
        BY <1>3, <3>1, CollectedCard
      <4> QED
        BY <3>1, <4>1 DEF PInv, Plain, Faithful
    <3>2. CASE seen[c] = None
      <4>1. seen'[c].text = ReadDate(c)
        BY <1>3, <2>1, <3>2, CollectedCard
      <4> QED
        BY <4>1, PlainDate DEF PInv
    <3> QED
      BY <3>1, <3>2
  <2>2. Plain'
    BY <1>1, <2>1 DEF PInv, Plain
  <2>3. Faithful'
    BY <1>1, <2>1, UndatedAreCards DEF PInv, Faithful
  <2> QED
    BY <2>2, <2>3
<1> QED
  BY <1>2, <1>3 DEF Fetch

\* So does the transaction.
LEMMA CommitFaithful ==
  ASSUME PInv, Commit
  PROVE  Plain' /\ Faithful'
<1>1. /\ UNCHANGED <<day, date>> /\ \A c \in Cards : seen'[c] = None
      /\ \A c \in Cards : stored'[c] = After(c)
      /\ unstored' = {c \in unstored : ~UpToDate(c)}
  BY DEF Commit
<1>2. ASSUME NEW c \in Cards, After(c) # None
      PROVE  /\ After(c).text \in Texts
             /\ After(c).text.relative = FALSE /\ After(c).text.n <= day
             /\ c \notin Undated \cup unstored => After(c).text = Calendar(date[c])
             /\ c \notin Undated /\ UpToDate(c) => After(c).text = Calendar(date[c])
  <2>1. CASE seen[c] # None
    <3>1. After(c).text = seen[c].text /\ seen[c].text \in Texts
          /\ seen[c].text.relative = FALSE
      BY <2>1, AfterOf DEF PInv, TInv, TypeOK, Plain
    <3>2. Value(After(c).text, today) = date[c] => After(c).text = Calendar(date[c])
      BY <3>1, PlainValue
    <3> HIDE DEF Texts, Calendar
    <3> QED
      BY <2>1, <3>1, <3>2 DEF PInv, Plain, Faithful, UpToDate
  <2>2. CASE seen[c] = None
    <3>1. After(c) = stored[c] /\ stored[c].text \in Texts
          /\ stored[c].text.relative = FALSE
      BY <1>2, <2>2, AfterOf DEF PInv, TInv, TypeOK, Plain
    <3>2. Value(After(c).text, today) = date[c] => After(c).text = Calendar(date[c])
      BY <3>1, PlainValue
    <3> HIDE DEF Texts, Calendar
    <3> QED
      BY <1>2, <3>1, <3>2 DEF PInv, Plain, Faithful, UpToDate
  <2> QED
    BY <2>1, <2>2
<1>3. Plain'
  BY <1>1, <1>2 DEF Plain
<1>4. Faithful'
  BY <1>1, <1>2, UndatedAreCards DEF Faithful
<1> QED
  BY <1>3, <1>4

LEMMA InitPInv == Init => PInv
  BY InitTInv DEF Init, PInv, Plain, Faithful

\* A card that comes to the top is changed.
LEMMA TopFaithful ==
  ASSUME PInv, NEW c \in Cards, NEW k, NEW p, ToTop(c, k, p)
  PROVE  Plain' /\ Faithful'
<1>1. /\ UNCHANGED <<day, stored, seen>> /\ \A x \in Cards : x # c => date'[x] = date[x]
      /\ unstored \subseteq unstored' /\ c \in unstored' \cup Undated
  BY DEF ToTop, PInv, TInv, TypeOK
<1>2. Plain'
  BY <1>1 DEF PInv, Plain
<1>3. Faithful'
  BY <1>1 DEF PInv, Faithful
<1> QED
  BY <1>2, <1>3

\* Every step keeps the dates faithful.
LEMMA NextPInv == ~RelativeDates /\ PInv /\ [Next]_vars => PInv'
<1> SUFFICES ASSUME ~RelativeDates, PInv, [Next]_vars PROVE Plain' /\ Faithful'
  BY NextTInv DEF PInv
<1>1. ASSUME NEW c \in Cards, NEW k \in Kinds, Post(c, k) PROVE Plain' /\ Faithful'
  BY <1>1, TopFaithful DEF Post
<1>2. ASSUME NEW k \in Kinds, NEW p \in 1..Len(board[k]), Refresh(p, k)
      PROVE  Plain' /\ Faithful'
  <2>1. board[k][p] \in Cards
    BY ElementOfSeq DEF PInv, TInv, TypeOK
  <2> QED
    BY <1>2, <2>1, TopFaithful DEF Refresh
<1>3. CASE \/ AddCategory \/ BudgetSpent \/ UNCHANGED vars
           \/ \E k \in Kinds : \E p \in 1..Len(board[k]) : Remove(p, k)
  <2>1. UNCHANGED <<day, date, stored, seen, unstored>>
    BY <1>3 DEF AddCategory, BudgetSpent, Remove, vars
  <2> QED
    BY <2>1 DEF PInv, Plain, Faithful
<1>4. CASE Tick
  <2>1. /\ day' = day + 1 /\ date' = date /\ stored' = stored /\ seen' = seen
        /\ unstored' = unstored
    BY <1>4 DEF Tick
  <2>2. ASSUME NEW n \in Int, n <= day PROVE n <= day'
    BY <2>1, <2>2 DEF PInv, TInv, TypeOK
  <2>3. ASSUME NEW c \in Cards, stored[c] # None
        PROVE  stored[c].text.relative = FALSE /\ stored[c].text.n <= day'
    <3>1. stored[c].text.relative = FALSE /\ stored[c].text.n <= day
      BY <2>3 DEF PInv, Plain
    <3>2. stored[c].text.n \in Int
      BY <2>3 DEF PInv, TInv, TypeOK
    <3> QED
      BY ONLY <2>2, <3>1, <3>2
  <2>4. ASSUME NEW c \in Cards, seen[c] # None
        PROVE  seen[c].text.relative = FALSE /\ seen[c].text.n <= day'
    <3>1. seen[c].text.relative = FALSE /\ seen[c].text.n <= day
      BY <2>4 DEF PInv, Plain
    <3>2. seen[c].text.n \in Int
      BY <2>4 DEF PInv, TInv, TypeOK
    <3> QED
      BY ONLY <2>2, <3>1, <3>2
  <2>5. Plain'
    BY ONLY <2>1, <2>3, <2>4 DEF Plain
  <2>6. Faithful'
    BY <2>1 DEF PInv, Faithful
  <2> QED
    BY <2>5, <2>6
<1>5. CASE Begin \/ FirstPageEmpty \/ Fail
  <2>1. /\ UNCHANGED <<day, date, stored, unstored>>
        /\ \A c \in Cards : seen'[c] = None
    BY <1>5 DEF Begin, FirstPageEmpty, Fail, Abandon
  <2> QED
    BY <2>1, UndatedAreCards DEF PInv, Plain, Faithful
<1>6. ASSUME NEW cards \in Pages, Fetch(cards) PROVE Plain' /\ Faithful'
  BY <1>6, FetchFaithful
<1>7. CASE Commit
  BY <1>7, CommitFaithful
<1> QED
  BY <1>1, <1>2, <1>3, <1>4, <1>5, <1>6, <1>7 DEF Next, Step

LEMMA CrawlPInv == ASSUME ~RelativeDates PROVE Spec => []PInv
  BY InitPInv, NextPInv, PTL DEF Spec

\* Where calendar days are shown, a stored listing changes only when List.am
\* changed it.
THEOREM CrawlUpdatesAreReal == ASSUME ~RelativeDates PROVE Spec => UpdatesAreReal
<1> DEFINE Real == \A c \in Cards :
             stored'[c] # stored[c] => stored[c] = None \/ c \in unstored
<1>1. PInv /\ [Next]_vars => [Real]_vars
  <2> SUFFICES ASSUME PInv, Next PROVE Real
    BY DEF vars
  <2>1. CASE Commit
    <3> SUFFICES ASSUME NEW c \in Cards, stored'[c] # stored[c], stored[c] # None,
                        c \notin unstored
                 PROVE  FALSE
      OBVIOUS
    <3>1. stored'[c] = After(c)
      BY <2>1 DEF Commit
    <3>2. Changed(c) /\ seen[c] # None
      BY <3>1 DEF After, Changed
    <3>3. stored[c].text = seen[c].text
      BY <3>2 DEF PInv, Faithful
    <3> QED
      BY <3>2, <3>3 DEF Changed
  <2>2. CASE ~Commit
    <3>1. UNCHANGED stored
      BY <2>2 DEF Next, Step, Post, Refresh, Remove, ToTop, Tick, AddCategory, Begin,
                  BudgetSpent, Fetch, FirstPageEmpty, Fail, Abandon
    <3> QED
      BY <3>1
  <2> QED
    BY <2>1, <2>2
<1> QED
  BY <1>1, CrawlPInv, PTL DEF Spec, UpdatesAreReal
-----------------------------------------------------------------------------
(* The places of cards, and what was read *)

\* Where the cards of a page are on the board.
LEMMA PagePlace ==
  ASSUME TypeOK, NEW cards \in Pages, cards # <<>>
  PROVE  \E n \in 0..(Len(board[Kind]) - 1) :
           /\ ~Beyond => n = Passed
           /\ Beyond => n + Len(cards) = Len(board[Kind])
           /\ Len(cards) \in 1..PageSize
           /\ Len(cards) = PageSize \/ n + Len(cards) = Len(board[Kind])
           /\ \A j \in 1..Len(cards) :
                n + j \in 1..Len(board[Kind]) /\ cards[j] = board[Kind][n + j]
<1>1. board[Kind] \in Seq(Cards) /\ Len(board[Kind]) \in Nat
  BY KindsConfigured, LenProperties DEF TypeOK
<1>2. PICK n \in 0..(Len(board[Kind]) - 1) :
        /\ cards = PageAfter(board[Kind], n) /\ (~Beyond => n = Passed)
        /\ Beyond => n + PageSize >= Len(board[Kind])
  BY PageType
<1> DEFINE all == board[Kind]
<1>3. all \in Seq(Cards) /\ n \in 0..(Len(all) - 1) /\ cards = PageAfter(all, n)
  BY <1>1, <1>2
<1> HIDE DEF all
<1>4. /\ Len(cards) \in 1..PageSize /\ n + Len(cards) <= Len(all)
      /\ Len(cards) = PageSize \/ n + Len(cards) = Len(all)
      /\ \A j \in 1..Len(cards) : cards[j] = all[n + j]
  BY <1>3, PageShape
<1>5. \A j \in 1..Len(cards) : n + j \in 1..Len(all)
  BY <1>1, <1>3, <1>4 DEF all
<1>6. Beyond => n + Len(cards) = Len(all)
  BY <1>1, <1>2, <1>3, <1>4 DEF all
<1> QED
  BY <1>2, <1>4, <1>5, <1>6 DEF all

\* Those that are read are cards of the page, and one that is not stands at or
\* below an old one.
LEMMA ScannedCards ==
  ASSUME NEW cards, Len(cards) \in Nat
  PROVE  /\ \A c \in Scanned(cards) : \E i \in 1..Len(cards) : cards[i] = c
         /\ \A i \in 1..Len(cards) :
              cards[i] \in Scanned(cards) \/ \E j \in 1..i : Old(cards[j])
<1> DEFINE old == {i \in 1..Len(cards) : Old(cards[i])}
           stop == CHOOSE i \in old : \A j \in old : i <= j
<1>1. CASE old = {}
  BY <1>1 DEF Scanned
<1>2. CASE old # {}
  <2>1. Scanned(cards) = {cards[i] : i \in 1..(stop - 1)} \cup
                         {c \in {cards[stop]} : stored[c] # None}
    BY <1>2 DEF Scanned
  <2>2. old \subseteq Nat
    OBVIOUS
  <2> HIDE DEF old
  <2>3. stop \in old
    <3>1. \E i \in old : \A j \in old : i <= j
      BY <1>2, <2>2, LeastNatural
    <3> QED
      BY <3>1
  <2> HIDE DEF stop
  <2>4. stop \in 1..Len(cards) /\ Old(cards[stop])
    BY <2>3 DEF old
  <2>5. \A c \in Scanned(cards) : \E i \in 1..Len(cards) : cards[i] = c
    <3>1. \A i \in 1..(stop - 1) : i \in 1..Len(cards)
      BY <2>4
    <3> QED
      BY <2>1, <2>4, <3>1
  <2>6. ASSUME NEW i \in 1..Len(cards), cards[i] \notin Scanned(cards)
        PROVE  \E j \in 1..i : Old(cards[j])
    <3>1. ~(i \in 1..(stop - 1))
      BY <2>1, <2>6
    <3>2. stop \in 1..i
      BY <2>4, <3>1
    <3> QED
      BY <2>4, <3>2
  <2> QED
    BY <2>5, <2>6
<1> QED
  BY <1>1, <1>2

\* They are cards of the category that is read.
LEMMA ScannedOn ==
  ASSUME TypeOK, NEW cards \in Pages, NEW c \in Scanned(cards)
  PROVE  c \in On(Kind) /\ c \in Cards /\ c \in Posted
<1>1. Len(cards) \in Nat
  BY PageType
<1>2. PICK i \in 1..Len(cards) : cards[i] = c
  BY <1>1, ScannedCards
<1>3. cards # <<>>
  BY <1>2
<1>4. PICK j \in 1..Len(board[Kind]) : board[Kind][j] = c
  BY <1>2, <1>3, PagePlace
<1>5. Kind \in Kinds /\ board[Kind] \in Seq(Cards)
  BY KindsConfigured DEF TypeOK
<1> QED
  BY <1>4, <1>5, ElementOfSeq DEF On, Posted

\* A card on a board has one place, on one board.
LEMMA PlaceOf ==
  ASSUME TypeOK, NEW c, NEW k \in Kinds, NEW l \in Kinds, c \in On(k), c \in On(l)
  PROVE  k = l /\ c \in Cards
<1>1. PICK i \in 1..Len(board[k]) : c = board[k][i]
  BY DEF On
<1>2. PICK j \in 1..Len(board[l]) : c = board[l][j]
  BY DEF On
<1>3. k = l
  BY <1>1, <1>2 DEF TypeOK
<1>4. board[k] \in Seq(Cards)
  BY DEF TypeOK
<1> QED
  BY <1>1, <1>3, <1>4, ElementOfSeq

\* The cards of boards that have changed.
LEMMA RaisedOn ==
  ASSUME TypeOK, NEW c \in Cards, NEW k \in Kinds, NEW p, Rises(c, k, p), ToTop(c, k, p)
  PROVE  \A l \in Kinds :
           /\ \A x \in On(l)' : (x = c /\ l = k) \/ (x # c /\ x \in On(l))
           /\ \A x \in On(l) : x \in On(l)' /\ (x = c => l = k)
<1> TAKE l \in Kinds
<1>1. ASSUME NEW x \in On(l)' PROVE (x = c /\ l = k) \/ (x # c /\ x \in On(l))
  <2>1. PICK i \in 1..Len(board'[l]) : x = board'[l][i]
    BY DEF On
  <2>2. CASE l = k /\ i = 1 /\ board'[l][i] = c
    BY <2>1, <2>2
  <2>3. ASSUME NEW j, Came(k, p, l, i, j) PROVE x # c /\ x \in On(l)
    <3>1. board[l][j] # c
      BY <2>3, RaisedCame
    <3>2. j \in 1..Len(board[l]) /\ x = board[l][j]
      BY <2>1, <2>3 DEF Came
    <3> QED
      BY <3>1, <3>2 DEF On
  <2> QED
    BY <2>2, <2>3, RaisedCame
<1>2. c \in On(k)'
  BY RaisedFrom DEF On
<1>3. ASSUME NEW x \in On(l) PROVE x \in On(l)' /\ (x = c => l = k)
  <2>1. PICK j \in 1..Len(board[l]) : x = board[l][j]
    BY DEF On
  <2>2. CASE x = c
    <3>1. l = k
      <4>1. CASE c \notin Posted
        BY <2>2, <4>1 DEF Posted
      <4>2. CASE p \in 1..Len(board[k]) /\ c = board[k][p]
        BY <2>1, <2>2, <4>2 DEF TypeOK
      <4> QED
        BY <4>1, <4>2 DEF Rises
    <3> QED
      BY <1>2, <2>2, <3>1
  <2>3. ASSUME NEW i, Came(k, p, l, i, j) PROVE x \in On(l)' /\ x # c
    <3>1. board[l][j] # c
      BY <2>3, RaisedCame
    <3>2. i \in 1..Len(board'[l]) /\ x = board'[l][i]
      BY <2>1, <2>3 DEF Came
    <3> QED
      BY <2>1, <3>1, <3>2 DEF On
  <2> QED
    BY <2>1, <2>2, <2>3, RaisedCame
<1> QED
  BY <1>1, <1>3

LEMMA RemovedOn ==
  ASSUME TypeOK, NEW k \in Kinds, NEW p \in 1..Len(board[k]), Remove(p, k)
  PROVE  \A l \in Kinds :
           /\ \A x \in On(l)' : x \in On(l)
           /\ \A x \in On(l) : x = board[k][p] \/ x \in On(l)'
<1> TAKE l \in Kinds
<1>1. ASSUME NEW x \in On(l)' PROVE x \in On(l)
  <2>1. PICK i \in 1..Len(board'[l]) : x = board'[l][i]
    BY DEF On
  <2>2. From(k, p, l, i) \in 1..Len(board[l]) /\ x = board[l][From(k, p, l, i)]
    BY <2>1, RemovedOthers
  <2> QED
    BY <2>2 DEF On
<1>2. ASSUME NEW x \in On(l), x # board[k][p] PROVE x \in On(l)'
  <2>1. PICK j \in 1..Len(board[l]) : x = board[l][j]
    BY DEF On
  <2>2. PICK i \in 1..Len(board'[l]) : board'[l][i] = board[l][j]
    BY <1>2, <2>1, RemovedOthers
  <2> QED
    BY <2>1, <2>2 DEF On
<1> QED
  BY <1>1, <1>2
-----------------------------------------------------------------------------
(* The order of the boards *)

QInv == PInv /\ Sorted /\ Placed /\ Stage /\ Kept /\ Marked

\* A card that comes to the top is as new as any.
LEMMA TopOrdered ==
  ASSUME TInv, Sorted, Placed, NEW c \in Cards, NEW k \in Kinds, NEW p,
         Rises(c, k, p), ToTop(c, k, p)
  PROVE  Sorted' /\ Placed'
<1>1. /\ UNCHANGED <<day, stored, seen>> /\ \A x \in Cards : x # c => date'[x] = date[x]
      /\ date'[c] = day /\ day \in Nat /\ day # 0
      /\ \A x \in Cards : date[x] \in Nat /\ date[x] <= day
  BY DEF ToTop, TInv, TypeOK, InTime
<1>2. \A l \in Kinds : \A i \in 1..Len(board[l]) : board[l][i] \in Cards
  BY ElementOfSeq DEF TInv, TypeOK
<1>3. \A l \in Kinds : Len(board'[l]) \in Nat
  BY RaisedFrom, LenProperties DEF TInv
<1>4. p \in Nat
  BY RaisedFrom DEF TInv
<1>5. ASSUME NEW l \in Kinds, NEW i \in 1..Len(board'[l]), NEW j \in 1..Len(board'[l]), i < j
      PROVE  date'[board'[l][j]] <= date'[board'[l][i]]
  <2>1. PICK b : Came(k, p, l, j, b)
    <3>1. j # 1
      BY <1>5
    <3> QED
      BY <3>1, RaisedCame DEF TInv
  <2>2. b \in 1..Len(board[l]) /\ board'[l][j] = board[l][b] /\ board[l][b] # c
    <3>1. board[l][b] # c
      BY <2>1, RaisedCame DEF TInv
    <3> QED
      BY <2>1, <3>1 DEF Came
  <2>3. date'[board'[l][j]] = date[board[l][b]] /\ date[board[l][b]] <= day
    BY <1>1, <1>2, <2>2
  <2>4. CASE board'[l][i] = c
    BY <1>1, <2>3, <2>4
  <2>5. ASSUME NEW a, Came(k, p, l, i, a) PROVE date'[board'[l][j]] <= date'[board'[l][i]]
    <3>1. a \in 1..Len(board[l]) /\ board'[l][i] = board[l][a] /\ board[l][a] # c
      <4>1. board[l][a] # c
        BY <2>5, RaisedCame DEF TInv
      <4> QED
        BY <2>5, <4>1 DEF Came
    <3>2. a < b
      BY <1>4, <1>5, <2>1, <2>5 DEF Came
    <3>3. date[board[l][b]] <= date[board[l][a]]
      BY <2>2, <3>1, <3>2 DEF Sorted
    <3> QED
      BY <1>1, <1>2, <2>3, <3>1, <3>3
  <2> QED
    BY <2>4, <2>5, RaisedCame DEF TInv
<1>6. Sorted'
  BY <1>5 DEF Sorted
<1>7. \A l \in Kinds : \A x \in On(l)' : (x = c /\ l = k) \/ (x # c /\ x \in On(l))
  BY RaisedOn DEF TInv
<1>8. c \in On(k) \/ (stored[c] = None /\ seen[c] = None)
  <2>1. CASE c \notin Posted /\ date[c] = 0
    BY <2>1 DEF Placed
  <2>2. CASE p \in 1..Len(board[k]) /\ c = board[k][p]
    BY <2>2 DEF On
  <2> QED
    BY <2>1, <2>2 DEF Rises
<1>9. Placed'
  <2>1. \A x \in Cards : date'[x] = 0 => x \notin Posted' /\ stored'[x] = None /\ seen'[x] = None
    <3>1. \A x \in Cards : date'[x] = 0 => x # c /\ date[x] = 0
      BY <1>1
    <3>2. \A x \in Posted' : x = c \/ x \in Posted
      BY <1>7 DEF Posted
    <3> QED
      BY <1>1, <3>1, <3>2 DEF Placed
  <2>2. \A l \in Kinds : \A x \in On(l)' :
          /\ stored[x] # None => stored[x].kind = l
          /\ seen[x] # None => seen[x].kind = l
    BY <1>7, <1>8 DEF Placed
  <2> QED
    BY <1>1, <2>1, <2>2 DEF Placed
<1> QED
  BY <1>6, <1>9

\* A card that is taken down leaves the others in their order.
LEMMA RemoveOrdered ==
  ASSUME TInv, Sorted, Placed, NEW k \in Kinds, NEW p \in 1..Len(board[k]), Remove(p, k)
  PROVE  Sorted' /\ Placed'
<1>1. UNCHANGED <<date, stored, seen>>
  BY DEF Remove
<1>2. ASSUME NEW l \in Kinds, NEW i \in 1..Len(board'[l]), NEW j \in 1..Len(board'[l]), i < j
      PROVE  date[board'[l][j]] <= date[board'[l][i]]
  <2>1. From(k, p, l, i) < From(k, p, l, j)
    <3>1. Len(board[k]) \in Nat /\ i \in Nat /\ j \in Nat
      BY RemovedOthers, RemovedFrom DEF TInv
    <3> QED
      BY <1>2, <3>1 DEF From
  <2>2. /\ From(k, p, l, i) \in 1..Len(board[l]) /\ From(k, p, l, j) \in 1..Len(board[l])
        /\ board'[l][i] = board[l][From(k, p, l, i)]
        /\ board'[l][j] = board[l][From(k, p, l, j)]
    BY RemovedOthers DEF TInv
  <2> QED
    BY <2>1, <2>2 DEF Sorted
<1>3. Sorted'
  BY <1>1, <1>2 DEF Sorted
<1>4. \A l \in Kinds : \A x \in On(l)' : x \in On(l)
  BY RemovedOn DEF TInv
<1>5. \A x \in Posted' : x \in Posted
  BY <1>4 DEF Posted
<1>6. Placed'
  BY <1>1, <1>4, <1>5 DEF Placed
<1> QED
  BY <1>3, <1>6

\* Nothing changes the order but that.
LEMMA BoardOrdered ==
  ASSUME Sorted, UNCHANGED <<board, date>>
  PROVE  /\ Sorted' /\ Posted' = Posted /\ \A k \in Kinds : On(k)' = On(k)
  BY DEF Sorted, Posted, On

\* A page is of cards of its category.
LEMMA FetchOrdered ==
  ASSUME TInv, Sorted, Placed, NEW cards \in Pages, Fetch(cards)
  PROVE  Sorted' /\ Placed'
<1>1. UNCHANGED <<board, date, stored>> /\ seen' \in {seen, Collected(cards)}
  BY DEF Fetch
<1>2. ASSUME NEW c \in Cards, seen'[c] # None
      PROVE  /\ date[c] # 0
             /\ \A k \in Kinds : c \in On(k) => seen'[c].kind = k
             /\ stored[c] # None => seen'[c].kind = stored[c].kind
  <2>1. CASE seen[c] # None
    <3>1. seen'[c] = seen[c]
      BY <1>1, <2>1, CollectedCard
    <3> QED
      BY <2>1, <3>1 DEF Placed
  <2>2. CASE seen[c] = None
    <3>1. seen' = Collected(cards)
      BY <1>1, <1>2, <2>2
    <3>2. seen'[c].kind = Kind /\ c \in Scanned(cards)
      BY <1>2, <2>2, <3>1, CollectedCard
    <3>3. c \in On(Kind) /\ c \in Posted
      BY <3>2, ScannedOn DEF TInv
    <3>4. Kind \in Kinds
      BY KindsConfigured DEF TInv
    <3>5. \A k \in Kinds : c \in On(k) => k = Kind
      BY <3>3, <3>4, PlaceOf DEF TInv
    <3> QED
      BY <3>2, <3>3, <3>4, <3>5 DEF Placed
  <2> QED
    BY <2>1, <2>2
<1>3. \A k \in Kinds : \A c \in On(k) : c \in Cards
  BY PlaceOf DEF TInv
<1>4. Sorted' /\ Posted' = Posted /\ \A k \in Kinds : On(k)' = On(k)
  BY <1>1, BoardOrdered
<1>5. Placed'
  BY <1>1, <1>2, <1>3, <1>4 DEF Placed
<1> QED
  BY <1>4, <1>5

\* What a transaction stores of a card is of the category it had.
LEMMA CommitOrdered ==
  ASSUME TInv, Sorted, Placed, Commit
  PROVE  Sorted' /\ Placed'
<1>1. /\ UNCHANGED <<board, date>> /\ \A c \in Cards : stored'[c] \in {stored[c], seen[c]}
      /\ \A c \in Cards : seen'[c] = None
  BY DEF Commit, After
<1>2. Sorted' /\ Posted' = Posted /\ \A k \in Kinds : On(k)' = On(k)
  BY <1>1, BoardOrdered
<1>3. \A k \in Kinds : \A c \in On(k) : c \in Cards
  BY PlaceOf DEF TInv
<1>4. Placed'
  BY <1>1, <1>2, <1>3 DEF Placed
<1> QED
  BY <1>2, <1>4

LEMMA NextOrdered == TInv /\ Sorted /\ Placed /\ [Next]_vars => Sorted' /\ Placed'
<1> SUFFICES ASSUME TInv, Sorted, Placed, [Next]_vars PROVE Sorted' /\ Placed'
  OBVIOUS
<1>1. ASSUME NEW c \in Cards, NEW k \in Kinds, Post(c, k) PROVE Sorted' /\ Placed'
  <2>1. Rises(c, k, Len(board[k]) + 1) /\ ToTop(c, k, Len(board[k]) + 1)
    BY <1>1 DEF Post, Rises
  <2> QED
    BY <2>1, TopOrdered
<1>2. ASSUME NEW k \in Kinds, NEW p \in 1..Len(board[k]), Refresh(p, k)
      PROVE  Sorted' /\ Placed'
  <2>1. Rises(board[k][p], k, p) /\ ToTop(board[k][p], k, p) /\ board[k][p] \in Cards
    BY <1>2, ElementOfSeq DEF Refresh, Rises, TInv, TypeOK
  <2> QED
    BY <2>1, TopOrdered
<1>3. ASSUME NEW k \in Kinds, NEW p \in 1..Len(board[k]), Remove(p, k)
      PROVE  Sorted' /\ Placed'
  BY <1>3, RemoveOrdered
<1>4. ASSUME NEW cards \in Pages, Fetch(cards) PROVE Sorted' /\ Placed'
  BY <1>4, FetchOrdered
<1>5. CASE Commit
  BY <1>5, CommitOrdered
<1>6. CASE Tick \/ AddCategory \/ Begin \/ BudgetSpent \/ FirstPageEmpty \/ Fail
           \/ UNCHANGED vars
  <2>1. /\ UNCHANGED <<board, date, stored>>
        /\ seen' = seen \/ \A c \in Cards : seen'[c] = None
    BY <1>6 DEF Tick, AddCategory, Begin, BudgetSpent, FirstPageEmpty, Fail, Abandon, vars
  <2>2. Sorted' /\ Posted' = Posted /\ \A k \in Kinds : On(k)' = On(k)
    BY <2>1, BoardOrdered
  <2>3. \A k \in Kinds : \A c \in On(k) : c \in Cards
    BY PlaceOf DEF TInv
  <2>4. Placed'
    BY <2>1, <2>2, <2>3 DEF Placed
  <2> QED
    BY <2>2, <2>4
<1> QED
  BY <1>1, <1>2, <1>3, <1>4, <1>5, <1>6 DEF Next, Step
-----------------------------------------------------------------------------
(* Where a crawl is, and what it knows of the categories *)

LEMMA NextStage == TInv /\ Stage /\ [Next]_vars => Stage'
<1> SUFFICES ASSUME TInv, Stage, [Next]_vars PROVE Stage'
  OBVIOUS
<1>1. ASSUME NEW c, NEW k, NEW p, ToTop(c, k, p) PROVE Stage'
  <2>1. UNCHANGED <<pc, at, page, signatures>> /\ due' \subseteq due
    BY <1>1 DEF ToTop
  <2>2. pc = "fetch" => moves' < PageSize
    BY <1>1 DEF ToTop, Calm, TInv, TypeOK
  <2> QED
    BY <2>1, <2>2 DEF Stage
<1>2. ASSUME NEW k, NEW p, Remove(p, k) PROVE Stage'
  BY <1>2 DEF Remove, Stage
<1>3. CASE BudgetSpent \/ \E cards \in Pages : Fetch(cards) /\ NextCategory
  <2>1. pc' \in {"fetch", "commit"} /\ page' = 1 /\ signatures' = {}
    BY <1>3, NextCategoryType DEF BudgetSpent, Fetch, TInv
  <2>2. moves' \in {moves, 0} /\ pc = "fetch"
    BY <1>3 DEF BudgetSpent, Fetch
  <2> QED
    BY <2>1, <2>2 DEF Stage
<1>4. ASSUME NEW cards, Fetch(cards), NextPage(cards) PROVE Stage'
  <2>1. pc' = "fetch" /\ page' # 1 /\ moves' = 0
    BY <1>4 DEF Fetch, NextPage, TInv, TypeOK
  <2> QED
    BY <2>1 DEF Stage
<1>5. CASE Begin \/ FirstPageEmpty \/ Fail
  <2>1. at' = 1 /\ page' = 1 /\ signatures' = {} /\ moves' = 0
    BY <1>5 DEF Begin, FirstPageEmpty, Fail, Abandon
  <2>2. pc' = "idle" => due' = {}
    BY <1>5 DEF Begin, FirstPageEmpty, Fail, Abandon
  <2> QED
    BY <2>1, <2>2 DEF Stage
<1>6. CASE Commit
  BY <1>6 DEF Commit, Stage
<1>7. CASE Tick \/ AddCategory \/ UNCHANGED vars
  BY <1>7 DEF Tick, AddCategory, vars, Stage
<1> QED
  BY <1>1, <1>2, <1>3, <1>4, <1>5, <1>6, <1>7
  DEF Next, Step, Post, Refresh, Fetch

LEMMA NextMarked == ~RelativeDates /\ PInv /\ Marked /\ [Next]_vars => Marked'
<1> SUFFICES ASSUME ~RelativeDates, PInv, Marked, [Next]_vars PROVE Marked'
  OBVIOUS
<1>1. CASE Begin
  <2>1. stored' = stored /\ \A k \in Kinds : watermarks'[k] = Watermark(k)
    BY <1>1 DEF Begin
  <2>2. \A c \in Cards : stored[c] # None => Value(stored[c].text, day) = stored[c].text.n
    BY DEF PInv, Plain, Value
  <2>3. \A k \in Kinds : OfKind(k)' = OfKind(k)
    BY <2>1 DEF OfKind
  <2>4. ASSUME NEW k \in Kinds, watermarks'[k] # None
        PROVE  \E c \in OfKind(k) : stored[c].text.n = watermarks'[k]
    <3>1. PICK c \in OfKind(k) : Watermark(k) = Value(stored[c].text, day)
      BY <2>1, <2>4, WatermarkType DEF PInv
    <3> QED
      BY <2>1, <2>2, <3>1 DEF OfKind
  <2>5. \A k \in Kinds : watermarks'[k] = None => OfKind(k) = {}
    BY <2>1, WatermarkType DEF PInv
  <2> QED
    BY <2>1, <2>3, <2>4, <2>5 DEF Marked
<1>2. CASE FirstPageEmpty \/ Fail \/ Commit
  BY <1>2 DEF FirstPageEmpty, Fail, Abandon, Commit, Marked
<1>3. CASE ~(Begin \/ FirstPageEmpty \/ Fail \/ Commit)
  <2>1. UNCHANGED <<stored, watermarks>> /\ (pc' # "idle" => pc # "idle")
    BY <1>3 DEF Next, Step, Post, Refresh, ToTop, Remove, Tick, AddCategory, BudgetSpent,
                Fetch, vars
  <2>2. \A k \in Kinds : OfKind(k)' = OfKind(k)
    BY <2>1 DEF OfKind
  <2> QED
    BY <2>1, <2>2 DEF Marked
<1> QED
  BY <1>2, <1>1, <1>3

\* The category that is read has something once a page of it was read.
LEMMA FetchReads ==
  ASSUME TInv, Placed, Stage, Kept, Marked, NEW cards \in Pages, Fetch(cards)
  PROVE  OfKind(Kind) # {} \/ \E c \in Cards : seen'[c] # None /\ seen'[c].kind = Kind
<1>1. UNCHANGED stored /\ pc = "fetch" /\ seen' \in {seen, Collected(cards)}
  BY DEF Fetch
<1>2. CASE page > 1
  <2>1. ReadOf(at) /\ at \in 1..sources
    BY <1>1, <1>2, KindsConfigured DEF ReadOf, TInv
  <2>2. OfKind(Kind) # {} \/ SeenOf(Kind) # {}
    BY <2>1 DEF Kept, Kind
  <2>3. ASSUME NEW c \in SeenOf(Kind) PROVE c \in Cards /\ seen'[c] = seen[c]
    BY <1>1, CollectedCard DEF SeenOf
  <2> QED
    BY <2>2, <2>3 DEF SeenOf
<1>3. CASE page = 1 /\ OfKind(Kind) = {}
  <2>1. watermarks[Kind] = None
    BY <1>1, <1>3, KindsConfigured DEF Marked, TInv
  <2>2. signatures = {} /\ cards # <<>>
    BY <1>3 DEF Stage, Fetch
  <2>3. seen' = Collected(cards)
    BY <2>2 DEF Fetch
  <2>4. Len(cards) \in 1..PageSize /\ 1 \in 1..Len(cards)
    BY <2>2, PagePlace DEF TInv
  <2>5. cards[1] \in Scanned(cards)
    <3>1. \A c : ~Old(c)
      BY <2>1 DEF Old, Initial
    <3> QED
      BY <2>4, <3>1, ScannedCards
  <2>6. cards[1] \in On(Kind) /\ cards[1] \in Cards
    BY <2>5, ScannedOn DEF TInv
  <2>7. Kind \in Kinds /\ (seen[cards[1]] # None => seen[cards[1]].kind = Kind)
    BY <2>6, KindsConfigured DEF TInv, Placed
  <2>8. seen'[cards[1]] # None /\ seen'[cards[1]].kind = Kind
    <3>1. CASE seen[cards[1]] # None
      BY <2>3, <2>6, <2>7, <3>1, CollectedCard
    <3>2. CASE seen[cards[1]] = None
      <4>1. seen'[cards[1]] = [kind |-> Kind, text |-> ReadDate(cards[1])]
        BY <2>3, <2>5, <2>6, <3>2, CollectedCard
      <4>2. seen'[cards[1]] \in Listings
        <5> HIDE DEF Texts
        <5> QED
          BY <2>6, <2>7, <4>1, ReadDateType
      <4> QED
        BY <4>1, <4>2, NoneIsNone
    <3> QED
      BY <3>1, <3>2
  <2> QED
    BY <2>6, <2>8
<1> QED
  BY <1>2, <1>3 DEF TInv, TypeOK

\* A step of a category that was read leaves it read, and reads no other.
LEMMA NextCategoryRead ==
  ASSUME TypeOK, pc = "fetch", NextCategory, sources' = sources
  PROVE  \A i \in 1..sources : ReadOf(i)' <=> ReadOf(i) \/ i = at
<1>1. sources \in Nat /\ at \in 1..sources
  BY SourceAssumption, LenProperties DEF TypeOK
<1> QED
  BY <1>1 DEF NextCategory, ReadOf

LEMMA KeptKept ==
  ASSUME TypeOK, Kept, UNCHANGED <<stored, seen, sources>>,
         \A i \in 1..sources : ReadOf(i)' <=> ReadOf(i)
  PROVE  Kept'
<1>1. \A k : OfKind(k)' = OfKind(k) /\ SeenOf(k)' = SeenOf(k)
  BY DEF OfKind, SeenOf
<1> QED
  BY <1>1 DEF Kept

\* What a page reads is of the category, which is read then.
LEMMA FetchKept ==
  ASSUME TInv, Placed, Stage, Kept, Marked, NEW cards \in Pages, Fetch(cards)
  PROVE  Kept'
<1>1. UNCHANGED <<stored, sources>> /\ pc = "fetch" /\ seen' \in {seen, Collected(cards)}
  BY DEF Fetch
<1>2. \A i \in 1..sources : ReadOf(i)' <=> ReadOf(i) \/ i = at
  <2>1. CASE NextCategory
    BY <1>1, <2>1, NextCategoryRead DEF TInv
  <2>2. CASE NextPage(cards)
    BY <1>1, <2>2 DEF NextPage, ReadOf, TInv, TypeOK
  <2> QED
    BY <2>1, <2>2 DEF Fetch
<1>3. \A k : OfKind(k)' = OfKind(k)
  BY <1>1 DEF OfKind
<1>4. at \in 1..sources /\ Kind \in Kinds /\ Kind = Categories[at]
  BY KindsConfigured DEF TInv, Kind
<1>5. ASSUME NEW k \in Kinds, NEW c \in SeenOf(k)' PROVE c \in SeenOf(k) \/ k = Kind
  <2>1. c \in Cards /\ seen'[c] # None /\ seen'[c].kind = k
    BY DEF SeenOf
  <2>2. CASE seen[c] # None
    <3>1. seen'[c] = seen[c]
      BY <1>1, <2>1, <2>2, CollectedCard
    <3> QED
      BY <2>1, <3>1 DEF SeenOf
  <2>3. CASE seen[c] = None
    <3>1. seen' = Collected(cards)
      BY <1>1, <2>1, <2>3
    <3>2. seen'[c].kind = Kind
      BY <2>1, <2>3, <3>1, CollectedCard
    <3> QED
      BY <2>1, <3>2
  <2> QED
    BY <2>2, <2>3
<1>6. ASSUME NEW k \in Kinds, NEW c \in SeenOf(k) PROVE c \in SeenOf(k)'
  <2>1. c \in Cards /\ seen[c] # None /\ seen[c].kind = k
    BY DEF SeenOf
  <2>2. seen'[c] = seen[c]
    BY <1>1, <2>1, CollectedCard
  <2> QED
    BY <2>1, <2>2 DEF SeenOf
<1>7. \A k : k = Kind => OfKind(k) # {} \/ SeenOf(k)' # {}
  BY FetchReads DEF SeenOf
<1>8. \A i \in 1..sources : Categories[i] \in Kinds
  BY KindsConfigured DEF TInv
<1>9. \A k \in Kinds : OfKind(k)' # {} => \E i \in 1..sources' : Categories[i] = k
  BY <1>1, <1>3 DEF Kept
<1>10. \A k \in Kinds : SeenOf(k)' # {} =>
         \E i \in 1..sources' : Categories[i] = k /\ ReadOf(i)'
  <2> SUFFICES ASSUME NEW k \in Kinds, NEW c \in SeenOf(k)'
               PROVE  \E i \in 1..sources : Categories[i] = k /\ ReadOf(i)'
    BY <1>1
  <2>1. CASE c \in SeenOf(k)
    BY <1>2, <2>1 DEF Kept
  <2>2. CASE k = Kind
    BY <1>2, <1>4, <2>2
  <2> QED
    BY <1>5, <2>1, <2>2
<1>11. \A i \in 1..sources' : ReadOf(i)' =>
         OfKind(Categories[i])' # {} \/ SeenOf(Categories[i])' # {}
  <2> SUFFICES ASSUME NEW i \in 1..sources, ReadOf(i)', OfKind(Categories[i]) = {}
               PROVE  SeenOf(Categories[i])' # {}
    BY <1>1, <1>3
  <2>1. CASE i = at
    BY <1>4, <1>7, <2>1
  <2>2. CASE ReadOf(i)
    <3>1. SeenOf(Categories[i]) # {}
      BY <2>2 DEF Kept
    <3> QED
      BY <1>6, <1>8, <3>1
  <2> QED
    BY <1>2, <2>1, <2>2
<1> QED
  BY <1>9, <1>10, <1>11 DEF Kept

\* So is what a transaction stores.
LEMMA CommitKept ==
  ASSUME TInv, Kept, Commit
  PROVE  Kept'
<1>1. /\ UNCHANGED sources /\ \A c \in Cards : stored'[c] \in {stored[c], seen[c]}
      /\ pc' = "idle" /\ \A c \in Cards : seen'[c] = None
  BY DEF Commit, After
<1>2. \A k \in Kinds : OfKind(k)' # {} => OfKind(k) # {} \/ SeenOf(k) # {}
  BY <1>1 DEF OfKind, SeenOf
<1>3. \A k \in Kinds : SeenOf(k)' = {}
  BY <1>1 DEF SeenOf
<1>4. \A i : ~ReadOf(i)'
  BY <1>1 DEF ReadOf
<1> QED
  BY <1>1, <1>2, <1>3, <1>4 DEF Kept

LEMMA NextKept ==
  TInv /\ Placed /\ Stage /\ Kept /\ Marked /\ [Next]_vars => Kept'
<1> SUFFICES ASSUME TInv, Placed, Stage, Kept, Marked, [Next]_vars PROVE Kept'
  OBVIOUS
<1>1. CASE \/ Tick \/ UNCHANGED vars
           \/ \E k \in Kinds : \/ \E c \in Cards : Post(c, k)
                               \/ \E p \in 1..Len(board[k]) : Refresh(p, k) \/ Remove(p, k)
  <2>1. UNCHANGED <<stored, seen, sources, pc, at, page>>
    BY <1>1 DEF Tick, vars, Post, Refresh, ToTop, Remove
  <2>2. \A i : ReadOf(i)' <=> ReadOf(i)
    BY <2>1 DEF ReadOf
  <2> QED
    BY <2>1, <2>2, KeptKept DEF TInv
<1>2. CASE BudgetSpent
  <2>1. UNCHANGED <<stored, seen, sources>> /\ pc = "fetch" /\ NextCategory
    BY <1>2 DEF BudgetSpent
  <2>2. page > 1
    BY <1>2 DEF BudgetSpent, OverBudget, Budget, TInv, TypeOK
  <2>3. ReadOf(at)
    BY <2>1, <2>2 DEF ReadOf
  <2> QED
    BY <2>1, <2>3, NextCategoryRead, KeptKept DEF TInv
<1>3. CASE AddCategory \/ Begin \/ FirstPageEmpty \/ Fail
  <2>1. stored' = stored /\ sources' \in {sources, sources + 1}
    BY <1>3 DEF AddCategory, Begin, FirstPageEmpty, Fail, Abandon
  <2>2. /\ sources \in Nat /\ \A i \in 1..sources : i \in 1..sources'
    BY <2>1, SourceAssumption, LenProperties DEF TInv, TypeOK
  <2>3. \A k \in Kinds : SeenOf(k)' = {}
    <3>1. CASE AddCategory
      <4>1. seen' = seen /\ \A i : ~ReadOf(i)
        BY <3>1 DEF AddCategory, ReadOf
      <4> QED
        BY <4>1 DEF Kept, SeenOf
    <3>2. CASE Begin \/ FirstPageEmpty \/ Fail
      BY <3>2 DEF Begin, FirstPageEmpty, Fail, Abandon, SeenOf
    <3> QED
      BY <1>3, <3>1, <3>2
  <2>4. \A i \in 1..sources' : ~ReadOf(i)'
    <3>1. pc' = "idle" \/ (pc' = "fetch" /\ at' = 1 /\ page' = 1)
      BY <1>3 DEF AddCategory, Begin, FirstPageEmpty, Fail, Abandon
    <3> QED
      BY <3>1 DEF ReadOf
  <2>5. \A k : OfKind(k)' = OfKind(k)
    BY <2>1 DEF OfKind
  <2> QED
    BY <2>2, <2>3, <2>4, <2>5 DEF Kept
<1>4. ASSUME NEW cards \in Pages, Fetch(cards) PROVE Kept'
  BY <1>4, FetchKept
<1>5. CASE Commit
  BY <1>5, CommitKept
<1> QED
  BY <1>1, <1>2, <1>3, <1>4, <1>5 DEF Next, Step

LEMMA InitQInv == Init => QInv
<1> SUFFICES ASSUME Init PROVE QInv
  OBVIOUS
<1>1. \A k \in Kinds : Len(board[k]) = 0
  BY DEF Init
<1>2. Sorted /\ \A k \in Kinds : On(k) = {}
  BY <1>1 DEF Sorted, On
<1>3. Placed
  BY <1>2 DEF Init, Placed, Posted
<1>4. Stage /\ Marked
  BY DEF Init, Stage, Marked
<1>5. Kept
  BY DEF Init, Kept, OfKind, SeenOf, ReadOf
<1> QED
  BY <1>2, <1>3, <1>4, <1>5, InitPInv DEF QInv

LEMMA NextQInv == ~RelativeDates /\ QInv /\ [Next]_vars => QInv'
  BY NextPInv, NextOrdered, NextStage, NextMarked, NextKept DEF QInv, PInv
-----------------------------------------------------------------------------
(* What is owed *)

\* A card on a board that is owed is newer than what is stored of its category.
LEMMA OwedOn ==
  ASSUME TypeOK, OwedPlaced, NEW c \in owed, NEW k \in Kinds, c \in On(k)
  PROVE  Followed(k) /\ \A x \in OfKind(k) : stored[x].text.n <= date[c]
<1>1. PICK l \in Kinds : /\ c \in On(l) /\ Followed(l)
                         /\ \A x \in OfKind(l) : stored[x].text.n <= date[c]
  BY DEF OwedPlaced
<1>2. l = k
  BY <1>1, PlaceOf
<1> QED
  BY <1>1, <1>2

\* A category that is followed and was not read in this crawl has a watermark.
LEMMA UnreadCategory ==
  ASSUME QInv, pc = "fetch", NEW i \in 1..sources, ~ReadOf(i), NEW k, k = Categories[i],
         Followed(k)
  PROVE  watermarks[k] # None /\ SeenOf(k) = {}
<1>1. k \in Kinds /\ i \in 1..Len(Categories)
      /\ \A j \in 1..sources : j \in 1..Len(Categories)
  BY KindsConfigured DEF QInv, PInv, TInv
<1>2. \A j \in 1..sources : Categories[j] = k => j = i
  BY <1>1, SourceAssumption
<1>3. OfKind(k) # {}
  BY <1>2 DEF Followed, ReadOf
<1>4. SeenOf(k) = {}
  BY <1>1, <1>2 DEF QInv, Kept
<1> QED
  BY <1>1, <1>3, <1>4 DEF QInv, Marked

\* No card above one that is owed is old.
LEMMA NoneOlder ==
  ASSUME ~RelativeDates, QInv, OwedPlaced, pc = "fetch",
         NEW i \in 1..Len(board[Kind]), board[Kind][i] \in owed,
         NEW m \in 1..Len(board[Kind]), m <= i
  PROVE  ~Old(board[Kind][m])
<1> DEFINE c == board[Kind][i]
           x == board[Kind][m]
<1>1. Kind \in Kinds /\ c \in On(Kind) /\ x \in On(Kind) /\ c \in Cards /\ x \in Cards
  <2>1. Kind \in Kinds
    BY KindsConfigured DEF QInv, PInv, TInv
  <2>2. c \in On(Kind) /\ x \in On(Kind)
    BY DEF On
  <2> QED
    BY <2>1, <2>2, PlaceOf DEF QInv, PInv, TInv
<1>2. date[c] <= date[x] /\ date[c] \in Nat /\ date[x] \in Nat
  <2>1. m \in Nat /\ i \in Nat
    OBVIOUS
  <2>2. CASE m < i
    BY <1>1, <2>2 DEF QInv, PInv, TInv, TypeOK, Sorted
  <2>3. CASE m = i
    BY <1>1, <2>3 DEF QInv, PInv, TInv, TypeOK
  <2> QED
    BY <2>1, <2>2, <2>3
<1> SUFFICES ASSUME Old(x) PROVE FALSE
  OBVIOUS
<1>3. watermarks[Kind] # None /\ x \notin Undated /\ Value(ReadDate(x), today) < watermarks[Kind]
  BY DEF Old, Initial
<1> HIDE DEF c, x
<1>4. Value(ReadDate(x), today) = date[x]
  <2>1. ReadDate(x) = Calendar(date[x])
    BY <1>1, <1>3, PlainDate DEF QInv, PInv
  <2> QED
    BY <2>1 DEF Value
<1>5. PICK y \in OfKind(Kind) : stored[y].text.n = watermarks[Kind]
  BY <1>1, <1>3 DEF QInv, Marked
<1>6. c \in owed
  BY DEF c
<1>7. watermarks[Kind] <= date[c]
  BY <1>1, <1>5, <1>6, OwedOn DEF QInv, PInv, TInv
<1>8. watermarks[Kind] \in Nat
  BY <1>1, <1>3 DEF QInv, PInv, TInv, TypeOK
<1> QED
  BY <1>2, <1>3, <1>4, <1>7, <1>8

\* An owed card of the page is read.
LEMMA OwedScanned ==
  ASSUME ~RelativeDates, QInv, OwedPlaced, pc = "fetch", NEW cards \in Pages,
         NEW j \in 1..Len(cards), cards[j] \in owed
  PROVE  cards[j] \in Scanned(cards)
<1>1. Len(cards) \in Nat /\ cards # <<>>
  BY PageType DEF QInv, PInv, TInv
<1>2. PICK n \in 0..(Len(board[Kind]) - 1) : \A m \in 1..Len(cards) :
        n + m \in 1..Len(board[Kind]) /\ cards[m] = board[Kind][n + m]
  BY <1>1, PagePlace DEF QInv, PInv, TInv
<1>3. ASSUME NEW m \in 1..j PROVE ~Old(cards[m])
  <2>1. m \in 1..Len(cards) /\ n + m <= n + j
    BY <1>1
  <2>2. /\ n + m \in 1..Len(board[Kind]) /\ cards[m] = board[Kind][n + m]
        /\ n + j \in 1..Len(board[Kind]) /\ cards[j] = board[Kind][n + j]
    BY <1>2, <2>1
  <2> HIDE DEF Kind
  <2> QED
    BY <2>1, <2>2, NoneOlder
<1> QED
  BY <1>1, <1>3, ScannedCards

\* It is read with its date.
LEMMA ReadCurrent ==
  ASSUME ~RelativeDates, TInv, Plain, NEW cards, NEW c \in Cards, Fetch(cards),
         seen' = Collected(cards), seen[c] = None, c \in Scanned(cards)
  PROVE  Current(c)'
<1>1. Kind \in Kinds /\ seen'[c] = [kind |-> Kind, text |-> ReadDate(c)]
  BY CollectedCard, KindsConfigured DEF TInv
<1>2. seen'[c] \in Listings
  <2> HIDE DEF Texts
  <2> QED
    BY <1>1, ReadDateType
<1>3. c \notin Undated => seen'[c].text = Calendar(date[c])
  <2>1. seen'[c].text = ReadDate(c)
    BY <1>1
  <2> QED
    BY <2>1, PlainDate
<1>4. date' = date
  BY DEF Fetch
<1> QED
  BY <1>2, <1>3, <1>4, NoneIsNone DEF Current

\* What was read with its date stays so while a page is read.
LEMMA StaysCurrent ==
  ASSUME NEW cards, NEW c \in Cards, Fetch(cards), Current(c)
  PROVE  Current(c)'
<1>1. date' = date /\ seen' \in {seen, Collected(cards)}
  BY DEF Fetch
<1>2. seen'[c] = seen[c]
  BY <1>1, CollectedCard DEF Current
<1> QED
  BY <1>1, <1>2 DEF Current

\* What is still to be read is read with the page, or is to be read after it.
LEMMA PendingRead ==
  ASSUME ~RelativeDates, QInv, OwedPlaced, pc = "fetch", NEW cards \in Pages, cards # <<>>,
         NEW i \in 1..Len(board[Kind]), board[Kind][i] \in owed, i > Passed
  PROVE  \/ board[Kind][i] \in Scanned(cards)
         \/ i > Passed + PageSize /\ \A j \in 1..Len(cards) : ~Old(cards[j])
<1>1. ~Beyond /\ Passed \in Nat /\ Len(board[Kind]) \in Nat
  <2>1. Passed \in Nat
    BY PageType DEF QInv, PInv, TInv
  <2>2. Len(board[Kind]) \in Nat
    BY KindsConfigured, LenProperties DEF QInv, PInv, TInv, TypeOK
  <2> QED
    BY <2>1, <2>2 DEF Beyond
<1>2. /\ Len(cards) \in 1..PageSize
      /\ Len(cards) = PageSize \/ Passed + Len(cards) = Len(board[Kind])
      /\ \A j \in 1..Len(cards) :
           Passed + j \in 1..Len(board[Kind]) /\ cards[j] = board[Kind][Passed + j]
  BY <1>1, PagePlace DEF QInv, PInv, TInv
<1>3. CASE i <= Passed + Len(cards)
  <2>1. i - Passed \in 1..Len(cards) /\ Passed + (i - Passed) = i
    BY <1>1, <1>2, <1>3
  <2>2. cards[i - Passed] = board[Kind][i]
    BY <1>2, <2>1
  <2> QED
    BY <2>1, <2>2, OwedScanned
<1>4. CASE i > Passed + Len(cards)
  <2>1. i > Passed + PageSize
    BY <1>1, <1>2, <1>4
  <2>2. \A j \in 1..Len(cards) : ~Old(cards[j])
    <3> TAKE j \in 1..Len(cards)
    <3>1. Passed + j \in 1..Len(board[Kind]) /\ cards[j] = board[Kind][Passed + j]
      BY <1>2
    <3>2. Passed + j <= i
      BY <1>1, <1>4
    <3> HIDE DEF Kind
    <3> QED
      BY <3>1, <3>2, NoneOlder
  <2> QED
    BY <2>1, <2>2
<1> QED
  BY <1>1, <1>2, <1>3, <1>4

\* A card that came up behind the page that is read is read with it, or nothing
\* newer is, unless it is forgone.
LEMMA BehindRead ==
  ASSUME ~RelativeDates, QInv, OwedPlaced, pc = "fetch", NEW cards \in Pages, cards # <<>>,
         NEW i \in 1..Len(board[Kind]), board[Kind][i] \in owed, board[Kind][i] \notin due,
         i <= Passed, board[Kind][i] \notin Forgone,
         NEW x \in Scanned(cards)
  PROVE  \/ seen[board[Kind][i]] = None /\ board[Kind][i] \in Scanned(cards)
         \/ ReadDate(x).n <= date[board[Kind][i]]
<1> DEFINE c == board[Kind][i]
<1>1. /\ Kind \in Kinds /\ c \in On(Kind) /\ x \in On(Kind) /\ c \in Cards /\ x \in Cards
      /\ Passed \in Nat /\ Len(board[Kind]) \in Nat
  <2>1. Kind \in Kinds
    BY KindsConfigured DEF QInv, PInv, TInv
  <2>2. c \in On(Kind) /\ x \in On(Kind)
    BY ScannedOn DEF On, QInv, PInv, TInv
  <2>3. Passed \in Nat /\ Len(board[Kind]) \in Nat
    BY PageType, <2>1, LenProperties DEF QInv, PInv, TInv, TypeOK
  <2> QED
    BY <2>1, <2>2, <2>3, PlaceOf DEF QInv, PInv, TInv
<1>2. /\ today <= date[c] /\ today \in Nat /\ date[c] \in Nat /\ date[x] \in Nat
      /\ date[x] <= day
  <2>1. c \in owed \ due
    OBVIOUS
  <2>2. today <= date[c]
    BY <2>1 DEF OwedPlaced
  <2> QED
    BY <1>1, <2>2 DEF QInv, PInv, TInv, TypeOK, InTime
<1>3. CASE x \in Undated
  <2>1. CASE stored[x] = None
    <3>1. ReadDate(x) = Calendar(today)
      BY <1>1, <1>3, <2>1, PlainDate DEF QInv, PInv
    <3> QED
      BY <1>2, <3>1
  <2>2. CASE stored[x] # None
    <3>1. ReadDate(x) = stored[x].text
      BY <1>1, <1>3, <2>2, PlainDate DEF QInv, PInv
    <3>2. x \in OfKind(Kind)
      BY <1>1, <2>2 DEF QInv, Placed, OfKind
    <3>3. stored[x].text.n <= date[c]
      BY <1>1, <3>2, OwedOn DEF QInv, PInv, TInv
    <3> QED
      BY <3>1, <3>3
  <2> QED
    BY <2>1, <2>2
<1>4. CASE x \notin Undated
  <2>1. ReadDate(x).n = date[x]
    <3>1. ReadDate(x) = Calendar(date[x])
      BY <1>1, <1>4, PlainDate DEF QInv, PInv
    <3> QED
      BY <3>1
  <2>2. Len(cards) \in Nat
    BY PageType DEF QInv, PInv, TInv
  <2>3. PICK j \in 1..Len(cards) : cards[j] = x
    BY <2>2, ScannedCards
  <2>4. PICK n \in 0..(Len(board[Kind]) - 1) :
          /\ ~Beyond => n = Passed
          /\ Beyond => n + Len(cards) = Len(board[Kind])
          /\ \A m \in 1..Len(cards) :
               n + m \in 1..Len(board[Kind]) /\ cards[m] = board[Kind][n + m]
    BY PagePlace DEF QInv, PInv, TInv
  <2>5. n + j \in 1..Len(board[Kind]) /\ x = board[Kind][n + j]
    BY <2>3, <2>4
  <2>6. CASE i < n + j
    <3>1. date[x] <= date[c]
      <4>1. \A a, b \in 1..Len(board[Kind]) :
              a < b => date[board[Kind][b]] <= date[board[Kind][a]]
        BY <1>1 DEF QInv, Sorted
      <4> QED
        BY <2>5, <2>6, <4>1
    <3> QED
      BY <2>1, <3>1
  <2>7. CASE ~(i < n + j) /\ day = today
    BY <1>2, <2>1, <2>7
  <2>8. CASE ~(i < n + j) /\ day # today
    <3>1. Beyond
      BY <1>1, <2>2, <2>4, <2>8
    <3>2. seen[c] = None
      BY <1>1, <2>8, <3>1 DEF Forgone
    <3>3. i - n \in 1..Len(cards) /\ n + (i - n) = i
      BY <1>1, <2>2, <2>4, <2>8, <3>1
    <3>4. cards[i - n] = c
      BY <2>4, <3>3
    <3>5. c \in Scanned(cards)
      BY <3>3, <3>4, OwedScanned
    <3> QED
      BY <3>2, <3>5
  <2> QED
    BY <2>6, <2>7, <2>8
<1> QED
  BY <1>3, <1>4

NInv == QInv /\ OwedPlaced /\ Signed /\ Expected /\ Finished

\* A card that comes to the top is owed where its category is followed.
LEMMA TopOwed ==
  ASSUME TInv, Plain, OwedPlaced, NEW c \in Cards, NEW k \in Kinds, NEW p,
         Rises(c, k, p), ToTop(c, k, p)
  PROVE  OwedPlaced' /\ (c \in owed' => Followed(k))
<1>1. /\ UNCHANGED <<day, stored, sources, pc, at, page, today>>
      /\ \A x \in Cards : x # c => date'[x] = date[x]
      /\ date'[c] = day /\ today <= day
      /\ \A x \in Cards : stored[x] # None => stored[x].text.n <= day
      /\ owed \subseteq Cards
  BY DEF ToTop, TInv, TypeOK, InTime, Plain
<1>2. /\ \A x \in owed' : x \in owed \/ (x = c /\ Followed(k))
      /\ \A x \in owed' \ due' : x = c \/ x \in owed \ due
  BY DEF ToTop
<1>3. \A l : OfKind(l)' = OfKind(l) /\ (Followed(l)' <=> Followed(l))
  BY <1>1 DEF OfKind, Followed
<1>4. \A l \in Kinds : \A x \in On(l) : x \in On(l)' /\ (x = c => l = k)
  BY RaisedOn DEF TInv
<1>5. c \in owed' => Followed(k)
  BY <1>2, <1>4 DEF OwedPlaced
<1>6. c \in On(k)'
  BY RaisedFrom DEF On, TInv
<1>7. ASSUME NEW x \in owed'
      PROVE  \E l \in Kinds : /\ x \in On(l)' /\ Followed(l)
                              /\ \A y \in OfKind(l) : stored[y].text.n <= date'[x]
  <2>1. CASE x = c
    <3>1. \A y \in OfKind(k) : stored[y].text.n <= date'[c]
      BY <1>1 DEF OfKind
    <3> QED
      BY <1>5, <1>6, <2>1, <3>1
  <2>2. CASE x # c
    <3>1. x \in owed /\ date'[x] = date[x]
      BY <1>1, <1>2, <2>2
    <3> QED
      BY <1>4, <3>1 DEF OwedPlaced
  <2> QED
    BY <2>1, <2>2
<1>8. pc # "idle" => \A x \in owed' \ due' : today <= date'[x]
  BY <1>1, <1>2 DEF OwedPlaced
<1> QED
  BY <1>1, <1>3, <1>5, <1>7, <1>8 DEF OwedPlaced

LEMMA RemoveOwed ==
  ASSUME TInv, OwedPlaced, NEW k \in Kinds, NEW p \in 1..Len(board[k]), Remove(p, k)
  PROVE  OwedPlaced'
<1>1. /\ UNCHANGED <<date, stored, sources, pc, at, page, today>>
      /\ owed' = owed \ {board[k][p]} /\ due' = due \ {board[k][p]}
  BY DEF Remove
<1>2. \A l : OfKind(l)' = OfKind(l) /\ (Followed(l)' <=> Followed(l))
  BY <1>1 DEF OfKind, Followed
<1>3. \A l \in Kinds : \A x \in On(l) : x = board[k][p] \/ x \in On(l)'
  BY RemovedOn DEF TInv
<1>4. ASSUME NEW x \in owed'
      PROVE  \E l \in Kinds : /\ x \in On(l)' /\ Followed(l)
                              /\ \A y \in OfKind(l) : stored[y].text.n <= date[x]
  BY <1>1, <1>3 DEF OwedPlaced
<1>5. pc # "idle" => \A x \in owed' \ due' : today <= date[x]
  BY <1>1 DEF OwedPlaced
<1> QED
  BY <1>1, <1>2, <1>4, <1>5 DEF OwedPlaced

\* A card that was read with its date is stored with it.
LEMMA CurrentUpToDate ==
  ASSUME NEW c \in Cards, Current(c)
  PROVE  UpToDate(c)
<1>1. After(c) # None /\ After(c).text = seen[c].text
  BY AfterOf DEF Current
<1> QED
  BY <1>1 DEF Current, UpToDate, Value

\* Every card on the board of a category that is configured was read with its date
\* when the transaction comes, or is newer than what was read.
LEMMA FinishedOn ==
  ASSUME QInv, OwedPlaced, Finished, pc = "commit", NEW c \in owed,
         NEW k \in Kinds, c \in On(k)
  PROVE  Current(c) \/ (c \notin due /\ Newest(c, k))
<1>1. Followed(k)
  BY OwedOn DEF QInv, PInv, TInv
<1>2. PICK i \in 1..sources : Categories[i] = k
  BY <1>1 DEF Followed, QInv, Kept
<1> QED
  BY <1>2 DEF Finished

LEMMA CommitOwed ==
  ASSUME QInv, OwedPlaced, Finished, Commit
  PROVE  OwedPlaced'
<1>1. /\ UNCHANGED <<board, date, sources>> /\ pc = "commit" /\ pc' = "idle"
      /\ \A c \in Cards : stored'[c] = After(c)
      /\ \A c \in owed' : c \in owed /\ ~UpToDate(c)
  BY DEF Commit
<1>2. \A k : On(k)' = On(k)
  BY <1>1 DEF On
<1>3. ASSUME NEW k \in Kinds, Followed(k) PROVE Followed(k)'
  <2>1. OfKind(k) # {} \/ SeenOf(k) # {}
    <3>1. CASE OfKind(k) = {}
      <4>1. PICK i \in 1..sources : Categories[i] = k
        BY <1>3, <3>1 DEF Followed
      <4> QED
        BY <1>1, <4>1 DEF QInv, Kept, ReadOf
    <3> QED
      BY <3>1
  <2>2. ASSUME NEW x \in OfKind(k) \cup SeenOf(k) PROVE x \in OfKind(k)'
    <3>1. x \in Cards
      BY DEF OfKind, SeenOf
    <3>2. After(x) # None /\ After(x).kind = k
      BY <3>1, AfterOf DEF After, Changed, OfKind, SeenOf, QInv, Placed
    <3> QED
      BY <1>1, <3>1, <3>2 DEF OfKind
  <2> QED
    BY <2>1, <2>2 DEF Followed
<1>4. ASSUME NEW c \in owed'
      PROVE  \E k \in Kinds : /\ c \in On(k) /\ Followed(k)'
                              /\ \A x \in OfKind(k)' : stored'[x].text.n <= date[c]
  <2>1. PICK k \in Kinds : /\ c \in On(k) /\ Followed(k)
                           /\ \A x \in OfKind(k) : stored[x].text.n <= date[c]
    BY <1>1 DEF OwedPlaced
  <2>2. c \in Cards /\ ~Current(c)
    BY <1>1, CurrentUpToDate DEF QInv, PInv, TInv, TypeOK
  <2>3. \A x \in SeenOf(k) : seen[x].text.n <= date[c]
    BY <1>1, <2>1, <2>2, FinishedOn DEF Newest
  <2>4. ASSUME NEW x \in OfKind(k)' PROVE stored'[x].text.n <= date[c]
    <3>1. x \in Cards /\ After(x) # None /\ After(x).kind = k /\ stored'[x] = After(x)
      BY <1>1 DEF OfKind
    <3>2. CASE After(x) = stored[x]
      BY <2>1, <3>1, <3>2 DEF OfKind
    <3>3. CASE After(x) = seen[x]
      BY <2>3, <3>1, <3>3 DEF SeenOf
    <3> QED
      BY <3>1, <3>2, <3>3, AfterOf
  <2> QED
    BY <1>3, <2>1, <2>4
<1> QED
  BY <1>1, <1>2, <1>4 DEF OwedPlaced

\* A category that is followed stays so while the crawl goes on.
LEMMA StaysFollowed ==
  ASSUME TypeOK, Stage, NEW k, Followed(k),
         AddCategory \/ Begin \/ BudgetSpent \/ \E cards \in Pages : Fetch(cards)
  PROVE  Followed(k)'
<1>1. stored' = stored /\ sources' \in {sources, sources + 1} /\ sources \in Nat
  BY SourceAssumption, LenProperties
  DEF AddCategory, Begin, BudgetSpent, Fetch, TypeOK
<1>2. OfKind(k)' = OfKind(k)
  BY <1>1 DEF OfKind
<1>3. \A i \in 1..sources : i \in 1..sources'
  BY <1>1
<1>4. CASE AddCategory
  BY <1>2, <1>3, <1>4 DEF AddCategory, Followed
<1>5. CASE Begin
  <2>1. OfKind(k) # {}
    BY <1>5 DEF Begin, Followed, Stage
  <2> QED
    BY <1>2, <2>1 DEF Followed
<1>6. ASSUME pc = "fetch", NextCategory PROVE Followed(k)'
  <2>1. \A i \in 1..sources : i < at \/ i = at => pc' = "commit" \/ i < at'
    BY <1>1, <1>6 DEF NextCategory, TypeOK
  <2> QED
    BY <1>2, <1>3, <1>6, <2>1 DEF Followed
<1>7. ASSUME pc = "fetch", NEW cards, NextPage(cards) PROVE Followed(k)'
  <2>1. at' = at /\ page' > 1
    BY <1>7 DEF NextPage, TypeOK
  <2> QED
    BY <1>2, <1>3, <1>7, <2>1 DEF Followed
<1> QED
  BY <1>4, <1>5, <1>6, <1>7 DEF BudgetSpent, Fetch

LEMMA NextOwed ==
  ~RelativeDates /\ QInv /\ OwedPlaced /\ Finished /\ [Next]_vars => OwedPlaced'
<1> SUFFICES ASSUME ~RelativeDates, QInv, OwedPlaced, Finished, [Next]_vars
             PROVE  OwedPlaced'
  OBVIOUS
<1> USE DEF QInv, PInv
<1>1. ASSUME NEW c \in Cards, NEW k \in Kinds, Post(c, k) PROVE OwedPlaced'
  <2>1. Rises(c, k, Len(board[k]) + 1) /\ ToTop(c, k, Len(board[k]) + 1)
    BY <1>1 DEF Post, Rises
  <2> QED
    BY <2>1, TopOwed
<1>2. ASSUME NEW k \in Kinds, NEW p \in 1..Len(board[k]), Refresh(p, k)
      PROVE  OwedPlaced'
  <2>1. Rises(board[k][p], k, p) /\ ToTop(board[k][p], k, p) /\ board[k][p] \in Cards
    BY <1>2, ElementOfSeq DEF Refresh, Rises, TInv, TypeOK
  <2> QED
    BY <2>1, TopOwed
<1>3. ASSUME NEW k \in Kinds, NEW p \in 1..Len(board[k]), Remove(p, k) PROVE OwedPlaced'
  BY <1>3, RemoveOwed
<1>4. CASE Tick \/ UNCHANGED vars
  <2>1. UNCHANGED <<board, date, stored, sources, pc, at, page, today, owed, due>>
    BY <1>4 DEF Tick, vars
  <2>2. \A k : On(k)' = On(k) /\ OfKind(k)' = OfKind(k) /\ (Followed(k)' <=> Followed(k))
    BY <2>1 DEF On, OfKind, Followed
  <2> QED
    BY <2>1, <2>2 DEF OwedPlaced
<1>5. CASE AddCategory \/ Begin \/ BudgetSpent \/ \E cards \in Pages : Fetch(cards)
  <2>1. UNCHANGED <<board, date, stored>> /\ owed' \subseteq owed
    BY <1>5 DEF AddCategory, Begin, BudgetSpent, Fetch
  <2>2. \A k : On(k)' = On(k) /\ OfKind(k)' = OfKind(k)
    BY <2>1 DEF On, OfKind
  <2>3. \A k : Followed(k) => Followed(k)'
    BY <1>5, StaysFollowed DEF TInv
  <2>4. pc' # "idle" => \A c \in owed' \ due' : today' <= date[c]
    <3>1. CASE Begin
      <4>1. ASSUME NEW c \in owed PROVE c \in due'
        <5>1. PICK k \in Kinds : c \in On(k) /\ Followed(k)
          BY DEF OwedPlaced
        <5>2. OfKind(k) # {}
          BY <3>1, <5>1 DEF Begin, Followed, Stage
        <5>3. PICK i \in 1..sources : Categories[i] = k
          BY <5>2 DEF Kept
        <5> QED
          BY <3>1, <5>1, <5>3 DEF Begin
      <4> QED
        BY <2>1, <4>1
    <3>2. CASE AddCategory \/ BudgetSpent \/ \E cards \in Pages : Fetch(cards)
      <4>1. UNCHANGED <<today, due>> /\ (pc' # "idle" => pc # "idle")
        BY <3>2 DEF AddCategory, BudgetSpent, Fetch
      <4> QED
        BY <2>1, <4>1 DEF OwedPlaced
    <3> QED
      BY <1>5, <3>1, <3>2
  <2> QED
    BY <2>1, <2>2, <2>3, <2>4 DEF OwedPlaced
<1>6. CASE FirstPageEmpty \/ Fail
  <2>1. /\ UNCHANGED <<board, date, stored>> /\ pc' = "idle"
        /\ owed' = owed \ UNION {On(k) : k \in {l \in Kinds : OfKind(l) = {}}}
    BY <1>6 DEF FirstPageEmpty, Fail, Abandon
  <2>2. \A k : On(k)' = On(k) /\ OfKind(k)' = OfKind(k)
    BY <2>1 DEF On, OfKind
  <2>3. ASSUME NEW c \in owed'
        PROVE  \E k \in Kinds : /\ c \in On(k) /\ OfKind(k) # {}
                                /\ \A x \in OfKind(k) : stored[x].text.n <= date[c]
    <3>1. c \in owed /\ \A k \in Kinds : c \in On(k) => OfKind(k) # {}
      BY <2>1
    <3> QED
      BY <3>1 DEF OwedPlaced
  <2>4. \A k : OfKind(k) # {} => Followed(k)'
    BY <2>2 DEF Followed
  <2> QED
    BY <2>1, <2>2, <2>3, <2>4 DEF OwedPlaced
<1>7. CASE Commit
  BY <1>7, CommitOwed
<1> QED
  BY <1>1, <1>2, <1>3, <1>4, <1>5, <1>6, <1>7 DEF Next, Step

-----------------------------------------------------------------------------
(* The pages already read *)

\* A card that comes to the top moves the cards of those pages by one place.
LEMMA TopSigned ==
  ASSUME QInv, Signed, NEW c \in Cards, NEW k \in Kinds, NEW p,
         Rises(c, k, p), ToTop(c, k, p)
  PROVE  Signed'
<1> USE DEF QInv, PInv
<1>1. /\ UNCHANGED <<signatures, seen, at, page>> /\ Kind' = Kind /\ Passed' = Passed
      /\ pc = "fetch" => moves' = moves + 1
  BY DEF ToTop, Kind, Passed
<1>2. Passed \in Nat /\ moves \in Nat /\ p \in Nat /\ Kind \in Kinds
  <2>1. Passed \in Nat
    BY DEF Passed, TInv, TypeOK
  <2>2. moves \in Nat /\ Kind \in Kinds
    BY KindsConfigured DEF TInv, TypeOK
  <2>3. p \in Nat
    BY RaisedFrom DEF TInv
  <2> QED
    BY <2>1, <2>2, <2>3
<1>3. ASSUME NEW s \in signatures, NEW j \in 1..Len(s), NEW i \in 1..Len(board'[Kind]),
             board'[Kind][i] = s[j]
      PROVE  i <= Passed + (moves + 1)
  <2>1. CASE i = 1
    BY <1>2, <2>1
  <2>2. ASSUME NEW a, Came(k, p, Kind, i, a) PROVE i <= Passed + (moves + 1)
    <3>1. a \in 1..Len(board[Kind]) /\ board[Kind][a] = s[j] /\ i <= a + 1
      BY <1>2, <1>3, <2>2 DEF Came
    <3>2. a <= Passed + moves
      BY <3>1 DEF Signed
    <3> QED
      BY <1>2, <3>1, <3>2
  <2> QED
    BY <1>2, <2>1, <2>2, RaisedCame DEF TInv
<1>4. signatures # {} => pc = "fetch"
  BY DEF Stage
<1>5. ASSUME NEW s \in signatures, NEW j \in 1..Len(s)
      PROVE  /\ seen'[s[j]] # None
             /\ \A i \in 1..Len(board'[Kind']) : board'[Kind'][i] = s[j] => i <= Passed' + moves'
  <2>1. seen'[s[j]] # None
    BY <1>1 DEF Signed
  <2>2. moves' = moves + 1
    BY <1>1, <1>4
  <2> QED
    BY <1>1, <1>3, <2>1, <2>2
<1> QED
  BY <1>1, <1>5 DEF Signed

\* A page that is read is seen, and is behind the next.
LEMMA FetchSigned ==
  ASSUME QInv, Signed, NEW cards \in Pages, Fetch(cards), NextPage(cards)
  PROVE  Signed'
<1> USE DEF QInv, PInv
<1>1. /\ UNCHANGED <<board, at>> /\ Kind' = Kind /\ page' = page + 1 /\ moves' = 0
      /\ signatures' = signatures \cup {cards} /\ pc = "fetch"
  BY DEF Fetch, NextPage, Kind
<1>2. Passed \in Nat /\ moves \in Nat /\ moves < PageSize /\ Passed' = Passed + PageSize
      /\ Kind \in Kinds /\ page \in Nat
  <2>1. page \in Nat \ {0} /\ moves \in Nat /\ moves < PageSize
    BY <1>1 DEF TInv, TypeOK, Stage
  <2>2. Passed \in Nat /\ Passed' = Passed + PageSize
    BY <1>1, <2>1 DEF Passed
  <2> QED
    BY <2>1, <2>2, KindsConfigured DEF TInv
<1>3. \A c \in Cards : seen[c] # None => seen'[c] = seen[c]
  <2>1. seen' \in {seen, Collected(cards)}
    BY DEF Fetch
  <2> QED
    BY <2>1, CollectedCard
<1>4. ASSUME NEW s \in signatures, NEW j \in 1..Len(s)
      PROVE  /\ seen'[s[j]] # None
             /\ \A i \in 1..Len(board[Kind]) : board[Kind][i] = s[j] => i <= Passed + PageSize
  <2>1. seen[s[j]] # None
        /\ \A i \in 1..Len(board[Kind]) : board[Kind][i] = s[j] => i <= Passed + moves
    BY DEF Signed
  <2>2. s[j] \in Cards
    <3>1. s \in Seq(Cards)
      BY DEF TInv, TypeOK
    <3> QED
      BY <3>1, ElementOfSeq
  <2>3. seen'[s[j]] = seen[s[j]]
    BY <1>3, <2>1, <2>2
  <2> QED
    BY <1>2, <2>1, <2>3
<1>5. CASE cards \in signatures
  <2>1. signatures' = signatures
    BY <1>1, <1>5
  <2> QED
    BY <1>1, <1>2, <1>4, <2>1 DEF Signed
<1>6. CASE cards \notin signatures
  <2>1. /\ cards # <<>> /\ seen' = Collected(cards)
        /\ \A i \in 1..Len(cards) : ~Old(cards[i])
    <3>1. signatures' # signatures /\ signatures' # {}
      BY <1>1, <1>6
    <3> QED
      BY <1>1, <1>2, <1>6, <3>1 DEF Fetch, NextCategory
  <2>2. PICK n \in 0..(Len(board[Kind]) - 1) :
          /\ ~Beyond => n = Passed
          /\ Len(cards) \in 1..PageSize
          /\ \A j \in 1..Len(cards) :
               n + j \in 1..Len(board[Kind]) /\ cards[j] = board[Kind][n + j]
    BY <2>1, PagePlace DEF TInv
  <2>3. ASSUME NEW j \in 1..Len(cards)
        PROVE  /\ seen'[cards[j]] # None
               /\ \A i \in 1..Len(board[Kind]) :
                    board[Kind][i] = cards[j] => i <= Passed + PageSize
    <3>1. cards[j] \in Scanned(cards)
      BY <2>1, <2>2, ScannedCards
    <3>2. cards[j] \in Cards /\ cards[j] \in On(Kind)
      BY <3>1, ScannedOn DEF TInv
    <3>3. seen'[cards[j]] # None
      <4>1. CASE seen[cards[j]] # None
        BY <2>1, <3>2, <4>1, CollectedCard
      <4>2. CASE seen[cards[j]] = None
        <5>1. seen'[cards[j]] = [kind |-> Kind, text |-> ReadDate(cards[j])]
          BY <2>1, <3>1, <3>2, <4>2, CollectedCard
        <5>2. seen'[cards[j]] \in Listings
          <6> HIDE DEF Texts
          <6> QED
            BY <1>2, <3>2, <5>1, ReadDateType
        <5> QED
          BY <5>2, NoneIsNone
      <4> QED
        BY <4>1, <4>2
    <3>4. ASSUME NEW i \in 1..Len(board[Kind]), board[Kind][i] = cards[j]
          PROVE  i <= Passed + PageSize
      <4>1. i = n + j /\ n + j \in 1..Len(board[Kind])
        BY <1>2, <2>2, <3>4 DEF TInv, TypeOK
      <4>2. CASE Beyond
        <5>1. Len(board[Kind]) \in Nat
          BY <1>2, LenProperties DEF TInv, TypeOK
        <5> QED
          BY <1>2, <4>2, <5>1 DEF Beyond
      <4>3. CASE ~Beyond
        BY <1>2, <2>2, <4>1, <4>3
      <4> QED
        BY <4>2, <4>3
    <3> QED
      BY <3>3, <3>4
  <2> QED
    BY <1>1, <1>2, <1>4, <2>3 DEF Signed
<1> QED
  BY <1>5, <1>6

LEMMA NextSigned == QInv /\ Signed /\ [Next]_vars => Signed'
<1> SUFFICES ASSUME QInv, Signed, [Next]_vars PROVE Signed'
  OBVIOUS
<1>1. ASSUME NEW c \in Cards, NEW k \in Kinds, Post(c, k) PROVE Signed'
  <2>1. Rises(c, k, Len(board[k]) + 1) /\ ToTop(c, k, Len(board[k]) + 1)
    BY <1>1 DEF Post, Rises
  <2> QED
    BY <2>1, TopSigned
<1>2. ASSUME NEW k \in Kinds, NEW p \in 1..Len(board[k]), Refresh(p, k) PROVE Signed'
  <2>1. Rises(board[k][p], k, p) /\ ToTop(board[k][p], k, p) /\ board[k][p] \in Cards
    BY <1>2, ElementOfSeq DEF Refresh, Rises, QInv, PInv, TInv, TypeOK
  <2> QED
    BY <2>1, TopSigned
<1>3. CASE Tick \/ UNCHANGED vars
  BY <1>3 DEF Tick, vars, Signed, Kind, Passed
<1>4. CASE AddCategory \/ Commit \/ \E k \in Kinds : \E p \in 1..Len(board[k]) : Remove(p, k)
  <2>1. signatures' = signatures /\ signatures = {}
    BY <1>4 DEF AddCategory, Commit, Remove, QInv, Stage
  <2> QED
    BY <2>1 DEF Signed
<1>5. CASE \/ Begin \/ BudgetSpent \/ FirstPageEmpty \/ Fail
           \/ \E cards \in Pages : Fetch(cards) /\ NextCategory
  <2>1. signatures' = {}
    BY <1>5 DEF Begin, BudgetSpent, NextCategory, FirstPageEmpty, Fail, Abandon
  <2> QED
    BY <2>1 DEF Signed
<1>6. ASSUME NEW cards \in Pages, Fetch(cards), NextPage(cards) PROVE Signed'
  BY <1>6, FetchSigned
<1> QED
  BY <1>1, <1>2, <1>3, <1>4, <1>5, <1>6 DEF Next, Step, Fetch

-----------------------------------------------------------------------------
(* What a crawl still has to read *)

\* A card that comes to the top is ahead in a category that is unread, and behind
\* in one whose first page was read.
LEMMA TopExpected ==
  ASSUME QInv, OwedPlaced, Expected, pc = "fetch", NEW c \in Cards, NEW k \in Kinds, NEW p,
         Rises(c, k, p), ToTop(c, k, p)
  PROVE  Expected'
<1> USE DEF QInv, PInv
<1>1. /\ UNCHANGED <<day, seen, pc, at, page, sources, watermarks>> /\ moves' = moves + 1
      /\ Kind' = Kind /\ Passed' = Passed
      /\ \A x \in Cards : x # c => date'[x] = date[x]
      /\ date'[c] = day /\ due' = due \ {c} /\ \A x \in owed' : x \in owed \/ x = c
      /\ \A l : SeenOf(l)' = SeenOf(l)
  BY DEF ToTop, TInv, TypeOK, Kind, Passed, SeenOf
<1>2. /\ Passed \in Nat /\ moves \in Nat /\ p \in Nat /\ Kind \in Kinds /\ page \in Nat \ {0}
      /\ page = 1 => Passed = 0
      /\ page > 1 => Passed - PageSize \in Nat
      /\ at \in 1..sources
  <2>1. page \in Nat \ {0} /\ moves \in Nat
    BY DEF TInv, TypeOK
  <2>2. Passed \in Nat /\ (page = 1 => Passed = 0)
    BY <2>1 DEF Passed
  <2>3. ASSUME page > 1 PROVE Passed - PageSize \in Nat
    <3>1. page - 2 \in Nat /\ (page - 1) * PageSize - PageSize = (page - 2) * PageSize
      BY <2>1, <2>3
    <3>2. (page - 2) * PageSize \in Nat
      BY <3>1
    <3> QED
      BY <3>1, <3>2 DEF Passed
  <2>4. Kind \in Kinds /\ at \in 1..sources
    BY KindsConfigured DEF TInv
  <2>5. p \in Nat
    BY RaisedFrom DEF TInv
  <2> QED
    BY <2>1, <2>2, <2>3, <2>4, <2>5
<1> DEFINE Fresh(x) == \A y \in SeenOf(Kind) : seen[y].text.n <= date'[x]
           Open(x, i) ==
             \/ seen[x] # None /\ (x \notin Undated => seen[x].text = Calendar(date'[x]))
             \/ seen[x] = None /\ watermarks[Kind] # None /\ i > Passed
             \/ /\ x \notin due' /\ page > 1
                /\ i <= Passed - PageSize + (moves + 1) /\ Fresh(x)
<1>3. c \in owed' /\ k = Kind => Open(c, 1)
  <2> SUFFICES ASSUME c \in owed', k = Kind PROVE Open(c, 1)
    OBVIOUS
  <2>1. Followed(Kind)
    BY TopOwed
  <2>2. CASE page = 1
    <3>1. ~ReadOf(at) /\ Kind = Categories[at]
      BY <1>2, <2>2 DEF ReadOf, Kind
    <3>2. watermarks[Kind] # None /\ SeenOf(Kind) = {}
      BY <1>2, <2>1, <3>1, UnreadCategory
    <3>3. seen[c] # None => seen[c].kind = Kind
      <4>1. CASE date[c] = 0
        BY <4>1 DEF Placed
      <4>2. CASE c \in On(Kind)
        BY <1>2, <4>2 DEF Placed
      <4> QED
        BY <4>1, <4>2 DEF Rises, On
    <3> QED
      BY <1>2, <2>2, <3>2, <3>3 DEF SeenOf
  <2>3. CASE page > 1
    <3>1. Fresh(c)
      BY <1>1 DEF SeenOf, Plain
    <3> QED
      BY <1>1, <1>2, <2>3, <3>1
  <2> QED
    BY <1>2, <2>2, <2>3
<1>4. ASSUME NEW i, NEW a, Came(k, p, Kind, i, a), board'[Kind][i] \in owed'
      PROVE  Open(board'[Kind][i], i)
  <2>1. board[Kind][a] # c
    BY <1>2, <1>4, RaisedCame DEF TInv
  <2>2. /\ a \in 1..Len(board[Kind]) /\ i \in Nat /\ board'[Kind][i] = board[Kind][a]
        /\ a <= i /\ i <= a + 1
    BY <1>2, <1>4 DEF Came
  <2> DEFINE x == board[Kind][a]
  <2>3. x \in owed /\ x \in Cards /\ x # c /\ date'[x] = date[x]
    BY <1>1, <1>4, <2>1, <2>2 DEF TInv, TypeOK
  <2>4. Current(x) \/ Pending(x, a) \/ Behind(x, a)
    BY <2>2, <2>3 DEF Expected
  <2>5. Open(x, i)
    <3> HIDE DEF x
    <3>1. CASE Current(x)
      BY <2>3, <3>1 DEF Current
    <3>2. CASE Pending(x, a)
      BY <1>2, <2>2, <3>2 DEF Pending
    <3>3. CASE Behind(x, a)
      <4>1. Fresh(x)
        BY <2>3, <3>3 DEF Behind, Newest
      <4> QED
        BY <1>1, <1>2, <2>2, <3>3, <4>1 DEF Behind
    <3> QED
      BY <2>4, <3>1, <3>2, <3>3
  <2> QED
    BY <2>2, <2>5
<1>5. \A i \in 1..Len(board'[Kind]) : board'[Kind][i] \in owed' => Open(board'[Kind][i], i)
  <2> TAKE i \in 1..Len(board'[Kind])
  <2> HAVE board'[Kind][i] \in owed'
  <2>1. (Kind = k /\ i = 1 /\ board'[Kind][i] = c) \/ \E a : Came(k, p, Kind, i, a)
    BY <1>2, RaisedCame DEF TInv
  <2> HIDE DEF Open, Kind
  <2> QED
    BY <1>3, <1>4, <2>1
<1>6. \A x, i : Open(x, i) => Current(x)' \/ Pending(x, i)' \/ Behind(x, i)'
  BY <1>1 DEF Current, Pending, Behind, Newest
<1> HIDE DEF Open, Fresh
<1> QED
  BY <1>1, <1>5, <1>6 DEF Expected

\* In one that was read, it is newer than what was read.
LEMMA TopFinished ==
  ASSUME QInv, Finished, NEW c \in Cards, NEW k \in Kinds, NEW p,
         Rises(c, k, p), ToTop(c, k, p)
  PROVE  Finished'
<1> USE DEF QInv, PInv
<1>1. /\ UNCHANGED <<day, seen, pc, at, sources>>
      /\ \A x \in Cards : x # c => date'[x] = date[x]
      /\ date'[c] = day /\ due' = due \ {c} /\ \A x \in owed' : x \in owed \/ x = c
      /\ owed \subseteq Cards
      /\ \A l : SeenOf(l)' = SeenOf(l)
  BY DEF ToTop, TInv, TypeOK, SeenOf
<1>2. ASSUME NEW n \in 1..sources, pc = "commit" \/ (pc = "fetch" /\ n < at),
             NEW x \in owed', x \in On(Categories[n])'
      PROVE  Current(x)' \/ (x \notin due' /\ Newest(x, Categories[n])')
  <2>1. Categories[n] \in Kinds
    BY KindsConfigured DEF TInv
  <2>2. CASE x = c
    <3>1. Newest(x, Categories[n])'
      BY <1>1, <2>2 DEF Newest, SeenOf, Plain
    <3> QED
      BY <1>1, <2>2, <3>1
  <2>3. CASE x # c
    <3>1. x \in owed /\ x \in Cards /\ date'[x] = date[x]
      BY <1>1, <2>3
    <3>2. x \in On(Categories[n])
      BY <1>2, <2>1, <2>3, RaisedOn DEF TInv
    <3>3. Current(x) \/ (x \notin due /\ Newest(x, Categories[n]))
      BY <1>2, <3>1, <3>2 DEF Finished
    <3> QED
      BY <1>1, <3>1, <3>3 DEF Current, Newest
  <2> QED
    BY <2>2, <2>3
<1> QED
  BY <1>1, <1>2 DEF Finished

\* A category whose pages have come to their end has no card left to read.
LEMMA EndedRead ==
  ASSUME QInv, Signed, NEW cards \in Pages, Fetch(cards), cards = <<>> \/ cards \in signatures,
         NEW i \in 1..Len(board[Kind])
  PROVE  ~Pending(board[Kind][i], i)
<1> USE DEF QInv, PInv
<1> SUFFICES ASSUME Pending(board[Kind][i], i) PROVE FALSE
  OBVIOUS
<1>1. /\ Passed \in Nat /\ Len(board[Kind]) \in Nat /\ moves \in Nat /\ moves < PageSize
      /\ i > Passed /\ seen[board[Kind][i]] = None /\ pc = "fetch"
  <2>1. Len(board[Kind]) \in Nat
    BY KindsConfigured, LenProperties DEF TInv, TypeOK
  <2>2. Passed \in Nat
    BY PageType DEF TInv
  <2>3. pc = "fetch" /\ moves \in Nat /\ moves < PageSize
    BY DEF Fetch, Stage, TInv, TypeOK
  <2> QED
    BY <2>1, <2>2, <2>3 DEF Pending
<1>2. ~Beyond
  BY <1>1 DEF Beyond
<1>3. cards # <<>> /\ cards \in signatures
  BY <1>2, PageType DEF TInv
<1>4. /\ Len(cards) \in 1..PageSize
      /\ Len(cards) = PageSize \/ Passed + Len(cards) = Len(board[Kind])
      /\ \A j \in 1..Len(cards) :
           Passed + j \in 1..Len(board[Kind]) /\ cards[j] = board[Kind][Passed + j]
  BY <1>2, <1>3, PagePlace DEF TInv
<1>5. CASE Len(cards) = PageSize
  <2>1. PageSize \in 1..Len(cards)
    BY <1>5
  <2>2. Passed + PageSize \in 1..Len(board[Kind])
        /\ cards[PageSize] = board[Kind][Passed + PageSize]
    BY <1>4, <2>1
  <2>3. Passed + PageSize <= Passed + moves
    BY <1>3, <2>1, <2>2 DEF Signed
  <2> QED
    BY <1>1, <2>3
<1>6. CASE Passed + Len(cards) = Len(board[Kind])
  <2>1. i - Passed \in 1..Len(cards) /\ Passed + (i - Passed) = i
    BY <1>1, <1>4, <1>6
  <2>2. cards[i - Passed] = board[Kind][i]
    BY <1>4, <2>1
  <2>3. seen[cards[i - Passed]] # None
    BY <1>3, <2>1 DEF Signed
  <2> QED
    BY <1>1, <2>2, <2>3
<1> QED
  BY <1>4, <1>5, <1>6

\* What a fetch leaves of the cards of its category.
LEMMA FetchOpen ==
  ASSUME ~RelativeDates, QInv, OwedPlaced, Signed, Expected, NEW cards \in Pages, Fetch(cards),
         NEW i \in 1..Len(board[Kind]), NEW c, c = board[Kind][i], c \in owed'
  PROVE  \/ Current(c)'
         \/ NextPage(cards) /\ seen'[c] = None /\ watermarks[Kind] # None /\ i > Passed + PageSize
         \/ /\ c \notin due /\ page > 1 /\ i <= Passed
            /\ \A y \in Cards : seen'[y] # None /\ seen'[y].kind = Kind =>
                                  seen'[y].text.n <= date[c]
<1> USE DEF QInv, PInv
<1>1. pc = "fetch" /\ owed' \subseteq owed /\ c \in owed /\ c \in Cards
  <2>1. pc = "fetch" /\ owed' \subseteq owed
    BY DEF Fetch
  <2> QED
    BY <2>1 DEF TInv, TypeOK
<1>2. Current(c) \/ Pending(c, i) \/ Behind(c, i)
  BY <1>1 DEF Expected
<1>3. Current(c) => Current(c)'
  BY <1>1, StaysCurrent
<1>4. Behind(c, i) => /\ c \notin due /\ page > 1 /\ i <= Passed
                      /\ \A y \in Cards : seen[y] # None /\ seen[y].kind = Kind =>
                                            seen[y].text.n <= date[c]
  <2>1. moves \in Nat /\ moves < PageSize /\ Passed \in Nat /\ i \in Nat
    <3>1. Len(board[Kind]) \in Nat
      BY KindsConfigured, LenProperties DEF TInv, TypeOK
    <3>2. moves \in Nat /\ moves < PageSize
      BY <1>1 DEF Stage, TInv, TypeOK
    <3>3. Passed \in Nat
      BY PageType DEF TInv
    <3> QED
      BY <3>1, <3>2, <3>3
  <2>2. Passed - PageSize + moves <= Passed
    BY <2>1
  <2> QED
    BY <2>1, <2>2 DEF Behind, Newest, SeenOf
<1>5. CASE cards = <<>> \/ cards \in signatures
  <2>1. seen' = seen
    BY <1>5 DEF Fetch
  <2>2. ~Pending(c, i)
    BY <1>5, EndedRead
  <2> QED
    BY <1>2, <1>3, <1>4, <2>1, <2>2
<1>6. CASE ~(cards = <<>> \/ cards \in signatures)
  <2>1. /\ seen' = Collected(cards) /\ c \notin Forgone
        /\ (\A j \in 1..Len(cards) : ~Old(cards[j])) => NextPage(cards)
    BY <1>6 DEF Fetch
  <2>2. seen[c] = None /\ c \in Scanned(cards) => Current(c)'
    BY <1>1, <2>1, ReadCurrent
  <2>3. CASE Pending(c, i)
    <3>1. seen[c] = None /\ watermarks[Kind] # None /\ i > Passed
      BY <2>3 DEF Pending
    <3>2. CASE c \in Scanned(cards)
      BY <2>2, <3>1, <3>2
    <3>3. CASE c \notin Scanned(cards)
      <4>1. i > Passed + PageSize /\ \A j \in 1..Len(cards) : ~Old(cards[j])
        BY <1>1, <1>6, <3>1, <3>3, PendingRead
      <4>2. seen'[c] = None
        BY <1>1, <2>1, <3>1, <3>3, CollectedCard
      <4> QED
        BY <2>1, <3>1, <4>1, <4>2
    <3> QED
      BY <3>2, <3>3
  <2>4. CASE Behind(c, i) /\ ~(seen[c] = None /\ c \in Scanned(cards))
    <3>1. \A x \in Scanned(cards) : ReadDate(x).n <= date[c]
      BY <1>1, <1>4, <1>6, <2>1, <2>4, BehindRead
    <3>2. ASSUME NEW y \in Cards, seen'[y] # None, seen'[y].kind = Kind
          PROVE  seen'[y].text.n <= date[c]
      <4>1. CASE seen[y] # None
        <5>1. seen'[y] = seen[y]
          BY <2>1, <4>1, CollectedCard
        <5> QED
          BY <1>4, <2>4, <3>2, <4>1, <5>1
      <4>2. CASE seen[y] = None
        <5>1. y \in Scanned(cards) /\ seen'[y].text = ReadDate(y)
          BY <2>1, <3>2, <4>2, CollectedCard
        <5> QED
          BY <3>1, <5>1
      <4> QED
        BY <4>1, <4>2
    <3> QED
      BY <1>4, <2>4, <3>2
  <2> QED
    BY <1>2, <1>3, <2>2, <2>3, <2>4
<1> QED
  BY <1>5, <1>6

\* The category that comes next is all ahead.
LEMMA NextCategoryExpected ==
  ASSUME QInv, OwedPlaced, pc = "fetch", NextCategory,
         UNCHANGED <<board, sources, watermarks>>, owed' \subseteq owed,
         \A c \in Cards : seen[c] = None /\ c \notin On(Kind) => seen'[c] = None
  PROVE  Expected'
<1> USE DEF QInv, PInv
<1> SUFFICES ASSUME pc' = "fetch", NEW i \in 1..Len(board[Kind']), board[Kind'][i] \in owed'
             PROVE  /\ seen'[board[Kind'][i]] = None /\ watermarks[Kind'] # None
                    /\ i > Passed'
  BY DEF Expected, Pending
<1> DEFINE c == board[Kind'][i]
           k == Categories[at + 1]
<1>1. at' = at + 1 /\ at + 1 \in 1..sources /\ page' = 1 /\ Kind' = k
  <2>1. at' \in 1..sources /\ at' = at + 1 /\ page' = 1
    BY NextCategoryType DEF TInv
  <2> QED
    BY <2>1 DEF Kind
<1>2. k \in Kinds /\ Kind \in Kinds /\ k # Kind
  <2>1. /\ at + 1 \in 1..Len(Categories) /\ at \in 1..Len(Categories)
        /\ k \in Kinds /\ Kind \in Kinds
    BY <1>1, KindsConfigured DEF TInv
  <2> QED
    BY <2>1, SourceAssumption DEF Kind
<1>3. c \in On(k) /\ c \in owed /\ c \in Cards
  BY <1>1 DEF On, TInv, TypeOK
<1>4. c \notin On(Kind)
  BY <1>2, <1>3, PlaceOf DEF TInv
<1> HIDE DEF c, k
<1>5. Followed(k)
  BY <1>2, <1>3, OwedOn DEF TInv
<1>6. ~ReadOf(at + 1)
  <2>1. at \in Nat
    BY SourceAssumption, LenProperties DEF TInv, TypeOK
  <2> QED
    BY <2>1 DEF ReadOf
<1>7. watermarks[k] # None /\ SeenOf(k) = {}
  BY <1>1, <1>5, <1>6, UnreadCategory DEF k
<1>8. seen[c] = None
  <2>1. seen[c] # None => seen[c].kind = k
    BY <1>2, <1>3 DEF Placed
  <2> QED
    BY <1>3, <1>7, <2>1 DEF SeenOf
<1>9. seen'[c] = None
  BY <1>3, <1>4, <1>8
<1>10. Passed' = 0 /\ i > 0
  BY <1>1 DEF Passed
<1> QED
  BY <1>1, <1>7, <1>9, <1>10 DEF c

LEMMA FetchExpected ==
  ASSUME ~RelativeDates, QInv, OwedPlaced, Signed, Expected, NEW cards \in Pages, Fetch(cards)
  PROVE  Expected'
<1> USE DEF QInv, PInv
<1>1. /\ UNCHANGED <<board, date, stored, sources, watermarks, due>> /\ owed' \subseteq owed
      /\ pc = "fetch" /\ moves' = 0 /\ seen' \in {seen, Collected(cards)}
  BY DEF Fetch
<1>2. CASE NextCategory
  <2>1. ASSUME NEW c \in Cards, seen[c] = None, c \notin On(Kind) PROVE seen'[c] = None
    <3>1. c \notin Scanned(cards)
      BY <2>1, ScannedOn DEF TInv
    <3> QED
      BY <1>1, <2>1, <3>1, CollectedCard
  <2> QED
    BY <1>1, <1>2, <2>1, NextCategoryExpected
<1>3. CASE NextPage(cards)
  <2>1. /\ Kind' = Kind /\ page' = page + 1 /\ page \in Nat \ {0}
        /\ Passed' = Passed + PageSize /\ Passed \in Nat
    <3>1. Kind' = Kind /\ page' = page + 1 /\ page \in Nat \ {0}
      BY <1>3 DEF NextPage, Kind, TInv, TypeOK
    <3>2. Passed' = Passed + PageSize /\ Passed \in Nat
      BY <3>1 DEF Passed
    <3> QED
      BY <3>1, <3>2
  <2>2. \A k : k = Kind => SeenOf(k)' = {c \in Cards : seen'[c] # None /\ seen'[c].kind = k}
    BY DEF SeenOf
  <2>3. ASSUME NEW i \in 1..Len(board[Kind]), NEW c, c = board[Kind][i], c \in owed'
        PROVE  \/ Current(c)'
               \/ seen'[c] = None /\ watermarks'[Kind'] # None /\ i > Passed'
               \/ /\ c \notin due' /\ page' > 1
                  /\ i <= Passed' - PageSize + moves' /\ Newest(c, Kind)'
    <3>1. CASE Current(c)'
      BY <3>1
    <3>2. CASE seen'[c] = None /\ watermarks[Kind] # None /\ i > Passed + PageSize
      BY <1>1, <2>1, <3>2
    <3>3. CASE /\ c \notin due /\ page > 1 /\ i <= Passed
               /\ \A y \in Cards : seen'[y] # None /\ seen'[y].kind = Kind =>
                                     seen'[y].text.n <= date[c]
      <4>1. i <= Passed' - PageSize + moves' /\ page' > 1
        BY <1>1, <2>1, <3>3
      <4>2. Newest(c, Kind)'
        BY <1>1, <2>1, <3>3 DEF Newest, SeenOf
      <4> QED
        BY <1>1, <3>3, <4>1, <4>2
    <3> QED
      BY <2>3, <3>1, <3>2, <3>3, FetchOpen
  <2> QED
    BY <1>1, <2>1, <2>3 DEF Expected, Pending, Behind
<1> QED
  BY <1>2, <1>3 DEF Fetch

\* What was read of a category stays as it was when the next are read.
LEMMA FetchFinished ==
  ASSUME ~RelativeDates, QInv, OwedPlaced, Signed, Expected, Finished, NEW cards \in Pages,
         Fetch(cards)
  PROVE  Finished'
<1> USE DEF QInv, PInv
<1>1. /\ UNCHANGED <<board, date, sources, due>> /\ owed' \subseteq owed
      /\ pc = "fetch" /\ seen' \in {seen, Collected(cards)}
      /\ at \in 1..sources /\ sources \in Nat /\ owed \subseteq Cards
  <2>1. at \in 1..sources /\ sources \in Nat /\ owed \subseteq Cards
    BY SourceAssumption, LenProperties DEF TInv, TypeOK
  <2> QED
    BY <2>1 DEF Fetch
<1>2. \A k : On(k)' = On(k)
  BY <1>1 DEF On
<1>3. ASSUME NEW n \in 1..sources, n < at, NEW c \in owed', c \in On(Categories[n])
      PROVE  Current(c)' \/ (c \notin due' /\ Newest(c, Categories[n])')
  <2>1. Current(c) \/ (c \notin due /\ Newest(c, Categories[n]))
    BY <1>1, <1>3 DEF Finished
  <2>2. CASE Current(c)
    BY <1>1, <2>2, StaysCurrent
  <2>3. CASE c \notin due /\ Newest(c, Categories[n])
    <3>1. Categories[n] # Kind
      BY <1>3, KindsConfigured, SourceAssumption DEF TInv, Kind
    <3>2. ASSUME NEW y \in Cards, seen'[y] # None, seen'[y].kind = Categories[n]
          PROVE  seen'[y].text.n <= date[c]
      <4>1. seen[y] # None
        <5>1. CASE seen' = seen
          BY <3>2, <5>1
        <5>2. CASE seen' = Collected(cards)
          <6>1. seen[y] = None => seen'[y].kind = Kind
            BY <3>2, <5>2, CollectedCard
          <6> QED
            BY <3>1, <3>2, <6>1
        <5> QED
          BY <1>1, <5>1, <5>2
      <4>2. seen'[y] = seen[y]
        BY <1>1, <4>1, CollectedCard
      <4> QED
        BY <2>3, <3>2, <4>1, <4>2 DEF Newest, SeenOf
    <3> QED
      BY <1>1, <2>3, <3>2 DEF Newest, SeenOf
  <2> QED
    BY <2>1, <2>2, <2>3
<1>4. ASSUME NextCategory, NEW n \in 1..sources, n = at, NEW c \in owed',
             c \in On(Categories[n])
      PROVE  Current(c)' \/ (c \notin due' /\ Newest(c, Categories[n])')
  <2>1. ~NextPage(cards)
    <3>1. page' = 1 /\ page \in Nat \ {0}
      BY <1>4 DEF NextCategory, TInv, TypeOK
    <3> QED
      BY <3>1 DEF NextPage
  <2>2. Kind = Categories[n]
    BY <1>4 DEF Kind
  <2>3. PICK i \in 1..Len(board[Kind]) : c = board[Kind][i]
    BY <1>4, <2>2 DEF On
  <2>4. \/ Current(c)'
        \/ c \notin due /\ \A y \in Cards : seen'[y] # None /\ seen'[y].kind = Categories[n] =>
                                              seen'[y].text.n <= date[c]
    BY <2>1, <2>2, <2>3, FetchOpen
  <2> QED
    BY <1>1, <2>4 DEF Newest, SeenOf
<1>5. ASSUME NEW n \in 1..sources, pc' = "commit" \/ (pc' = "fetch" /\ n < at')
      PROVE  n < at \/ (n = at /\ NextCategory)
  <2>1. CASE NextCategory
    <3>1. (pc' = "fetch" => at' = at + 1) /\ (pc' = "commit" => at = sources)
      BY <1>1, <2>1, NextCategoryType DEF TInv
    <3> QED
      BY <1>1, <1>5, <2>1, <3>1
  <2>2. CASE NextPage(cards)
    BY <1>1, <1>5, <2>2 DEF NextPage
  <2> QED
    BY <2>1, <2>2 DEF Fetch
<1>6. ASSUME NEW n \in 1..sources, pc' = "commit" \/ (pc' = "fetch" /\ n < at'),
             NEW c \in owed', c \in On(Categories[n])
      PROVE  Current(c)' \/ (c \notin due' /\ Newest(c, Categories[n])')
  BY <1>3, <1>4, <1>5, <1>6
<1> QED
  BY <1>1, <1>2, <1>6 DEF Finished

\* A category whose budget is spent had no watermark, so none of its cards is ahead.
LEMMA BudgetFinished ==
  ASSUME QInv, OwedPlaced, Expected, Finished, BudgetSpent
  PROVE  Expected' /\ Finished'
<1> USE DEF QInv, PInv
<1>1. /\ UNCHANGED <<board, date, seen, sources, watermarks, owed, due>>
      /\ pc = "fetch" /\ watermarks[Kind] = None /\ NextCategory
      /\ at \in 1..sources /\ sources \in Nat
  <2>1. at \in 1..sources /\ sources \in Nat
    BY SourceAssumption, LenProperties DEF TInv, TypeOK
  <2> QED
    BY <2>1 DEF BudgetSpent, OverBudget, Initial
<1>2. Expected'
  BY <1>1, NextCategoryExpected
<1>3. \A k : On(k)' = On(k) /\ SeenOf(k)' = SeenOf(k)
  BY <1>1 DEF On, SeenOf
<1>4. ASSUME NEW n \in 1..sources, pc' = "commit" \/ (pc' = "fetch" /\ n < at'),
             NEW c \in owed, c \in On(Categories[n])
      PROVE  Current(c) \/ (c \notin due /\ Newest(c, Categories[n]))
  <2>1. n < at \/ n = at
    BY <1>1, <1>4, NextCategoryType DEF TInv
  <2>2. CASE n < at
    BY <1>1, <1>4, <2>2 DEF Finished
  <2>3. CASE n = at
    <3>1. Kind = Categories[n]
      BY <2>3 DEF Kind
    <3>2. PICK i \in 1..Len(board[Kind]) : c = board[Kind][i]
      BY <1>4, <3>1 DEF On
    <3>3. Current(c) \/ Behind(c, i)
      BY <1>1, <1>4, <3>2 DEF Expected, Pending
    <3> QED
      BY <3>1, <3>3 DEF Behind
  <2> QED
    BY <2>1, <2>2, <2>3
<1>5. Finished'
  BY <1>1, <1>3, <1>4 DEF Finished, Current, Newest
<1> QED
  BY <1>2, <1>5

\* A crawl begins with everything that is owed ahead.
LEMMA BeginExpected ==
  ASSUME QInv, OwedPlaced, Begin
  PROVE  Expected' /\ Finished'
<1> USE DEF QInv, PInv
<1>1. /\ UNCHANGED <<board, stored, sources, owed>> /\ pc' = "fetch" /\ at' = 1 /\ page' = 1
      /\ \A k \in Kinds : watermarks'[k] = Watermark(k)
      /\ \A c \in Cards : seen'[c] = None
      /\ pc = "idle" /\ at = 1 /\ page = 1
  BY DEF Begin, Stage
<1>2. Finished'
  BY <1>1, KindsConfigured DEF TInv, TypeOK, Finished
<1>3. ASSUME NEW i \in 1..Len(board[Kind']), board[Kind'][i] \in owed
      PROVE  /\ seen'[board[Kind'][i]] = None /\ watermarks'[Kind'] # None
             /\ i > Passed'
  <2> DEFINE c == board[Kind'][i]
  <2>1. Kind' = Kind /\ Kind \in Kinds
    BY <1>1, KindsConfigured DEF Kind, TInv
  <2>2. c \in On(Kind) /\ c \in owed /\ c \in Cards
    BY <1>3, <2>1 DEF On, TInv, TypeOK
  <2> HIDE DEF c
  <2>3. Followed(Kind)
    BY <2>1, <2>2, OwedOn DEF TInv
  <2>4. OfKind(Kind) # {}
    BY <1>1, <2>3 DEF Followed
  <2>5. watermarks'[Kind] # None
    BY <1>1, <2>1, <2>4, WatermarkType
  <2>6. Passed' = 0
    BY <1>1 DEF Passed
  <2> QED
    BY <1>1, <2>1, <2>2, <2>5, <2>6 DEF c
<1>4. Expected'
  BY <1>1, <1>3 DEF Expected, Pending
<1> QED
  BY <1>2, <1>4

\* No card comes to a board by one that is taken down.
LEMMA RemoveFinished ==
  ASSUME QInv, Finished, NEW k \in Kinds, NEW p \in 1..Len(board[k]), Remove(p, k)
  PROVE  Expected' /\ Finished'
<1> USE DEF QInv, PInv
<1>1. /\ UNCHANGED <<date, seen, sources, pc, at>> /\ pc # "fetch"
      /\ owed' \subseteq owed /\ due' \subseteq due
  BY DEF Remove
<1>2. \A l \in Kinds : \A x \in On(l)' : x \in On(l)
  BY RemovedOn DEF TInv
<1>3. \A n \in 1..sources : Categories[n] \in Kinds
  BY KindsConfigured DEF TInv
<1>4. \A l : SeenOf(l)' = SeenOf(l)
  BY <1>1 DEF SeenOf
<1>5. ASSUME NEW n \in 1..sources, pc = "commit", NEW c \in owed', c \in On(Categories[n])'
      PROVE  Current(c) \/ (c \notin due' /\ Newest(c, Categories[n]))
  <2>1. c \in owed /\ c \in On(Categories[n])
    BY <1>1, <1>2, <1>3, <1>5
  <2>2. Current(c) \/ (c \notin due /\ Newest(c, Categories[n]))
    BY <1>5, <2>1 DEF Finished
  <2> QED
    BY <1>1, <2>2
<1>6. Finished'
  BY <1>1, <1>4, <1>5 DEF Finished, Current, Newest
<1>7. Expected'
  BY <1>1 DEF Expected
<1> QED
  BY <1>6, <1>7

LEMMA NextExpected ==
  ~RelativeDates /\ NInv /\ [Next]_vars => Expected' /\ Finished'
<1> SUFFICES ASSUME ~RelativeDates, NInv, [Next]_vars PROVE Expected' /\ Finished'
  OBVIOUS
<1> USE DEF NInv
<1>1. ASSUME NEW c \in Cards, NEW k \in Kinds, NEW p, Rises(c, k, p), ToTop(c, k, p)
      PROVE  Expected' /\ Finished'
  <2>1. Finished'
    BY <1>1, TopFinished
  <2>2. CASE pc = "fetch"
    BY <1>1, <2>1, <2>2, TopExpected
  <2>3. CASE pc # "fetch"
    BY <1>1, <2>1, <2>3 DEF ToTop, Expected
  <2> QED
    BY <2>2, <2>3
<1>2. ASSUME NEW c \in Cards, NEW k \in Kinds, Post(c, k) PROVE Expected' /\ Finished'
  <2>1. Rises(c, k, Len(board[k]) + 1) /\ ToTop(c, k, Len(board[k]) + 1)
    BY <1>2 DEF Post, Rises
  <2> QED
    BY <1>1, <2>1
<1>3. ASSUME NEW k \in Kinds, NEW p \in 1..Len(board[k]), Refresh(p, k)
      PROVE  Expected' /\ Finished'
  <2>1. Rises(board[k][p], k, p) /\ ToTop(board[k][p], k, p) /\ board[k][p] \in Cards
    BY <1>3, ElementOfSeq DEF Refresh, Rises, QInv, PInv, TInv, TypeOK
  <2> QED
    BY <1>1, <2>1
<1>4. ASSUME NEW k \in Kinds, NEW p \in 1..Len(board[k]), Remove(p, k)
      PROVE  Expected' /\ Finished'
  BY <1>4, RemoveFinished
<1>5. CASE Tick \/ UNCHANGED vars
  <2>1. UNCHANGED <<board, date, seen, sources, pc, at, page, watermarks, owed, due, moves>>
    BY <1>5 DEF Tick, vars
  <2>2. Kind' = Kind /\ Passed' = Passed /\ \A k : On(k)' = On(k) /\ SeenOf(k)' = SeenOf(k)
    BY <2>1 DEF Kind, Passed, On, SeenOf
  <2>3. Expected'
    BY <2>1, <2>2 DEF NInv, Expected, Current, Pending, Behind, Newest
  <2>4. Finished'
    BY <2>1, <2>2 DEF NInv, Finished, Current, Newest
  <2> QED
    BY <2>3, <2>4
<1>6. CASE AddCategory \/ FirstPageEmpty \/ Fail \/ Commit
  <2>1. pc' = "idle"
    BY <1>6 DEF AddCategory, FirstPageEmpty, Fail, Abandon, Commit
  <2> QED
    BY <2>1 DEF Expected, Finished
<1>7. CASE Begin
  BY <1>7, BeginExpected
<1>8. CASE BudgetSpent
  BY <1>8, BudgetFinished
<1>9. ASSUME NEW cards \in Pages, Fetch(cards) PROVE Expected' /\ Finished'
  BY <1>9, FetchExpected, FetchFinished
<1> QED
  BY <1>2, <1>3, <1>4, <1>5, <1>6, <1>7, <1>8, <1>9 DEF Next, Step

LEMMA NextNInv == ~RelativeDates /\ NInv /\ [Next]_vars => NInv'
  BY NextQInv, NextOwed, NextSigned, NextExpected DEF NInv

LEMMA InitNInv == Init => NInv
<1> SUFFICES ASSUME Init PROVE OwedPlaced /\ Signed /\ Expected /\ Finished
  BY InitQInv DEF NInv
<1> QED
  BY DEF Init, OwedPlaced, Signed, Expected, Finished

LEMMA CrawlNInv == ASSUME ~RelativeDates PROVE Spec => []NInv
  BY InitNInv, NextNInv, PTL DEF Spec

\* Where calendar days are shown, a crawl that commits has stored, with its
\* current date, all that was owed when it began.
THEOREM CrawlNothingMissed == ASSUME ~RelativeDates PROVE Spec => NothingMissed
<1> DEFINE Missed == stored' # stored \/ (pc = "commit" /\ pc' = "idle" /\ failures' = failures)
                     => \A c \in due : UpToDate(c)
<1>1. NInv /\ [Next]_vars => [Missed]_vars
  <2> SUFFICES ASSUME NInv, Next PROVE Missed
    BY DEF vars
  <2>1. CASE Commit
    <3> SUFFICES ASSUME NEW c \in due PROVE UpToDate(c)
      OBVIOUS
    <3>1. c \in owed /\ c \in Cards
      BY DEF NInv, QInv, PInv, TInv, TypeOK
    <3>2. PICK k \in Kinds : c \in On(k)
      BY <3>1 DEF NInv, OwedPlaced
    <3>3. Current(c)
      BY <2>1, <3>1, <3>2, FinishedOn DEF Commit, NInv
    <3> QED
      BY <3>1, <3>3, CurrentUpToDate
  <2>2. CASE ~Commit
    <3>1. UNCHANGED stored
      BY <2>2 DEF Next, Step, Post, Refresh, Remove, ToTop, Tick, AddCategory, Begin,
                  BudgetSpent, Fetch, FirstPageEmpty, Fail, Abandon
    <3>2. pc = "commit" /\ pc' = "idle" => failures' = failures + 1
      BY <2>2 DEF Next, Step, Post, Refresh, Remove, ToTop, Tick, AddCategory, Begin,
                  BudgetSpent, Fetch, FirstPageEmpty, Fail, Abandon
    <3>3. failures \in Nat
      BY DEF NInv, QInv, PInv, TInv, TypeOK
    <3> QED
      BY <3>1, <3>2, <3>3
  <2> QED
    BY <2>1, <2>2
<1> QED
  BY <1>1, CrawlNInv, PTL DEF Spec, NothingMissed
=============================================================================
