---------------------------- MODULE SheetProofs ----------------------------
(***************************************************************************)
(* Lemmas about the operators of SheetOps: their types, and what they do   *)
(* to a book that is read as an undo history.                              *)
(***************************************************************************)
EXTENDS SheetOps, SequenceTheorems, WellFoundedInduction, TLAPS

HV == INSTANCE HistoryViews

\* A function from a set of cells to cell data is a sheet, and nothing else.
LEMMA SheetIntro ==
  ASSUME NEW names \in SUBSET Cell, NEW s \in [names -> CellData]
  PROVE  s \in Sheet
  BY DEF Sheet

LEMMA SheetElim ==
  ASSUME NEW s \in Sheet
  PROVE  DOMAIN s \subseteq Cell /\ s \in [DOMAIN s -> CellData]
  BY DEF Sheet

LEMMA BlankType == Blank \in CellData
  BY ContentAssumption DEF Blank, CellData

LEMMA PutType ==
  ASSUME NEW s \in Sheet, NEW c \in Cell, NEW d \in CellData
  PROVE  Put(s, c, d) \in Sheet
<1>1. DOMAIN s \subseteq Cell /\ s \in [DOMAIN s -> CellData]
  BY SheetElim
<1>2. Put(s, c, d) \in [DOMAIN s \cup {c} -> CellData]
  BY <1>1 DEF Put
<1>3. QED
  BY <1>1, <1>2, SheetIntro

LEMMA EraseType ==
  ASSUME NEW s \in Sheet, NEW c
  PROVE  Erase(s, c) \in Sheet
<1>1. DOMAIN s \subseteq Cell /\ s \in [DOMAIN s -> CellData]
  BY SheetElim
<1>2. Erase(s, c) \in [DOMAIN s \ {c} -> CellData]
  BY <1>1 DEF Erase
<1>3. QED
  BY <1>1, <1>2, SheetIntro

LEMMA RestrictType ==
  ASSUME NEW s \in Sheet, NEW names \in SUBSET DOMAIN s
  PROVE  Restrict(s, names) \in Sheet
<1>1. DOMAIN s \subseteq Cell /\ s \in [DOMAIN s -> CellData]
  BY SheetElim
<1>2. Restrict(s, names) \in [names -> CellData]
  BY <1>1 DEF Restrict
<1>3. QED
  BY <1>1, <1>2, SheetIntro

LEMMA ViewType ==
  ASSUME NEW s \in Sheet, NEW c \in Cell
  PROVE  View(s, c) \in CellData
  BY SheetElim, BlankType DEF View

LEMMA EntryType ==
  ASSUME NEW c \in Cell, NEW d \in CellData
  PROVE  /\ Entry(c, d) \in UndoEntry
         /\ Entry(c, d).name = c
         /\ DataOf(Entry(c, d)) = d
  BY DEF Entry, UndoEntry, CellData, DataOf

LEMMA DataOfType ==
  ASSUME NEW e \in UndoEntry
  PROVE  e.name \in Cell /\ DataOf(e) \in CellData
  BY DEF UndoEntry, CellData, DataOf

\* The last element of a sequence, and the rest.
LEMMA LastFront ==
  ASSUME NEW S, NEW s \in Seq(S), s # << >>
  PROVE  /\ Last(s) \in S
         /\ Last(s) = s[Len(s)]
         /\ Front(s) \in Seq(S)
         /\ Len(Front(s)) = Len(s) - 1
         /\ \A i \in 1..Len(s) - 1 : Front(s)[i] = s[i]
         /\ Len(s) \in Nat \ {0}
<1>1. Len(s) \in Nat \ {0}
  OBVIOUS
<1>2. Last(s) = s[Len(s)] /\ Last(s) \in S
  BY <1>1 DEF Last
<1>3. PICK n \in Nat : Len(s) = n + 1
  BY <1>1
<1>4. \A i \in 1..n : s[i] \in S
  BY <1>3
<1>5. Front(s) = SubSeq(s, 1, n)
  BY <1>3 DEF Front
<1>6. /\ SubSeq(s, 1, n) \in Seq(S)
      /\ Len(SubSeq(s, 1, n)) = n
      /\ \A i \in 1..n : SubSeq(s, 1, n)[i] = s[i]
  BY <1>3, <1>4
<1>7. QED
  BY <1>1, <1>2, <1>3, <1>5, <1>6

LEMMA ReverseType ==
  ASSUME NEW S, NEW s \in Seq(S)
  PROVE  /\ Reverse(s) \in Seq(S)
         /\ Len(Reverse(s)) = Len(s)
         /\ \A i \in 1..Len(s) : Reverse(s)[i] = s[Len(s) - i + 1]
<1>1. Reverse(s) \in [1..Len(s) -> S]
  BY DEF Reverse
<1>2. QED
  BY <1>1 DEF Reverse

\* What save wrote is what load reads: it turns the undo stack over twice.
LEMMA ReverseReverse ==
  ASSUME NEW S, NEW s \in Seq(S)
  PROVE  Reverse(Reverse(s)) = s
<1>1. Reverse(s) \in Seq(S) /\ Len(Reverse(s)) = Len(s)
  BY ReverseType
<1>2. /\ Reverse(Reverse(s)) \in Seq(S)
      /\ Len(Reverse(Reverse(s))) = Len(s)
      /\ \A i \in 1..Len(s) : Reverse(Reverse(s))[i] = Reverse(s)[Len(s) - i + 1]
  BY <1>1, ReverseType
<1>3. ASSUME NEW i \in 1..Len(s) PROVE Reverse(Reverse(s))[i] = s[i]
  <2>1. Len(s) - i + 1 \in 1..Len(s)
    OBVIOUS
  <2>2. Reverse(s)[Len(s) - i + 1] = s[Len(s) - (Len(s) - i + 1) + 1]
    BY <2>1, ReverseType
  <2>3. QED
    BY <1>2, <2>2
<1>4. QED
  BY <1>2, <1>3

-----------------------------------------------------------------------------
(* The operations keep the type of a book.                                 *)

LEMMA EmptyBookType == EmptyBook \in Book
<1>1. [c \in {} |-> Blank] \in [{} -> CellData]
  OBVIOUS
<1>2. [c \in {} |-> Blank] \in Sheet
  BY <1>1, SheetIntro
<1>3. QED
  BY <1>2 DEF EmptyBook, Book

LEMMA SetCellContentsType ==
  ASSUME NEW b \in Book, NEW c \in Cell, NEW text \in Content
  PROVE  SetCellContents(b, c, text) \in Book
<1>1. b.sheet \in Sheet /\ b.undo \in Seq(UndoEntry)
  BY DEF Book
<1>2. View(b.sheet, c) \in CellData
  BY <1>1, ViewType
<1>3. Append(b.undo, Entry(c, View(b.sheet, c))) \in Seq(UndoEntry)
  BY <1>1, <1>2, EntryType
<1>4. /\ [content |-> text, prev |-> View(b.sheet, c).content] \in CellData
      /\ [content |-> text, prev |-> Empty] \in CellData
  BY <1>2, ContentAssumption DEF CellData
<1>5. /\ Erase(b.sheet, c) \in Sheet
      /\ Put(b.sheet, c, [content |-> text, prev |-> View(b.sheet, c).content]) \in Sheet
      /\ Put(b.sheet, c, [content |-> text, prev |-> Empty]) \in Sheet
  BY <1>1, <1>4, PutType, EraseType
<1>6. QED
  BY <1>3, <1>5 DEF SetCellContents, Book

LEMMA UndoChangeType ==
  ASSUME NEW b \in Book, b.undo # << >>
  PROVE  UndoChange(b) \in Book
<1>1. b.sheet \in Sheet /\ b.undo \in Seq(UndoEntry)
  BY DEF Book
<1>2. Last(b.undo) \in UndoEntry /\ Front(b.undo) \in Seq(UndoEntry)
  BY <1>1, LastFront
<1>3. Last(b.undo).name \in Cell /\ DataOf(Last(b.undo)) \in CellData
  BY <1>2, DataOfType
<1>4. /\ Erase(b.sheet, Last(b.undo).name) \in Sheet
      /\ Put(b.sheet, Last(b.undo).name, DataOf(Last(b.undo))) \in Sheet
  BY <1>1, <1>3, PutType, EraseType
<1>5. QED
  BY <1>2, <1>4 DEF UndoChange, Book

LEMMA ProcessRevertType ==
  ASSUME NEW b \in Book, NEW c \in Cell, CanRevert(b, c)
  PROVE  ProcessRevert(b, c) \in Book
<1>1. b.sheet \in Sheet /\ b.undo \in Seq(UndoEntry) /\ c \in DOMAIN b.sheet
  BY DEF Book, CanRevert
<1>2. b.sheet[c] \in CellData
  BY <1>1, SheetElim
<1>3. [content |-> b.sheet[c].prev, prev |-> b.sheet[c].prev] \in CellData
  BY <1>2 DEF CellData
<1>4. Put(b.sheet, c, [content |-> b.sheet[c].prev, prev |-> b.sheet[c].prev]) \in Sheet
  BY <1>1, <1>3, PutType
<1>5. Append(b.undo, Entry(c, b.sheet[c])) \in Seq(UndoEntry)
  BY <1>1, <1>2, EntryType
<1>6. QED
  BY <1>4, <1>5 DEF ProcessRevert, Book

LEMMA OutcomesType ==
  ASSUME NEW b \in Book, NEW max, NEW next \in Outcomes(b, max)
  PROVE  next \in Book
<1>1. CASE next = b
  BY <1>1
<1>2. CASE \E e \in Cell \X Content : next = SetCellContents(b, e[1], e[2])
  BY <1>2, SetCellContentsType
<1>3. CASE \E c \in Cell : CanRevert(b, c) /\ next = ProcessRevert(b, c)
  BY <1>3, ProcessRevertType
<1>4. CASE b.undo # << >> /\ next = UndoChange(b)
  BY <1>4, UndoChangeType
<1>5. QED
  BY <1>1, <1>2, <1>3, <1>4 DEF Outcomes

\* What save writes, load reads.
LEMMA LoadInvertsSave ==
  ASSUME NEW b \in Book
  PROVE  Loaded(Saved(b)) = b
<1>1. Reverse(Reverse(b.undo)) = b.undo
  BY ReverseReverse DEF Book
<1>2. b = [sheet |-> b.sheet, undo |-> b.undo]
  BY DEF Book
<1>3. QED
  BY <1>1, <1>2 DEF Loaded, Saved

-----------------------------------------------------------------------------
(* The least element of a set of numbers.                                  *)

LEMMA NatMin ==
  ASSUME NEW T \in SUBSET Nat, T # {}
  PROVE  \E x \in T : \A y \in T : x <= y
<1> DEFINE R == OpToRel(<, Nat)
<1>1. \A x, y \in Nat : <<x, y>> \in R <=> x < y
  BY DEF OpToRel
<1>2. \E x \in T : \A y \in T : ~ (<<y, x>> \in R)
  <2>1. IsWellFoundedOn(R, Nat)
    BY NatLessThanWellFounded
  <2> HIDE DEF R
  <2>2. QED
    BY <2>1, WFMin, Zenon
<1> HIDE DEF R
<1>3. PICK x \in T : \A y \in T : ~ (<<y, x>> \in R)
  BY <1>2
<1>4. \A y \in T : ~(y < x)
  BY <1>1, <1>3
<1>5. \A y \in T : y \in Nat /\ x \in Nat
  OBVIOUS
<1>6. QED
  BY <1>4, <1>5

\* Induction, on the set of the numbers for which something holds.
LEMMA NatSet ==
  ASSUME NEW S \in SUBSET Nat, 0 \in S, \A n \in S : n + 1 \in S
  PROVE  S = Nat
<1> SUFFICES ASSUME Nat \ S # {}
             PROVE  FALSE
  OBVIOUS
<1>1. PICK m \in Nat \ S : \A n \in Nat \ S : m <= n
  BY NatMin
<1>2. m # 0 /\ m - 1 \in Nat /\ ~(m <= m - 1)
  BY <1>1
<1>3. m - 1 \in S
  BY <1>1, <1>2
<1>4. (m - 1) + 1 = m
  BY <1>2
<1> QED
  BY <1>1, <1>3, <1>4

LEMMA MinIs ==
  ASSUME NEW T \in SUBSET Nat, NEW m \in T, \A y \in T : m <= y
  PROVE  Min(T) = m
<1>1. \A x \in T : (\A y \in T : x <= y) => x = m
  OBVIOUS
<1>2. QED
  BY <1>1 DEF Min

LEMMA MinIn ==
  ASSUME NEW T \in SUBSET Nat, T # {}
  PROVE  Min(T) \in T /\ \A y \in T : Min(T) <= y
  BY NatMin, MinIs

LEMMA MaxIn ==
  ASSUME NEW n \in Nat, NEW T \in SUBSET (0..n), T # {}
  PROVE  Max(T) \in T
<1> DEFINE U == {n - i : i \in T}
<1>1. U \in SUBSET Nat /\ U # {}
  <2>1. \A i \in T : i \in 0..n
    OBVIOUS
  <2>2. \A i \in T : n - i \in Nat
    BY <2>1
  <2>3. \A j \in U : j \in Nat
    BY <2>2
  <2>4. PICK i \in T : TRUE
    OBVIOUS
  <2>5. n - i \in U
    OBVIOUS
  <2> QED
    BY <2>3, <2>5
<1>2. PICK x \in U : \A y \in U : x <= y
  BY <1>1, NatMin
<1>3. PICK m \in T : x = n - m
  BY <1>2
<1>4. ASSUME NEW i \in T PROVE i <= m
  <2>1. n - i \in U
    OBVIOUS
  <2>2. n - m <= n - i
    BY <1>2, <1>3, <2>1
  <2>3. i \in 0..n /\ m \in 0..n
    OBVIOUS
  <2> QED
    BY <2>2, <2>3
<1>5. \E p \in T : \A i \in T : p >= i
  BY <1>4
<1> QED
  BY <1>5, Zenon DEF Max

-----------------------------------------------------------------------------

\* The positions from i on of the entries of a cell.
Later(b, i, c) == {j \in i..Len(b.undo) : b.undo[j].name = c}

LEMMA ViewBeforeIs ==
  ASSUME NEW b, NEW i, NEW c \in Cell
  PROVE  ViewBefore(b, i)[c] = IF Later(b, i, c) = {}
                               THEN View(b.sheet, c)
                               ELSE DataOf(b.undo[Min(Later(b, i, c))])
  BY DEF ViewBefore, Later

LEMMA ViewBeforeDomain ==
  ASSUME NEW b, NEW i
  PROVE  ViewBefore(b, i) = [c \in Cell |-> ViewBefore(b, i)[c]]
  BY DEF ViewBefore

LEMMA LaterIn ==
  ASSUME NEW b \in Book, NEW i \in Nat \ {0}, NEW c, Later(b, i, c) # {}
  PROVE  /\ Later(b, i, c) \in SUBSET Nat
         /\ Min(Later(b, i, c)) \in Later(b, i, c)
         /\ Min(Later(b, i, c)) \in 1..Len(b.undo)
         /\ \A j \in Later(b, i, c) : Min(Later(b, i, c)) <= j
<1>1. Len(b.undo) \in Nat
  BY DEF Book
<1>2. Later(b, i, c) \in SUBSET (1..Len(b.undo))
  BY <1>1 DEF Later
<1>3. Later(b, i, c) \in SUBSET Nat
  BY <1>2
<1>4. QED
  BY <1>2, <1>3, MinIn

\* Below the stack there is only the sheet.
LEMMA ViewBeforeTop ==
  ASSUME NEW b \in Book
  PROVE  ViewBefore(b, Len(b.undo) + 1) = [c \in Cell |-> View(b.sheet, c)]
<1>1. Len(b.undo) \in Nat
  BY DEF Book
<1>2. \A c \in Cell : {j \in Len(b.undo) + 1..Len(b.undo) : b.undo[j].name = c} = {}
  BY <1>1
<1>3. QED
  BY <1>2 DEF ViewBefore

-----------------------------------------------------------------------------
(* One entry more.                                                         *)

\* Book b2 is b1 with one entry more, which brings b1's sheet back.
Extends(b1, b2, e) ==
  /\ b2.undo = Append(b1.undo, e)
  /\ DataOf(e) = View(b1.sheet, e.name)
  /\ \A c \in Cell \ {e.name} : View(b1.sheet, c) = View(b2.sheet, c)

\* The older views are the same, and the new one is what b1's sheet shows.
LEMMA ExtendsViews ==
  ASSUME NEW b1 \in Book, NEW b2 \in Book, NEW e \in UndoEntry, Extends(b1, b2, e),
         NEW i \in 1..Len(b1.undo) + 1
  PROVE  ViewBefore(b2, i) = ViewBefore(b1, i)
<1> DEFINE n == Len(b1.undo)
<1>1. /\ b1.undo \in Seq(UndoEntry)
      /\ n \in Nat
      /\ Len(b2.undo) = n + 1
      /\ \A j \in 1..n : b2.undo[j] = b1.undo[j]
      /\ b2.undo[n + 1] = e
  BY DEF Book, Extends
<1> HIDE DEF n
<1>2. i \in Nat \ {0} /\ i <= n + 1
  BY <1>1 DEF n
<1>3. ASSUME NEW c \in Cell PROVE ViewBefore(b2, i)[c] = ViewBefore(b1, i)[c]
  <2>1. \A j : j \in Later(b1, i, c) <=> j \in i..n /\ b1.undo[j].name = c
    BY DEF Later, n
  <2>2. \A j : j \in Later(b2, i, c) <=> j \in i..n + 1 /\ b2.undo[j].name = c
    BY <1>1 DEF Later
  <2>3. CASE Later(b1, i, c) # {}
    <3> DEFINE m == Min(Later(b1, i, c))
    <3>1. m \in Later(b1, i, c) /\ m \in 1..n /\ \A j \in Later(b1, i, c) : m <= j
      BY <1>2, <2>3, LaterIn DEF n
    <3> HIDE DEF m
    <3>2. m \in Later(b2, i, c)
      BY <1>1, <1>2, <2>1, <2>2, <3>1
    <3>3. ASSUME NEW j \in Later(b2, i, c) PROVE m <= j
      <4>1. CASE j = n + 1
        BY <1>1, <3>1, <4>1
      <4>2. CASE j # n + 1
        <5>1. j \in i..n /\ j \in 1..n
          BY <1>1, <1>2, <2>2, <4>2
        <5>2. j \in Later(b1, i, c)
          BY <1>1, <2>1, <2>2, <5>1
        <5>3. QED
          BY <3>1, <5>2
      <4>3. QED
        BY <4>1, <4>2
    <3>4. Later(b2, i, c) \in SUBSET Nat
      BY <1>1, <1>2, <2>2
    <3>5. Min(Later(b2, i, c)) = m
      BY <3>2, <3>3, <3>4, MinIs
    <3>6. b2.undo[m] = b1.undo[m]
      BY <1>1, <3>1
    <3>7. ViewBefore(b1, i)[c] = DataOf(b1.undo[m])
      BY <2>3, ViewBeforeIs DEF m
    <3>8. ViewBefore(b2, i)[c] = DataOf(b2.undo[m])
      BY <3>2, <3>5, ViewBeforeIs
    <3>9. QED
      BY <3>6, <3>7, <3>8
  <2>4. CASE Later(b1, i, c) = {}
    <3>1. ViewBefore(b1, i)[c] = View(b1.sheet, c)
      BY <2>4, ViewBeforeIs
    <3>2. CASE c = e.name
      <4>1. Later(b2, i, c) = {n + 1}
        BY <1>1, <1>2, <2>1, <2>2, <2>4, <3>2
      <4>2. Min({n + 1}) = n + 1
        BY <1>1, MinIs
      <4>3. Later(b2, i, c) # {} /\ Min(Later(b2, i, c)) = n + 1
        BY <4>1, <4>2
      <4>4. ViewBefore(b2, i)[c] = DataOf(b2.undo[n + 1])
        BY <4>3, ViewBeforeIs
      <4>5. QED
        BY <1>1, <3>1, <3>2, <4>4 DEF Extends
    <3>3. CASE c # e.name
      <4>1. Later(b2, i, c) = {}
        BY <1>1, <1>2, <2>1, <2>2, <2>4, <3>3
      <4>2. ViewBefore(b2, i)[c] = View(b2.sheet, c)
        BY <4>1, ViewBeforeIs
      <4>3. QED
        BY <3>1, <3>3, <4>2 DEF Extends
    <3>4. QED
      BY <3>2, <3>3
  <2>5. QED
    BY <2>3, <2>4
<1>4. QED
  BY <1>3, ViewBeforeDomain

-----------------------------------------------------------------------------
(* The newest entries alone.                                               *)

\* Book b2 has b1's sheet and the newest entries of its stack, all but d.
Shortens(b1, b2, d) ==
  /\ b2.sheet = b1.sheet
  /\ Len(b2.undo) = Len(b1.undo) - d
  /\ \A j \in 1..Len(b1.undo) - d : b2.undo[j] = b1.undo[j + d]

\* The newest views are the same.
LEMMA ShortensViews ==
  ASSUME NEW b1 \in Book, NEW b2 \in Book, NEW d \in 0..Len(b1.undo), Shortens(b1, b2, d),
         NEW i \in 1..Len(b1.undo) - d + 1
  PROVE  ViewBefore(b2, i) = ViewBefore(b1, i + d)
<1> DEFINE n == Len(b1.undo)
<1>1. n \in Nat
  BY DEF Book
<1> HIDE DEF n
<1>2. /\ d \in Nat /\ d <= n
      /\ i \in Nat \ {0} /\ i <= n - d + 1
      /\ i + d \in Nat \ {0}
      /\ Len(b2.undo) = n - d
      /\ \A j \in 1..n - d : b2.undo[j] = b1.undo[j + d]
  BY <1>1 DEF n, Shortens
<1>3. ASSUME NEW c \in Cell PROVE ViewBefore(b2, i)[c] = ViewBefore(b1, i + d)[c]
  <2>1. \A j : j \in Later(b1, i + d, c) <=> j \in i + d..n /\ b1.undo[j].name = c
    BY DEF Later, n
  <2>2. \A j : j \in Later(b2, i, c) <=> j \in i..n - d /\ b2.undo[j].name = c
    BY <1>2 DEF Later
  <2>3. ASSUME NEW j \in Later(b2, i, c)
        PROVE  j + d \in Later(b1, i + d, c)
    <3>1. j \in Nat /\ j + d \in i + d..n /\ j \in 1..n - d
      BY <1>1, <1>2, <2>2
    <3>2. b2.undo[j] = b1.undo[j + d]
      BY <1>2, <3>1
    <3>3. QED
      BY <2>1, <2>2, <3>1, <3>2
  <2>4. ASSUME NEW j \in Later(b1, i + d, c)
        PROVE  j - d \in Later(b2, i, c) /\ j \in Nat
    <3>1. j \in Nat /\ j - d \in i..n - d /\ j - d \in 1..n - d /\ (j - d) + d = j
      BY <1>1, <1>2, <2>1
    <3>2. b2.undo[j - d] = b1.undo[j]
      BY <1>2, <3>1
    <3>3. QED
      BY <2>1, <2>2, <3>1, <3>2
  <2>5. CASE Later(b2, i, c) = {}
    <3>1. Later(b1, i + d, c) = {}
      BY <2>4, <2>5
    <3>2. QED
      BY <2>5, <3>1, ViewBeforeIs DEF Shortens
  <2>6. CASE Later(b2, i, c) # {}
    <3> DEFINE m == Min(Later(b2, i, c))
    <3>1. m \in Later(b2, i, c) /\ m \in 1..n - d /\ \A j \in Later(b2, i, c) : m <= j
      BY <1>2, <2>6, LaterIn
    <3>2. ViewBefore(b2, i)[c] = DataOf(b2.undo[m])
      BY <2>6, ViewBeforeIs
    <3> HIDE DEF m
    <3>3. m + d \in Later(b1, i + d, c)
      BY <2>3, <3>1
    <3>4. \A j \in Later(b1, i + d, c) : m + d <= j
      BY <1>2, <2>4, <3>1
    <3>5. Later(b1, i + d, c) \in SUBSET Nat
      BY <2>4
    <3>6. Min(Later(b1, i + d, c)) = m + d
      BY <3>3, <3>4, <3>5, MinIs
    <3>7. ViewBefore(b1, i + d)[c] = DataOf(b1.undo[m + d])
      BY <3>3, <3>6, ViewBeforeIs
    <3>8. b2.undo[m] = b1.undo[m + d]
      BY <1>2, <3>1
    <3>9. QED
      BY <3>2, <3>7, <3>8
  <2>7. QED
    BY <2>5, <2>6
<1>4. QED
  BY <1>3, ViewBeforeDomain

-----------------------------------------------------------------------------
(* The history of a book.                                                  *)

LEMMA ViewBeforeType ==
  ASSUME NEW b \in Book, NEW i \in Nat \ {0}
  PROVE  ViewBefore(b, i) \in [Cell -> CellData]
<1>1. b.sheet \in Sheet /\ b.undo \in Seq(UndoEntry)
  BY DEF Book
<1>2. ASSUME NEW c \in Cell PROVE ViewBefore(b, i)[c] \in CellData
  <2>1. CASE Later(b, i, c) = {}
    BY <1>1, <2>1, ViewBeforeIs, ViewType
  <2>2. CASE Later(b, i, c) # {}
    <3>1. Min(Later(b, i, c)) \in 1..Len(b.undo)
      BY <2>2, LaterIn
    <3>2. b.undo[Min(Later(b, i, c))] \in UndoEntry
      BY <1>1, <3>1
    <3>3. QED
      BY <2>2, <3>2, ViewBeforeIs, DataOfType
  <2>3. QED
    BY <2>1, <2>2
<1>3. QED
  BY <1>2, ViewBeforeDomain

LEMMA HistoryType ==
  ASSUME NEW b \in Book
  PROVE  /\ HistoryOf(b) = [current |-> HistoryOf(b).current, past |-> HistoryOf(b).past]
         /\ HistoryOf(b).current = [c \in Cell |-> View(b.sheet, c)]
         /\ HistoryOf(b).current \in [Cell -> CellData]
         /\ HistoryOf(b).past \in Seq([Cell -> CellData])
         /\ Len(HistoryOf(b).past) = Len(b.undo)
         /\ Len(b.undo) \in Nat
         /\ \A i \in 1..Len(b.undo) : HistoryOf(b).past[i] = ViewBefore(b, i)
<1>1. b.sheet \in Sheet /\ Len(b.undo) \in Nat
  BY DEF Book
<1>2. [c \in Cell |-> View(b.sheet, c)] \in [Cell -> CellData]
  BY <1>1, ViewType
<1> DEFINE past == [i \in 1..Len(b.undo) |-> ViewBefore(b, i)]
<1>3. past \in [1..Len(b.undo) -> [Cell -> CellData]]
  BY <1>1, ViewBeforeType
<1>4. /\ past \in Seq([Cell -> CellData])
      /\ Len(past) = Len(b.undo)
      /\ \A i \in 1..Len(b.undo) : past[i] = ViewBefore(b, i)
  BY <1>1, <1>3
<1> HIDE DEF past
<1>5. HistoryOf(b) = [current |-> [c \in Cell |-> View(b.sheet, c)], past |-> past]
  BY DEF HistoryOf, past
<1>6. QED
  BY <1>1, <1>2, <1>4, <1>5

\* A push puts the view of the sheet on the top of the past.
LEMMA ExtendsHistory ==
  ASSUME NEW b1 \in Book, NEW b2 \in Book, NEW e \in UndoEntry, Extends(b1, b2, e)
  PROVE  HistoryOf(b2).past = Append(HistoryOf(b1).past, HistoryOf(b1).current)
<1> DEFINE V   == [Cell -> CellData]
           p1  == HistoryOf(b1).past
           p2  == HistoryOf(b2).past
           now == HistoryOf(b1).current
           n   == Len(b1.undo)
<1>1. /\ p1 \in Seq(V) /\ Len(p1) = n /\ n \in Nat /\ now \in V
      /\ \A i \in 1..n : p1[i] = ViewBefore(b1, i)
      /\ now = [c \in Cell |-> View(b1.sheet, c)]
  BY HistoryType
<1>2. /\ p2 \in Seq(V) /\ Len(p2) = Len(b2.undo)
      /\ \A i \in 1..Len(b2.undo) : p2[i] = ViewBefore(b2, i)
  BY HistoryType
<1>3. Len(b2.undo) = n + 1
  BY DEF Extends, Book
<1>4. \A i \in 1..n + 1 : ViewBefore(b2, i) = ViewBefore(b1, i)
  BY ExtendsViews
<1>5. ViewBefore(b1, n + 1) = now
  BY <1>1, ViewBeforeTop
<1>6. /\ Append(p1, now) \in Seq(V)
      /\ Len(Append(p1, now)) = n + 1
      /\ \A i \in 1..n : Append(p1, now)[i] = p1[i]
      /\ Append(p1, now)[n + 1] = now
  BY <1>1, AppendProperties
<1> HIDE DEF p1, p2, now, n, V
<1>7. ASSUME NEW i \in 1..n + 1 PROVE p2[i] = Append(p1, now)[i]
  <2>1. CASE i = n + 1
    BY <1>2, <1>3, <1>4, <1>5, <1>6, <2>1
  <2>2. CASE i # n + 1
    <3>1. i \in 1..n
      BY <1>1, <2>2
    <3>2. QED
      BY <1>1, <1>2, <1>3, <1>4, <1>6, <3>1
  <2>3. QED
    BY <2>1, <2>2
<1>8. p2 = Append(p1, now)
  BY <1>2, <1>3, <1>6, <1>7, SeqEqual
<1>9. QED
  BY <1>8 DEF p1, p2, now

\* The loss of the oldest entries is that of the oldest views.
LEMMA ShortensHistory ==
  ASSUME NEW b1 \in Book, NEW b2 \in Book, NEW d \in 0..Len(b1.undo), Shortens(b1, b2, d)
  PROVE  /\ HistoryOf(b2).current = HistoryOf(b1).current
         /\ HistoryOf(b2).past = SubSeq(HistoryOf(b1).past, d + 1, Len(HistoryOf(b1).past))
<1> DEFINE V   == [Cell -> CellData]
           p1  == HistoryOf(b1).past
           p2  == HistoryOf(b2).past
           n   == Len(b1.undo)
           sub == SubSeq(p1, d + 1, n)
<1>1. /\ p1 \in Seq(V) /\ Len(p1) = n /\ n \in Nat
      /\ \A i \in 1..n : p1[i] = ViewBefore(b1, i)
  BY HistoryType
<1>2. /\ p2 \in Seq(V) /\ Len(p2) = Len(b2.undo)
      /\ \A i \in 1..Len(b2.undo) : p2[i] = ViewBefore(b2, i)
  BY HistoryType
<1>3. Len(b2.undo) = n - d
  BY DEF Shortens
<1>4. \A i \in 1..n - d + 1 : ViewBefore(b2, i) = ViewBefore(b1, i + d)
  BY ShortensViews
<1> HIDE DEF p1, p2, n, V
<1>5. d \in Nat /\ d <= n
  BY <1>1 DEF n
<1>6. \A i \in d + 1..n : p1[i] \in V
  BY <1>1, <1>5
<1>7. /\ sub \in Seq(V)
      /\ Len(sub) = n - d
      /\ \A i \in 1..n - d : sub[i] = p1[i + d]
  BY <1>1, <1>5, <1>6
<1> HIDE DEF sub
<1>8. ASSUME NEW i \in 1..n - d PROVE p2[i] = sub[i]
  <2>1. i + d \in 1..n /\ i \in 1..n - d + 1
    BY <1>1, <1>5
  <2>2. QED
    BY <1>1, <1>2, <1>3, <1>4, <1>7, <2>1
<1>9. p2 = sub
  BY <1>2, <1>3, <1>7, <1>8, SeqEqual
<1>10. HistoryOf(b2).current = HistoryOf(b1).current
  BY HistoryType DEF Shortens
<1>11. QED
  BY <1>1, <1>9, <1>10 DEF p1, p2, n, sub

-----------------------------------------------------------------------------
(* A book whose stack is one history, and which forgets.                   *)

\* What the requests keep true of a book.
Sound(b) == Forgetful(b) /\ OneHistory(b)

-----------------------------------------------------------------------------
(* A push and a pop.                                                       *)

\* The entries of a stack and of one with an entry more.
LEMMA ExtendsEntries ==
  ASSUME NEW b1 \in Book, NEW b2 \in Book, NEW e \in UndoEntry, Extends(b1, b2, e)
  PROVE  /\ Len(b1.undo) \in Nat
         /\ DOMAIN b1.undo = 1..Len(b1.undo)
         /\ DOMAIN b2.undo = 1..Len(b1.undo) + 1
         /\ \A i \in 1..Len(b1.undo) : b2.undo[i] = b1.undo[i]
         /\ b2.undo[Len(b1.undo) + 1] = e
         /\ \A i \in 1..Len(b1.undo) + 1 : b2.undo[i].name \in Cell
<1>1. b1.undo \in Seq(UndoEntry) /\ b2.undo \in Seq(UndoEntry)
  BY DEF Book
<1>2. Len(b2.undo) = Len(b1.undo) + 1
  BY <1>1 DEF Extends
<1>3. \A i \in 1..Len(b1.undo) + 1 : b2.undo[i] \in UndoEntry
  BY <1>1, <1>2
<1>4. \A i \in 1..Len(b1.undo) + 1 : b2.undo[i].name \in Cell
  BY <1>3 DEF UndoEntry
<1>5. /\ \A i \in 1..Len(b1.undo) : b2.undo[i] = b1.undo[i]
      /\ b2.undo[Len(b1.undo) + 1] = e
  <2>1. b2.undo = Append(b1.undo, e)
    BY DEF Extends
  <2> QED
    BY <1>1, <2>1, AppendProperties
<1> QED
  BY <1>1, <1>2, <1>4, <1>5

\* A push keeps the history one, if the entry and the new data of its cell
\* are one request apart.
LEMMA PushKeepsHistory ==
  ASSUME NEW b1 \in Book, NEW b2 \in Book, NEW e \in UndoEntry, Extends(b1, b2, e),
         OneHistory(b1), OneRequestApart(DataOf(e), View(b2.sheet, e.name))
  PROVE  OneHistory(b2)
<1> DEFINE n == Len(b1.undo)
<1>1. /\ n \in Nat
      /\ DOMAIN b1.undo = 1..n
      /\ DOMAIN b2.undo = 1..n + 1
      /\ \A i \in 1..n : b2.undo[i] = b1.undo[i]
      /\ b2.undo[n + 1] = e
      /\ \A i \in 1..n + 1 : b2.undo[i].name \in Cell
  BY ExtendsEntries
<1>2. Len(b2.undo) = n + 1
  BY DEF Extends, Book
<1>3. \A i \in 1..n + 1 : ViewBefore(b2, i) = ViewBefore(b1, i)
  BY ExtendsViews
<1>4. ViewBefore(b2, n + 1 + 1) = [c \in Cell |-> View(b2.sheet, c)]
  BY <1>2, ViewBeforeTop
<1>5. \A i \in 1..n : OneRequestApart(DataOf(b1.undo[i]), ViewBefore(b1, i + 1)[b1.undo[i].name])
  BY <1>1 DEF OneHistory
<1> HIDE DEF n
<1>6. ASSUME NEW i \in 1..n + 1
      PROVE  OneRequestApart(DataOf(b2.undo[i]), ViewBefore(b2, i + 1)[b2.undo[i].name])
  <2>1. CASE i = n + 1
    <3>1. e.name \in Cell
      BY DEF UndoEntry
    <3>2. ViewBefore(b2, i + 1)[e.name] = View(b2.sheet, e.name)
      BY <1>4, <2>1, <3>1
    <3>3. QED
      BY <1>1, <2>1, <3>2
  <2>2. CASE i # n + 1
    <3>1. i \in 1..n /\ i + 1 \in 1..n + 1
      BY <1>1, <2>2
    <3>2. b2.undo[i] = b1.undo[i] /\ ViewBefore(b2, i + 1) = ViewBefore(b1, i + 1)
      BY <1>1, <1>3, <3>1
    <3>3. QED
      BY <1>5, <3>1, <3>2
  <2>3. QED
    BY <2>1, <2>2
<1>7. QED
  BY <1>1, <1>6 DEF OneHistory

\* A pop leaves the rest of the history one.
LEMMA PopKeepsHistory ==
  ASSUME NEW b1 \in Book, NEW b2 \in Book, NEW e \in UndoEntry, Extends(b1, b2, e),
         OneHistory(b2)
  PROVE  OneHistory(b1)
<1> DEFINE n == Len(b1.undo)
<1>1. /\ n \in Nat
      /\ DOMAIN b1.undo = 1..n
      /\ DOMAIN b2.undo = 1..n + 1
      /\ \A i \in 1..n : b2.undo[i] = b1.undo[i]
  BY ExtendsEntries
<1>2. \A i \in 1..n + 1 : ViewBefore(b2, i) = ViewBefore(b1, i)
  BY ExtendsViews
<1>3. \A i \in 1..n + 1 :
        OneRequestApart(DataOf(b2.undo[i]), ViewBefore(b2, i + 1)[b2.undo[i].name])
  BY <1>1 DEF OneHistory
<1> HIDE DEF n
<1>4. ASSUME NEW i \in 1..n
      PROVE  OneRequestApart(DataOf(b1.undo[i]), ViewBefore(b1, i + 1)[b1.undo[i].name])
  <2>1. i \in 1..n + 1 /\ i + 1 \in 1..n + 1
    BY <1>1
  <2>2. b2.undo[i] = b1.undo[i] /\ ViewBefore(b2, i + 1) = ViewBefore(b1, i + 1)
    BY <1>1, <1>2, <2>1
  <2>3. QED
    BY <1>3, <2>1, <2>2
<1>5. QED
  BY <1>1, <1>4 DEF OneHistory

-----------------------------------------------------------------------------
(* The three requests.                                                     *)

LEMMA ViewForgets ==
  ASSUME NEW b, Forgetful(b), NEW c
  PROVE  Forgets(View(b.sheet, c))
  BY DEF Forgetful, Forgets, View, Blank

LEMMA EntryForgets ==
  ASSUME NEW c, NEW d, Forgets(d)
  PROVE  Forgets(Entry(c, d))
  BY DEF Forgets, Entry

LEMMA EditExtends ==
  ASSUME NEW b \in Book, NEW c \in Cell, NEW text \in Content, Forgetful(b)
  PROVE  LET b2  == SetCellContents(b, c, text)
             old == View(b.sheet, c)
         IN /\ Extends(b, b2, Entry(c, old))
            /\ View(b2.sheet, c) = IF text = Empty THEN Blank
                                   ELSE [content |-> text, prev |-> old.content]
            /\ Forgetful(b2)
<1> DEFINE b2  == SetCellContents(b, c, text)
           old == View(b.sheet, c)
           new == IF text = Empty THEN Blank ELSE [content |-> text, prev |-> old.content]
<1>1. b.sheet \in Sheet /\ b.undo \in Seq(UndoEntry) /\ old \in CellData
  BY ViewType DEF Book
<1>2. b2.undo = Append(b.undo, Entry(c, old))
  BY DEF SetCellContents
<1>3. Entry(c, old).name = c /\ DataOf(Entry(c, old)) = old /\ Entry(c, old) \in UndoEntry
  BY <1>1, EntryType
<1>4. \A x \in Cell \ {c} : View(b.sheet, x) = View(b2.sheet, x)
  BY DEF SetCellContents, View, Put, Erase
<1>5. View(b2.sheet, c) = new
  <2>1. CASE c \in DOMAIN b.sheet /\ text = Empty
    BY <2>1 DEF SetCellContents, View, Erase
  <2>2. CASE c \in DOMAIN b.sheet /\ text # Empty
    BY <2>2 DEF SetCellContents, View, Put
  <2>3. CASE c \notin DOMAIN b.sheet
    BY <2>3 DEF SetCellContents, View, Put, Blank
  <2>4. QED
    BY <2>1, <2>2, <2>3
<1>6. Forgetful(b2)
  <2>1. Forgets(new)
    BY DEF Forgets, Blank
  <2>2. \A x \in DOMAIN b2.sheet : x = c \/ (x \in DOMAIN b.sheet /\ b2.sheet[x] = b.sheet[x])
    BY DEF SetCellContents, Put, Erase
  <2>3. \A x \in DOMAIN b2.sheet : b2.sheet[x] = View(b2.sheet, x)
    BY DEF View
  <2>4. \A x \in DOMAIN b2.sheet : Forgets(b2.sheet[x])
    BY <1>5, <2>1, <2>2, <2>3 DEF Forgetful
  <2>5. Forgets(Entry(c, old))
    BY ViewForgets, EntryForgets
  <2>6. \A i \in DOMAIN b2.undo : b2.undo[i] = Entry(c, old)
                                  \/ (i \in DOMAIN b.undo /\ b2.undo[i] = b.undo[i])
    BY <1>1, <1>2, <1>3
  <2>7. QED
    BY <2>4, <2>5, <2>6 DEF Forgetful
<1>7. QED
  BY <1>2, <1>3, <1>4, <1>5, <1>6 DEF Extends

LEMMA RevertExtends ==
  ASSUME NEW b \in Book, NEW c \in Cell, CanRevert(b, c), Forgetful(b)
  PROVE  LET b2  == ProcessRevert(b, c)
             old == View(b.sheet, c)
         IN /\ Extends(b, b2, Entry(c, old))
            /\ View(b2.sheet, c) = [content |-> old.prev, prev |-> old.prev]
            /\ Forgetful(b2)
<1> DEFINE b2  == ProcessRevert(b, c)
           old == View(b.sheet, c)
           new == [content |-> old.prev, prev |-> old.prev]
<1>1. /\ b.sheet \in Sheet /\ b.undo \in Seq(UndoEntry) /\ old \in CellData
      /\ c \in DOMAIN b.sheet /\ old = b.sheet[c]
  BY ViewType DEF Book, CanRevert, View
<1>2. /\ b2.undo = Append(b.undo, Entry(c, old))
      /\ b2.sheet = Put(b.sheet, c, new)
  BY <1>1 DEF ProcessRevert
<1>3. Entry(c, old).name = c /\ DataOf(Entry(c, old)) = old /\ Entry(c, old) \in UndoEntry
  BY <1>1, EntryType
<1>4. /\ \A x \in Cell \ {c} : View(b.sheet, x) = View(b2.sheet, x)
      /\ View(b2.sheet, c) = new
  BY <1>2 DEF View, Put
<1>5. Forgetful(b2)
  <2>1. Forgets(new)
    BY DEF Forgets
  <2>2. \A x \in DOMAIN b2.sheet : b2.sheet[x] = new
                                   \/ (x \in DOMAIN b.sheet /\ b2.sheet[x] = b.sheet[x])
    BY <1>2 DEF Put
  <2>3. Forgets(Entry(c, old))
    BY ViewForgets, EntryForgets
  <2>4. \A i \in DOMAIN b2.undo : b2.undo[i] = Entry(c, old)
                                  \/ (i \in DOMAIN b.undo /\ b2.undo[i] = b.undo[i])
    BY <1>1, <1>2, <1>3
  <2>5. QED
    BY <2>1, <2>2, <2>3, <2>4 DEF Forgetful
<1>6. QED
  BY <1>2, <1>3, <1>4, <1>5 DEF Extends

\* The undone book is the one that the newest request changed.
LEMMA UndoExtends ==
  ASSUME NEW b \in Book, b.undo # << >>, Forgetful(b)
  PROVE  /\ Last(b.undo) \in UndoEntry
         /\ Extends(UndoChange(b), b, Last(b.undo))
         /\ Forgetful(UndoChange(b))
<1> DEFINE e  == Last(b.undo)
           b1 == UndoChange(b)
           n  == Len(b.undo)
<1>1. /\ b.undo \in Seq(UndoEntry)
      /\ e \in UndoEntry /\ e = b.undo[n]
      /\ Front(b.undo) \in Seq(UndoEntry)
      /\ Len(Front(b.undo)) = n - 1
      /\ \A i \in 1..n - 1 : Front(b.undo)[i] = b.undo[i]
      /\ n \in Nat \ {0}
  BY LastFront DEF Book
<1>2. b1.undo = Front(b.undo)
  BY DEF UndoChange
<1>3. e.name \in Cell /\ DataOf(e) \in CellData
  BY <1>1, DataOfType
<1>4. Forgets(e)
  BY <1>1 DEF Forgetful
<1>5. Forgets(DataOf(e)) /\ (e.content = Empty => DataOf(e) = Blank)
  BY <1>4 DEF Forgets, DataOf, Blank
<1>6. /\ View(b1.sheet, e.name) = DataOf(e)
      /\ \A x \in Cell \ {e.name} : View(b1.sheet, x) = View(b.sheet, x)
  <2>1. CASE e.name \in DOMAIN b.sheet /\ e.content = Empty
    BY <1>5, <2>1 DEF UndoChange, View, Erase
  <2>2. CASE ~(e.name \in DOMAIN b.sheet /\ e.content = Empty)
    BY <2>2 DEF UndoChange, View, Put
  <2>3. QED
    BY <2>1, <2>2
<1>7. b.undo = Append(b1.undo, e)
  <2>1. /\ Append(b1.undo, e) \in Seq(UndoEntry)
        /\ Len(Append(b1.undo, e)) = Len(b1.undo) + 1
        /\ \A i \in 1..Len(b1.undo) : Append(b1.undo, e)[i] = b1.undo[i]
        /\ Append(b1.undo, e)[Len(b1.undo) + 1] = e
    BY <1>1, <1>2, AppendProperties
  <2> HIDE DEF e, b1, n
  <2>2. Len(b1.undo) = n - 1 /\ (n - 1) + 1 = n
    BY <1>1, <1>2
  <2>3. ASSUME NEW i \in 1..n PROVE b.undo[i] = Append(b1.undo, e)[i]
    <3>1. CASE i = n
      BY <1>1, <2>1, <2>2, <3>1
    <3>2. CASE i # n
      <4>1. i \in 1..n - 1
        BY <1>1, <3>2
      <4>2. QED
        BY <1>1, <1>2, <2>1, <2>2, <4>1
    <3>3. QED
      BY <3>1, <3>2
  <2>4. QED
    BY <1>1, <2>1, <2>2, <2>3, SeqEqual DEF n
<1>8. Forgetful(b1)
  <2>1. \A x \in DOMAIN b1.sheet : b1.sheet[x] = DataOf(e)
                                   \/ (x \in DOMAIN b.sheet /\ b1.sheet[x] = b.sheet[x])
    BY DEF UndoChange, Put, Erase
  <2>2. \A i \in DOMAIN b1.undo : i \in DOMAIN b.undo /\ b1.undo[i] = b.undo[i]
    BY <1>1, <1>2
  <2>3. QED
    BY <1>5, <2>1, <2>2 DEF Forgetful
<1>9. QED
  BY <1>1, <1>6, <1>7, <1>8 DEF Extends

-----------------------------------------------------------------------------
(* What the three requests do to the book and to its history.              *)

LEMMA EditHistory ==
  ASSUME NEW b \in Book, NEW c \in Cell, NEW text \in Content, Sound(b)
  PROVE  /\ Sound(SetCellContents(b, c, text))
         /\ HistoryOf(SetCellContents(b, c, text)) = HV!Edited(HistoryOf(b), c, text)
<1> DEFINE b2  == SetCellContents(b, c, text)
           old == View(b.sheet, c)
           e   == Entry(c, old)
           new == IF text = Empty THEN Blank ELSE [content |-> text, prev |-> old.content]
<1>1. b2 \in Book /\ old \in CellData
  BY SetCellContentsType, ViewType DEF Book
<1>2. e \in UndoEntry /\ e.name = c /\ DataOf(e) = old
  BY <1>1, EntryType
<1>3. Extends(b, b2, e) /\ View(b2.sheet, c) = new /\ Forgetful(b2)
  BY EditExtends DEF Sound
<1>4. OneRequestApart(old, new)
  BY DEF OneRequestApart
<1> HIDE DEF b2, old, e, new
<1>5. OneHistory(b2)
  BY <1>1, <1>2, <1>3, <1>4, PushKeepsHistory DEF Sound
<1>6. HistoryOf(b2).past = Append(HistoryOf(b).past, HistoryOf(b).current)
  BY <1>1, <1>2, <1>3, ExtendsHistory
<1>7. HistoryOf(b2).current = [HistoryOf(b).current EXCEPT ![c] = new]
  <2>1. /\ HistoryOf(b).current = [x \in Cell |-> View(b.sheet, x)]
        /\ HistoryOf(b2).current = [x \in Cell |-> View(b2.sheet, x)]
    BY <1>1, HistoryType
  <2>2. \A x \in Cell \ {c} : View(b.sheet, x) = View(b2.sheet, x)
    BY <1>2, <1>3 DEF Extends
  <2>3. QED
    BY <1>3, <2>1, <2>2
<1>8. new = IF text = Empty THEN HV!Blank
            ELSE [content |-> text, prev |-> HistoryOf(b).current[c].content]
  BY HistoryType DEF new, old, Blank, HV!Blank
<1>9. HistoryOf(b2) = [current |-> HistoryOf(b2).current, past |-> HistoryOf(b2).past]
  BY <1>1, HistoryType
<1>10. HistoryOf(b2) = HV!Edited(HistoryOf(b), c, text)
  BY <1>6, <1>7, <1>8, <1>9 DEF HV!Edited
<1>11. QED
  BY <1>3, <1>5, <1>10 DEF Sound, b2

LEMMA RevertHistory ==
  ASSUME NEW b \in Book, NEW c \in Cell, CanRevert(b, c), Sound(b)
  PROVE  /\ Sound(ProcessRevert(b, c))
         /\ HistoryOf(ProcessRevert(b, c)) = HV!Reverted(HistoryOf(b), c)
         /\ HistoryOf(b).current[c].content # HistoryOf(b).current[c].prev
<1> DEFINE b2  == ProcessRevert(b, c)
           old == View(b.sheet, c)
           e   == Entry(c, old)
           new == [content |-> old.prev, prev |-> old.prev]
<1>1. b2 \in Book /\ old \in CellData
  BY ProcessRevertType, ViewType DEF Book
<1>2. e \in UndoEntry /\ e.name = c /\ DataOf(e) = old
  BY <1>1, EntryType
<1>3. Extends(b, b2, e) /\ View(b2.sheet, c) = new /\ Forgetful(b2)
  BY RevertExtends DEF Sound
<1>4. OneRequestApart(old, new) /\ old.content # old.prev
  BY DEF OneRequestApart, CanRevert, View
<1>5. new = [content |-> HistoryOf(b).current[c].prev, prev |-> HistoryOf(b).current[c].prev]
      /\ HistoryOf(b).current[c] = old
  BY HistoryType
<1> HIDE DEF b2, old, e, new
<1>6. OneHistory(b2)
  BY <1>1, <1>2, <1>3, <1>4, PushKeepsHistory DEF Sound
<1>7. HistoryOf(b2).past = Append(HistoryOf(b).past, HistoryOf(b).current)
  BY <1>1, <1>2, <1>3, ExtendsHistory
<1>8. HistoryOf(b2).current = [HistoryOf(b).current EXCEPT ![c] = new]
  <2>1. /\ HistoryOf(b).current = [x \in Cell |-> View(b.sheet, x)]
        /\ HistoryOf(b2).current = [x \in Cell |-> View(b2.sheet, x)]
    BY <1>1, HistoryType
  <2>2. \A x \in Cell \ {c} : View(b.sheet, x) = View(b2.sheet, x)
    BY <1>2, <1>3 DEF Extends
  <2>3. QED
    BY <1>3, <2>1, <2>2
<1>9. HistoryOf(b2) = [current |-> HistoryOf(b2).current, past |-> HistoryOf(b2).past]
  BY <1>1, HistoryType
<1>10. HistoryOf(b2) = HV!Reverted(HistoryOf(b), c)
  BY <1>5, <1>7, <1>8, <1>9 DEF HV!Reverted
<1>11. QED
  BY <1>3, <1>4, <1>5, <1>6, <1>10 DEF Sound, b2

LEMMA UndoneHistory ==
  ASSUME NEW b \in Book, b.undo # << >>, Sound(b)
  PROVE  /\ Sound(UndoChange(b))
         /\ HistoryOf(UndoChange(b)) = HV!Undone(HistoryOf(b))
         /\ HistoryOf(b).past # << >>
<1> DEFINE b1 == UndoChange(b)
           e  == Last(b.undo)
           V  == [Cell -> CellData]
<1>1. b1 \in Book
  BY UndoChangeType
<1>2. e \in UndoEntry /\ Extends(b1, b, e) /\ Forgetful(b1)
  BY UndoExtends DEF Sound
<1> HIDE DEF b1, e
<1>3. OneHistory(b1)
  BY <1>1, <1>2, PopKeepsHistory DEF Sound
<1>4. HistoryOf(b).past = Append(HistoryOf(b1).past, HistoryOf(b1).current)
  BY <1>1, <1>2, ExtendsHistory
<1>5. /\ HistoryOf(b1).past \in Seq(V)
      /\ HistoryOf(b1).current \in V
      /\ HistoryOf(b1) = [current |-> HistoryOf(b1).current, past |-> HistoryOf(b1).past]
  BY <1>1, HistoryType
<1>6. ASSUME NEW s \in Seq(V), NEW v \in V
      PROVE  /\ Append(s, v) # << >>
             /\ Last(Append(s, v)) = v
             /\ Front(Append(s, v)) = s
  <2>1. /\ Append(s, v) \in Seq(V)
        /\ Append(s, v) # << >>
        /\ Len(Append(s, v)) = Len(s) + 1
        /\ \A i \in 1..Len(s) : Append(s, v)[i] = s[i]
        /\ Append(s, v)[Len(s) + 1] = v
    BY AppendProperties
  <2> DEFINE t == Append(s, v)
  <2> HIDE DEF t
  <2>2. /\ Last(t) = t[Len(t)]
        /\ Front(t) \in Seq(V)
        /\ Len(Front(t)) = Len(t) - 1
        /\ \A i \in 1..Len(t) - 1 : Front(t)[i] = t[i]
    BY <2>1, LastFront DEF t
  <2>3. Len(t) - 1 = Len(s) /\ Len(s) \in Nat
    BY <2>1 DEF t
  <2>4. Front(t) = s
    BY <2>1, <2>2, <2>3, SeqEqual DEF t
  <2>5. QED
    BY <2>1, <2>2, <2>4 DEF t
<1>7. HV!Undone(HistoryOf(b)) = [current |-> Last(HistoryOf(b).past),
                                 past    |-> Front(HistoryOf(b).past)]
  BY DEF HV!Undone, HV!Last, HV!Front, Last, Front
<1> HIDE DEF V
<1>8. HistoryOf(b1) = HV!Undone(HistoryOf(b)) /\ HistoryOf(b).past # << >>
  BY <1>4, <1>5, <1>6, <1>7
<1>9. QED
  BY <1>2, <1>3, <1>8 DEF Sound, b1

LEMMA OutcomesHistory ==
  ASSUME NEW b \in Book, Sound(b), NEW max, NEW next \in Outcomes(b, max)
  PROVE  /\ Sound(next)
         /\ HistoryOf(next) \in {HistoryOf(b)} \cup HV!Changes(HistoryOf(b))
<1> USE DEF HV!Changes
<1>1. CASE next = b
  BY <1>1
<1>2. CASE \E e \in Cell \X Content : next = SetCellContents(b, e[1], e[2])
  BY <1>2, EditHistory
<1>3. CASE \E c \in Cell : CanRevert(b, c) /\ next = ProcessRevert(b, c)
  BY <1>3, RevertHistory
<1>4. CASE b.undo # << >> /\ next = UndoChange(b)
  BY <1>4, UndoneHistory
<1>5. QED
  BY <1>1, <1>2, <1>3, <1>4 DEF Outcomes

-----------------------------------------------------------------------------
(* What an interrupted save leaves.                                        *)

LEMMA TornCells ==
  ASSUME NEW b \in Book, Sound(b), NEW names \in SUBSET DOMAIN b.sheet,
         NEW b2, b2 = Loaded([cells |-> Restrict(b.sheet, names), lines |-> << >>])
  PROVE  /\ b2 \in Book
         /\ Sound(b2)
         /\ HistoryOf(b2) = HV!Only(HistoryOf(b), names)
         /\ names \in SUBSET Cell
<1>1. DOMAIN b.sheet \subseteq Cell
  BY SheetElim DEF Book
<1>2. Restrict(b.sheet, names) \in Sheet /\ << >> \in Seq(UndoEntry)
  BY RestrictType DEF Book
<1>3. b2 = [sheet |-> Restrict(b.sheet, names), undo |-> Reverse(<< >>)]
  BY DEF Loaded
<1>4. b2.undo \in Seq(UndoEntry) /\ Len(b2.undo) = 0
  <2>1. Reverse(<< >>) \in Seq(UndoEntry) /\ Len(Reverse(<< >>)) = Len(<< >>)
    BY <1>2, ReverseType
  <2>2. QED
    BY <1>3, <2>1
<1>5. b2 \in Book
  BY <1>2, <1>3, <1>4 DEF Book
<1>6. DOMAIN b2.undo = {}
  BY <1>4
<1>7. b2.sheet = [c \in names |-> b.sheet[c]]
  <2>1. b2.sheet = Restrict(b.sheet, names)
    BY <1>3
  <2>2. Restrict(b.sheet, names) = [c \in names |-> b.sheet[c]]
    BY Zenon DEF Restrict
  <2>3. QED
    BY <2>1, <2>2, Zenon
<1>8. Sound(b2)
  <2>1. \A c \in names : b2.sheet[c] = b.sheet[c] /\ c \in DOMAIN b.sheet
    BY <1>7
  <2>2. DOMAIN b2.sheet = names
    BY <1>7
  <2>3. QED
    BY <1>6, <2>1, <2>2 DEF Sound, Forgetful, OneHistory
<1>9. HistoryOf(b2).past = << >>
  BY <1>4, <1>5, HistoryType, EmptySeq
<1>10. HistoryOf(b2).current = [c \in Cell |-> IF c \in names THEN HistoryOf(b).current[c] ELSE HV!Blank]
  <2>1. /\ HistoryOf(b).current = [c \in Cell |-> View(b.sheet, c)]
        /\ HistoryOf(b2).current = [c \in Cell |-> View(b2.sheet, c)]
    BY <1>5, HistoryType
  <2>2. \A c \in Cell : View(b2.sheet, c) = IF c \in names THEN View(b.sheet, c) ELSE HV!Blank
    BY <1>7 DEF View, Blank, HV!Blank
  <2>3. QED
    BY <2>1, <2>2
<1>11. HistoryOf(b2) = [current |-> HistoryOf(b2).current, past |-> HistoryOf(b2).past]
  BY <1>5, HistoryType
<1>12. QED
  BY <1>1, <1>5, <1>8, <1>9, <1>10, <1>11 DEF HV!Only

LEMMA TornLines ==
  ASSUME NEW b \in Book, Sound(b), NEW k \in 0..Len(b.undo),
         NEW b2, b2 = Loaded([cells |-> b.sheet, lines |-> SubSeq(Reverse(b.undo), 1, k)])
  PROVE  /\ b2 \in Book
         /\ Sound(b2)
         /\ HistoryOf(b2) = HV!Newest(HistoryOf(b), k)
<1> DEFINE n == Len(b.undo)
           u == b.undo
           r == Reverse(u)
           s == SubSeq(r, 1, k)
<1>1. u \in Seq(UndoEntry) /\ n \in Nat
  BY DEF Book
<1>2. r \in Seq(UndoEntry) /\ Len(r) = n /\ \A i \in 1..n : r[i] = u[n - i + 1]
  BY <1>1, ReverseType
<1> HIDE DEF n, r
<1>3. k \in Nat /\ k <= n
  BY <1>1 DEF n
<1>4. \A i \in 1..k : r[i] \in UndoEntry
  BY <1>1, <1>2, <1>3
<1>5. s \in Seq(UndoEntry) /\ Len(s) = k /\ \A i \in 1..k : s[i] = r[i]
  BY <1>3, <1>4
<1> HIDE DEF s
<1>6. /\ Reverse(s) \in Seq(UndoEntry)
      /\ Len(Reverse(s)) = k
      /\ \A i \in 1..k : Reverse(s)[i] = s[k - i + 1]
  BY <1>5, ReverseType
<1>7. b2 = [sheet |-> b.sheet, undo |-> Reverse(s)]
  BY DEF Loaded, s, r
<1>8. b2 \in Book
  BY <1>6, <1>7 DEF Book
<1> DEFINE d == n - k
<1>9. d \in 0..n /\ n - d = k
  BY <1>1, <1>3
<1>10. ASSUME NEW j \in 1..k PROVE Reverse(s)[j] = u[j + d] /\ j + d \in 1..n
  <2>1. k - j + 1 \in 1..k /\ k - j + 1 \in 1..n /\ n - (k - j + 1) + 1 = j + d
    BY <1>1, <1>3
  <2>2. Reverse(s)[j] = r[k - j + 1]
    BY <1>5, <1>6, <2>1
  <2>3. r[k - j + 1] = u[n - (k - j + 1) + 1]
    BY <1>2, <2>1
  <2>4. j + d \in 1..n
    BY <1>1, <1>3
  <2>5. QED
    BY <2>1, <2>2, <2>3, <2>4
<1> HIDE DEF d
<1>11. Shortens(b, b2, d)
  <2>1. b2.sheet = b.sheet /\ b2.undo = Reverse(s)
    BY <1>7
  <2>2. Len(b2.undo) = n - d
    BY <1>6, <1>9, <2>1
  <2>3. \A j \in 1..n - d : b2.undo[j] = u[j + d]
    BY <1>9, <1>10, <2>1
  <2>4. QED
    BY <2>1, <2>2, <2>3 DEF Shortens, n
<1>12. Sound(b2)
  <2>1. DOMAIN b2.undo = 1..k /\ DOMAIN b.undo = 1..n
    BY <1>1, <1>6, <1>7 DEF n
  <2>2. \A j \in 1..k : b2.undo[j] = b.undo[j + d] /\ j + d \in 1..n
    BY <1>7, <1>10
  <2>3. Forgetful(b2)
    BY <1>7, <2>1, <2>2 DEF Sound, Forgetful
  <2>4. \A i \in 1..k + 1 : ViewBefore(b2, i) = ViewBefore(b, i + d)
    BY <1>8, <1>9, <1>11, ShortensViews DEF n
  <2>5. ASSUME NEW j \in 1..k
        PROVE  OneRequestApart(DataOf(b2.undo[j]), ViewBefore(b2, j + 1)[b2.undo[j].name])
    <3>1. j + 1 \in 1..k + 1 /\ j + 1 + d = j + d + 1
      BY <1>1, <1>3, <1>9
    <3>2. ViewBefore(b2, j + 1) = ViewBefore(b, j + d + 1)
      BY <2>4, <3>1
    <3>3. OneRequestApart(DataOf(b.undo[j + d]), ViewBefore(b, j + d + 1)[b.undo[j + d].name])
      BY <2>1, <2>2 DEF Sound, OneHistory
    <3>4. QED
      BY <2>2, <3>2, <3>3
  <2>6. QED
    BY <2>1, <2>3, <2>5 DEF Sound, OneHistory
<1>13. /\ HistoryOf(b2).current = HistoryOf(b).current
       /\ HistoryOf(b2).past = SubSeq(HistoryOf(b).past, d + 1, Len(HistoryOf(b).past))
  BY <1>8, <1>9, <1>11, ShortensHistory DEF n
<1>14. Len(HistoryOf(b).past) = n
  BY HistoryType DEF n
<1>15. d + 1 = n - k + 1
  BY DEF d
<1>16. HistoryOf(b2) = [current |-> HistoryOf(b2).current, past |-> HistoryOf(b2).past]
  BY <1>8, HistoryType
<1>17. QED
  BY <1>8, <1>12, <1>13, <1>14, <1>15, <1>16 DEF HV!Newest

LEMMA TornHistory ==
  ASSUME NEW b \in Book, Sound(b), NEW f \in Torn(b)
  PROVE  Sound(Loaded(f)) /\ HistoryOf(Loaded(f)) \in HV!Remains(HistoryOf(b))
<1>1. Len(HistoryOf(b).past) = Len(b.undo)
  BY HistoryType
<1>2. CASE \E names \in SUBSET DOMAIN b.sheet :
             f = [cells |-> Restrict(b.sheet, names), lines |-> << >>]
  BY <1>2, TornCells DEF HV!Remains
<1>3. CASE \E k \in 0..Len(b.undo) :
             f = [cells |-> b.sheet, lines |-> SubSeq(Reverse(b.undo), 1, k)]
  BY <1>1, <1>3, TornLines DEF HV!Remains
<1>4. QED
  BY <1>2, <1>3 DEF Torn

\* A death between two requests leaves the whole history.
LEMMA NewestIsWhole ==
  ASSUME NEW b \in Book
  PROVE  HistoryOf(b) \in HV!Remains(HistoryOf(b))
<1> DEFINE h == HistoryOf(b)
           V == [Cell -> CellData]
<1>1. /\ h = [current |-> h.current, past |-> h.past]
      /\ h.past \in Seq(V)
  BY HistoryType
<1> HIDE DEF h, V
<1>2. PICK n \in Nat : n = Len(h.past)
  BY <1>1
<1>3. SubSeq(h.past, 1, n) = h.past
  BY <1>1, <1>2
<1>4. n - n + 1 = 1 /\ n \in 0..n
  BY <1>2
<1>5. HV!Newest(h, n) = h
  BY <1>1, <1>2, <1>3, <1>4 DEF HV!Newest
<1>6. QED
  BY <1>2, <1>4, <1>5 DEF HV!Remains, h

LEMMA EmptyBookSound ==
  /\ Sound(EmptyBook)
  /\ HistoryOf(EmptyBook) = [current |-> [c \in Cell |-> HV!Blank], past |-> << >>]
<1>1. DOMAIN EmptyBook.sheet = {} /\ DOMAIN EmptyBook.undo = {} /\ Len(EmptyBook.undo) = 0
  BY DEF EmptyBook
<1>2. Sound(EmptyBook)
  BY <1>1 DEF Sound, Forgetful, OneHistory
<1>3. \A c \in Cell : View(EmptyBook.sheet, c) = HV!Blank
  BY <1>1 DEF View, Blank, HV!Blank
<1>4. HistoryOf(EmptyBook).past = << >>
  BY <1>1, EmptyBookType, HistoryType, EmptySeq
<1>5. HistoryOf(EmptyBook).current = [c \in Cell |-> HV!Blank]
  BY <1>3, EmptyBookType, HistoryType
<1>6. QED
  BY <1>2, <1>4, <1>5, EmptyBookType, HistoryType

=============================================================================
