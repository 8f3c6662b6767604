---------------------------- MODULE ServerProofs ----------------------------
(***************************************************************************)
(* Proofs about Server, for any connections, names, sheets and texts.      *)
(***************************************************************************)
EXTENDS ServerHistories, SheetProofs, FiniteSetTheorems

-----------------------------------------------------------------------------
(* removeClient, when no two clients have the same user name.              *)

\* The rank of a number among those of 1..n that are not p.
LEMMA RankWithout ==
  ASSUME NEW n \in Nat, NEW p \in 1..n, NEW i \in (1..n) \ {p}
  PROVE  Cardinality({h \in (1..n) \ {p} : h <= i}) = IF i < p THEN i ELSE i - 1
<1>1. IsFiniteSet(1..i) /\ Cardinality(1..i) = i
  BY FS_Interval
<1>2. CASE i < p
  <2>1. {h \in (1..n) \ {p} : h <= i} = 1..i
    BY <1>2
  <2> QED
    BY <1>1, <1>2, <2>1
<1>3. CASE ~(i < p)
  <2>1. {h \in (1..n) \ {p} : h <= i} = (1..i) \ {p} /\ p \in 1..i
    BY <1>3
  <2>2. Cardinality((1..i) \ {p}) = i - 1
    BY <1>1, <2>1, FS_RemoveElement
  <2> QED
    BY <1>3, <2>1, <2>2
<1> QED
  BY <1>2, <1>3

\* The loop erases, of a name that one position has, that position.
LEMMA RemoveNamedIs ==
  ASSUME NEW list \in Seq(Conn), NEW p \in 1..Len(list), NEW name,
         user[list[p]] = name,
         \A i \in 1..Len(list) : i # p => user[list[i]] # name
  PROVE  LET rest == RemoveNamed(list, name)
         IN /\ rest \in Seq(Conn) /\ Len(rest) = Len(list) - 1
            /\ \A j \in 1..Len(list) - 1 : rest[j] = IF j < p THEN list[j] ELSE list[j + 1]
<1> DEFINE n == Len(list)
           Fate(f) == [i \in 0..n |-> IF i > 0 /\ user[list[i]] = name /\ f[i - 1] = "kept"
                                      THEN "erased" ELSE "kept"]
           fate == CHOOSE f : f = Fate(f)
           once == [i \in 0..n |-> IF i = p THEN "erased" ELSE "kept"]
           left == {i \in 1..n : fate[i] = "kept"}
<1>1. n \in Nat /\ p \in 1..n
  OBVIOUS
<1>2. once = Fate(once)
  OBVIOUS
<1>3. fate = Fate(fate)
  <2> HIDE DEF Fate
  <2> QED
    BY <1>2
<1> HIDE DEF fate, once
<1>4. left = (1..n) \ {p}
  <2>1. \A i \in 1..n : i # p => fate[i] = "kept"
    BY <1>3
  <2>2. fate[0] = "kept"
    BY <1>3
  <2>3. fate[p - 1] = "kept"
    BY <2>1, <2>2
  <2>4. fate[p] = "erased"
    BY <1>3, <2>3
  <2> QED
    BY <2>1, <2>4
<1>5. RemoveNamed(list, name) =
        [j \in 1..Cardinality(left) |-> list[CHOOSE i \in left : Cardinality({h \in left : h <= i}) = j]]
  BY DEF RemoveNamed, fate
<1> HIDE DEF left
<1>6. Cardinality(left) = n - 1
  <2>1. IsFiniteSet(1..n) /\ Cardinality(1..n) = n
    BY <1>1, FS_Interval
  <2> QED
    BY <1>1, <1>4, <2>1, FS_RemoveElement
<1>7. ASSUME NEW j \in 1..n - 1
      PROVE  (CHOOSE i \in left : Cardinality({h \in left : h <= i}) = j) = IF j < p THEN j ELSE j + 1
  <2> DEFINE at == IF j < p THEN j ELSE j + 1
  <2>1. at \in left
    BY <1>1, <1>4
  <2>2. \A i \in left : Cardinality({h \in left : h <= i}) = IF i < p THEN i ELSE i - 1
    BY <1>1, <1>4, RankWithout
  <2>3. \A i \in left : (IF i < p THEN i ELSE i - 1) = j <=> i = at
    BY <1>1, <1>4
  <2>4. \A i \in left : Cardinality({h \in left : h <= i}) = j <=> i = at
    BY <2>2, <2>3
  <2> HIDE DEF at
  <2>5. (CHOOSE i \in left : Cardinality({h \in left : h <= i}) = j) = at
    BY <2>1, <2>4
  <2> QED
    BY <2>5 DEF at
<1> DEFINE rest == RemoveNamed(list, name)
<1>8. rest = [j \in 1..n - 1 |-> IF j < p THEN list[j] ELSE list[j + 1]]
  <2> DEFINE pick(j) == CHOOSE i \in left : Cardinality({h \in left : h <= i}) = j
  <2>1. rest = [j \in 1..n - 1 |-> list[pick(j)]]
    BY <1>5, <1>6
  <2>2. \A j \in 1..n - 1 : pick(j) = IF j < p THEN j ELSE j + 1
    BY <1>7
  <2> HIDE DEF pick, rest
  <2>3. \A j \in 1..n - 1 : list[pick(j)] = IF j < p THEN list[j] ELSE list[j + 1]
    BY <2>2
  <2> QED
    BY <2>1, <2>3
<1> HIDE DEF rest
<1>9. n - 1 \in Nat /\ \A j \in 1..n - 1 : (IF j < p THEN list[j] ELSE list[j + 1]) \in Conn
  BY <1>1
<1>10. rest \in [1..n - 1 -> Conn]
  BY <1>8, <1>9
<1>11. rest \in Seq(Conn) /\ Len(rest) = n - 1
  <2> DEFINE m == n - 1
  <2>1. m \in Nat /\ rest \in [1..m -> Conn]
    BY <1>9, <1>10
  <2> HIDE DEF m
  <2>2. rest \in Seq(Conn) /\ Len(rest) = m
    BY <2>1
  <2> QED
    BY <2>2 DEF m
<1> QED
  BY <1>8, <1>11 DEF rest

-----------------------------------------------------------------------------
(* The texts of a sheet.                                                   *)

\* What a client of the book is to have been told.
Shown(b) == [c \in Cell |-> View(b.sheet, c).content]

\* All texts are texts.
LEMMA ShownType ==
  ASSUME NEW b \in Book
  PROVE  Shown(b) \in Texts
<1>1. \A c \in Cell : View(b.sheet, c) \in CellData
  BY ViewType DEF Book
<1> QED
  BY <1>1 DEF Shown, Texts, CellData

\* An accepted edit shows its text in its cell, and changes nothing else that
\* is shown.
LEMMA EditShows ==
  ASSUME NEW b \in Book, NEW c \in Cell, NEW text \in Content
  PROVE  Shown(SetCellContents(b, c, text)) = [Shown(b) EXCEPT ![c] = text]
<1> DEFINE next == SetCellContents(b, c, text)
<1>1. next.sheet = IF c \in DOMAIN b.sheet
                   THEN IF text = Empty
                        THEN Erase(b.sheet, c)
                        ELSE Put(b.sheet, c, [content |-> text, prev |-> View(b.sheet, c).content])
                   ELSE Put(b.sheet, c, [content |-> text, prev |-> Empty])
  BY DEF SetCellContents
<1> HIDE DEF next
<1>2. \A x \in Cell : View(next.sheet, x).content = IF x = c THEN text ELSE View(b.sheet, x).content
  BY <1>1 DEF View, Put, Erase, Blank
<1> QED
  BY <1>2 DEF Shown, next

\* A revert shows the previous text.
LEMMA RevertShows ==
  ASSUME NEW b \in Book, NEW c \in Cell, CanRevert(b, c)
  PROVE  Shown(ProcessRevert(b, c)) = [Shown(b) EXCEPT ![c] = b.sheet[c].prev]
<1> DEFINE next == ProcessRevert(b, c)
<1>1. next.sheet = Put(b.sheet, c, [content |-> b.sheet[c].prev, prev |-> b.sheet[c].prev])
  BY DEF ProcessRevert
<1> HIDE DEF next
<1>2. \A x \in Cell : View(next.sheet, x).content =
                        IF x = c THEN b.sheet[c].prev ELSE View(b.sheet, x).content
  BY <1>1 DEF View, Put
<1> QED
  BY <1>2 DEF Shown, next

\* An undo shows the text of the entry it takes off the stack.
LEMMA UndoShows ==
  ASSUME NEW b \in Book, b.undo # << >>
  PROVE  Shown(UndoChange(b)) = [Shown(b) EXCEPT ![Last(b.undo).name] = Last(b.undo).content]
<1> DEFINE next == UndoChange(b)
           top  == Last(b.undo)
<1>1. next.sheet = IF top.name \in DOMAIN b.sheet /\ top.content = Empty
                   THEN Erase(b.sheet, top.name)
                   ELSE Put(b.sheet, top.name, DataOf(top))
  BY DEF UndoChange
<1>2. top \in UndoEntry
  BY LastFront DEF Book
<1> HIDE DEF next, top
<1>3. DataOf(top).content = top.content
  BY DEF DataOf
<1>4. \A x \in Cell : View(next.sheet, x).content =
                        IF x = top.name THEN top.content ELSE View(b.sheet, x).content
  BY <1>1, <1>3 DEF View, Put, Erase, Blank
<1> QED
  BY <1>4 DEF Shown, next, top

-----------------------------------------------------------------------------
(* The files.                                                              *)

\* What a death leaves of a file can be loaded.
LEMMA TornIsLoaded ==
  ASSUME NEW b \in Book, NEW f \in Torn(b)
  PROVE  Loaded(f) \in Book
<1>1. b.sheet \in Sheet /\ b.undo \in Seq(UndoEntry)
  BY DEF Book
<1>2. f.cells \in Sheet /\ f.lines \in Seq(UndoEntry)
  <2>1. CASE \E names \in SUBSET DOMAIN b.sheet :
               f = [cells |-> Restrict(b.sheet, names), lines |-> << >>]
    BY <1>1, <2>1, RestrictType
  <2>2. CASE \E i \in 0..Len(b.undo) :
               f = [cells |-> b.sheet, lines |-> SubSeq(Reverse(b.undo), 1, i)]
    <3>1. Reverse(b.undo) \in Seq(UndoEntry) /\ Len(Reverse(b.undo)) = Len(b.undo)
      BY <1>1, ReverseType
    <3>2. \A i \in 0..Len(b.undo) : SubSeq(Reverse(b.undo), 1, i) \in Seq(UndoEntry)
      BY <3>1
    <3> QED
      BY <1>1, <2>2, <3>2
  <2> QED
    BY <2>1, <2>2 DEF Torn
<1>3. Reverse(f.lines) \in Seq(UndoEntry)
  BY <1>2, ReverseType
<1> QED
  BY <1>2, <1>3 DEF Loaded, Book

\* So is what a name without a file stands for.
LEMMA FromFileType ==
  ASSUME Held, NEW n
  PROVE  FromFile(n) \in Book
  BY EmptyBookType DEF FromFile, Held

-----------------------------------------------------------------------------
(* The types, and the files that are served.                               *)

\* Connections are made of a running process, and edit sheets it has.
Linked ==
  /\ ~up => \A k \in Conn : stage[k] = "absent"
  /\ \A k \in Conn : stage[k] = "editing" => sheetOf[k] \in DOMAIN books

Basic == Held /\ Linked /\ PlainFilesAreServed

\* The fields of an absent connection have their types.
LEMMA AbsentTypes == AnyUser \in User /\ AnySheet \in SheetName /\ NoTexts \in Texts
<1>1. AnyUser \in User /\ AnySheet \in SheetName
  BY ServerAssumption, Zenon DEF AnyUser, AnySheet
<1>2. NoTexts \in Texts
  BY ContentAssumption DEF NoTexts, Texts
<1> QED
  BY <1>1, <1>2

\* A process that has ended leaves nothing but files.
LEMMA ForgottenIsBasic ==
  ASSUME Forgotten,
         DOMAIN files' \subseteq SheetName, \A n \in DOMAIN files' : Loaded(files'[n]) \in Book
  PROVE  Basic'
<1>1. Held'
  <2>1. DOMAIN books' = {} /\ DOMAIN sockets' = {}
    BY DEF Forgotten
  <2>2. MaxId \in Nat
    BY ServerAssumption
  <2>3. id' \in [Conn -> 0..MaxId] /\ idCounter' \in 1..(MaxId + 1)
    BY <2>2 DEF Forgotten
  <2>4. user' \in [Conn -> User] /\ sheetOf' \in [Conn -> SheetName] /\ told' \in [Conn -> Texts]
    BY AbsentTypes DEF Forgotten
  <2>5. stage' \in [Conn -> Stages] /\ up' \in BOOLEAN
    BY DEF Forgotten, Stages
  <2> QED
    BY <2>1, <2>3, <2>4, <2>5 DEF Held
<1> QED
  BY <1>1 DEF Basic, Forgotten, Linked, PlainFilesAreServed

\* Before the first start, that is nothing at all.
LEMMA InitIsBasic == Init => Basic
<1> SUFFICES ASSUME Init
             PROVE  Basic
  OBVIOUS
<1>1. Held
  <2>1. DOMAIN books = {} /\ DOMAIN sockets = {} /\ DOMAIN files = {}
    BY DEF Init
  <2>2. MaxId \in Nat
    BY ServerAssumption
  <2>3. id \in [Conn -> 0..MaxId] /\ idCounter \in 1..(MaxId + 1)
    BY <2>2 DEF Init
  <2>4. user \in [Conn -> User] /\ sheetOf \in [Conn -> SheetName] /\ told \in [Conn -> Texts]
    BY AbsentTypes DEF Init
  <2>5. stage \in [Conn -> Stages] /\ up \in BOOLEAN
    BY DEF Init, Stages
  <2> QED
    BY <2>1, <2>3, <2>4, <2>5 DEF Held
<1> QED
  BY <1>1 DEF Basic, Init, Linked, PlainFilesAreServed

\* Storing a book saves it under the name it is served by.
LEMMA StoreIsBasic ==
  ASSUME Basic, NEW k \in Conn, stage[k] = "editing", NEW next \in Book, Store(k, next),
         told' \in [Conn -> Texts]
  PROVE  Basic'
<1>1. sheetOf[k] \in DOMAIN books /\ sheetOf[k] \in SheetName
  BY DEF Basic, Linked, Held
<1>2. /\ books' = [books EXCEPT ![sheetOf[k]] = next]
      /\ files' = [n \in DOMAIN files \cup {sheetOf[k]} |->
                     IF n = sheetOf[k] THEN Saved(next) ELSE files[n]]
      /\ up' = up /\ sockets' = sockets /\ stage' = stage /\ user' = user
      /\ sheetOf' = sheetOf /\ id' = id /\ idCounter' = idCounter
  BY DEF Store, conns
<1>3. Loaded(Saved(next)) = next
  BY LoadInvertsSave
<1>4. /\ DOMAIN books' = DOMAIN books
      /\ \A n \in DOMAIN books : books'[n] = IF n = sheetOf[k] THEN next ELSE books[n]
      /\ DOMAIN files' = DOMAIN files \cup {sheetOf[k]}
      /\ \A n \in DOMAIN files' : files'[n] = IF n = sheetOf[k] THEN Saved(next) ELSE files[n]
  BY <1>2
<1>5. Held'
  BY <1>1, <1>2, <1>3, <1>4 DEF Basic, Held
<1>6. Linked'
  BY <1>2, <1>4 DEF Basic, Linked
<1>7. PlainFilesAreServed'
  BY <1>1, <1>2, <1>3, <1>4 DEF Basic, PlainFilesAreServed, Served
<1> QED
  BY <1>5, <1>6, <1>7 DEF Basic

\* What a broadcast says is text.
LEMMA UpdateIsText ==
  ASSUME told \in [Conn -> Texts], NEW k \in Conn, NEW c \in Cell, NEW text \in Content,
         SendCellUpdate(k, c, text)
  PROVE  told' \in [Conn -> Texts]
  BY DEF SendCellUpdate, Texts

\* The requests: each stores a book, and sends a text or none.
LEMMA RequestStores ==
  ASSUME Basic, NEW k \in Conn,
         \/ \E c \in Cell, text \in Content : EditCell(k, c, text)
         \/ \E c \in Cell : RevertCell(k, c)
         \/ Undo(k)
  PROVE  /\ stage[k] = "editing"
         /\ \E next \in Book, c \in Cell, text \in Content :
              /\ Store(k, next)
              /\ Shown(next) = [Shown(BookOf(k)) EXCEPT ![c] = text]
              /\ SendCellUpdate(k, c, text)
<1>1. stage[k] = "editing"
  BY DEF EditCell, RevertCell, Undo
<1>2. BookOf(k) \in Book
  BY <1>1 DEF Basic, Linked, Held, BookOf
<1>3. ASSUME NEW c \in Cell, NEW text \in Content, EditCell(k, c, text)
      PROVE  \E next \in Book :
               /\ Store(k, next)
               /\ Shown(next) = [Shown(BookOf(k)) EXCEPT ![c] = text]
               /\ SendCellUpdate(k, c, text)
  BY <1>2, <1>3, SetCellContentsType, EditShows DEF EditCell
<1>4. ASSUME NEW c \in Cell, RevertCell(k, c)
      PROVE  \E next \in Book, text \in Content :
               /\ Store(k, next)
               /\ Shown(next) = [Shown(BookOf(k)) EXCEPT ![c] = text]
               /\ SendCellUpdate(k, c, text)
  <2> DEFINE text == BookOf(k).sheet[c].prev
             next == ProcessRevert(BookOf(k), c)
  <2>1. CanRevert(BookOf(k), c) /\ Store(k, next) /\ SendCellUpdate(k, c, text)
    BY <1>4 DEF RevertCell
  <2>2. text \in Content
    <3>1. BookOf(k).sheet \in Sheet /\ c \in DOMAIN BookOf(k).sheet
      BY <1>2, <2>1 DEF Book, CanRevert
    <3>2. BookOf(k).sheet[c] \in CellData
      BY <3>1, SheetElim
    <3> QED
      BY <3>2 DEF CellData
  <2>3. next \in Book /\ Shown(next) = [Shown(BookOf(k)) EXCEPT ![c] = text]
    BY <1>2, <2>1, ProcessRevertType, RevertShows
  <2> QED
    BY <2>1, <2>2, <2>3
<1>5. ASSUME Undo(k)
      PROVE  \E next \in Book, c \in Cell, text \in Content :
               /\ Store(k, next)
               /\ Shown(next) = [Shown(BookOf(k)) EXCEPT ![c] = text]
               /\ SendCellUpdate(k, c, text)
  <2> DEFINE top == Last(BookOf(k).undo)
             next == UndoChange(BookOf(k))
  <2>1. BookOf(k).undo # << >> /\ Store(k, next) /\ SendCellUpdate(k, top.name, top.content)
    BY <1>5 DEF Undo
  <2>2. top.name \in Cell /\ top.content \in Content
    <3>1. top \in UndoEntry
      BY <1>2, <2>1, LastFront DEF Book
    <3> QED
      BY <3>1 DEF UndoEntry
  <2>3. next \in Book /\ Shown(next) = [Shown(BookOf(k)) EXCEPT ![top.name] = top.content]
    BY <1>2, <2>1, UndoChangeType, UndoShows
  <2> QED
    BY <2>1, <2>2, <2>3
<1> QED
  BY <1>1, <1>3, <1>4, <1>5

\* start serves every file whose name has no space.
LEMMA StartIsBasic == ASSUME Basic, Start PROVE Basic'
<1>1. /\ Held /\ ~up /\ up' = TRUE
      /\ books' = [n \in {Strip[m] : m \in DOMAIN files} |-> FromFile(n)]
      /\ sockets' = [n \in DOMAIN books' |-> << >>]
      /\ files' = files /\ stage' = stage /\ user' = user /\ sheetOf' = sheetOf /\ id' = id
      /\ idCounter' = idCounter /\ told' = told
  BY DEF Basic, Start, conns
<1>2. DOMAIN books' \subseteq SheetName
  BY <1>1, ServerAssumption DEF Held
<1>3. \A n \in DOMAIN books' : books'[n] \in Book
  BY <1>1, FromFileType
<1>4. DOMAIN sockets' = DOMAIN books'
  BY <1>1
<1>5. Held'
  BY <1>1, <1>2, <1>3, <1>4 DEF Held
<1>6. Linked'
  BY <1>1 DEF Basic, Linked
<1>7. PlainFilesAreServed'
  BY <1>1 DEF PlainFilesAreServed, Served, FromFile
<1> QED
  BY <1>5, <1>6, <1>7 DEF Basic

\* Whenever the process dies, its files can be loaded.
LEMMA KillIsBasic == ASSUME Basic, Kill PROVE Basic'
<1>1. Forgotten /\ Held
  BY DEF Basic, Kill
<1>2. CASE UNCHANGED files
  BY <1>1, <1>2, ForgottenIsBasic DEF Held
<1>3. ASSUME NEW k \in Conn, stage[k] = "editing",
             NEW next \in Outcomes(books[sheetOf[k]], MaxUndo), NEW torn \in Torn(next),
             files' = [n \in DOMAIN files \cup {sheetOf[k]} |->
                         IF n = sheetOf[k] THEN torn ELSE files[n]]
      PROVE  Basic'
  <2>1. books[sheetOf[k]] \in Book /\ sheetOf[k] \in SheetName
    BY <1>3 DEF Basic, Linked, Held
  <2>2. Loaded(torn) \in Book
    BY <2>1, OutcomesType, TornIsLoaded
  <2>3. DOMAIN files' \subseteq SheetName /\ \A n \in DOMAIN files' : Loaded(files'[n]) \in Book
    BY <1>1, <1>3, <2>1, <2>2 DEF Held
  <2> QED
    BY <1>1, <2>3, ForgottenIsBasic
<1> QED
  BY <1>2, <1>3 DEF Kill

\* What createSpreadsheet and setClient open.
LEMMA OpenedType ==
  ASSUME Held, NEW name \in SheetName
  PROVE  /\ DOMAIN Opened(name) \subseteq SheetName /\ name \in DOMAIN Opened(name)
         /\ DOMAIN books \subseteq DOMAIN Opened(name)
         /\ \A n \in DOMAIN books : Opened(name)[n] = books[n]
         /\ \A n \in DOMAIN Opened(name) : Opened(name)[n] \in Book
<1>1. CASE name \in DOMAIN books
  BY <1>1 DEF Opened, Held
<1>2. CASE name \notin DOMAIN books
  <2>1. /\ DOMAIN Opened(name) = DOMAIN books \cup {Strip[name], name}
        /\ \A n \in DOMAIN Opened(name) :
             Opened(name)[n] = IF n \in DOMAIN books THEN books[n]
                               ELSE IF n = Strip[name] THEN FromFile(n)
                               ELSE EmptyBook
    BY <1>2 DEF Opened
  <2>2. Strip[name] \in SheetName
    BY ServerAssumption
  <2>3. \A n : FromFile(n) \in Book
    BY FromFileType
  <2> QED
    BY <2>1, <2>2, <2>3, EmptyBookType DEF Held
<1> QED
  BY <1>1, <1>2

\* Choosing a sheet opens it, and closes none.
LEMMA ChooseIsBasic ==
  ASSUME Basic, NEW k \in Conn, NEW name \in SheetName, ChooseSheet(k, name)
  PROVE  Basic'
<1>1. /\ Held /\ stage[k] = "named" /\ idCounter <= MaxId
      /\ id' = [id EXCEPT ![k] = idCounter] /\ idCounter' = idCounter + 1
      /\ books' = Opened(name)
      /\ told' = [told EXCEPT ![k] = Shown(books'[name])]
      /\ sheetOf' = [sheetOf EXCEPT ![k] = name]
      /\ stage' = [stage EXCEPT ![k] = "editing"]
      /\ up' = up /\ files' = files /\ user' = user
  BY DEF Basic, ChooseSheet, Shown
<1>2. /\ DOMAIN books' \subseteq SheetName /\ name \in DOMAIN books'
      /\ DOMAIN books \subseteq DOMAIN books'
      /\ \A n \in DOMAIN books : books'[n] = books[n]
      /\ \A n \in DOMAIN books' : books'[n] \in Book
  BY <1>1, OpenedType
<1>3. up
  BY <1>1 DEF Basic, Linked
<1>4. DOMAIN sockets' = DOMAIN books'
  BY DEF ChooseSheet
<1>5. told' \in [Conn -> Texts]
  BY <1>1, <1>2, ShownType DEF Held
<1>6. id' \in [Conn -> 0..MaxId] /\ idCounter' \in 1..(MaxId + 1)
  BY <1>1, ServerAssumption DEF Held
<1>7. Held'
  BY <1>1, <1>2, <1>4, <1>5, <1>6 DEF Held, Stages
<1>8. Linked'
  BY <1>1, <1>2, <1>3 DEF Basic, Linked, Held
<1>9. PlainFilesAreServed'
  BY <1>1, <1>2, <1>3 DEF Basic, PlainFilesAreServed, Served
<1> QED
  BY <1>7, <1>8, <1>9 DEF Basic

\* A client leaves the sheets and the files as they are.
LEMMA DisconnectIsBasic ==
  ASSUME Basic, NEW k \in Conn, Disconnect(k)
  PROVE  Basic'
<1>1. /\ Held
      /\ stage' = [stage EXCEPT ![k] = "absent"] /\ told' = [told EXCEPT ![k] = NoTexts]
      /\ DOMAIN sockets' = DOMAIN sockets
      /\ up' = up /\ books' = books /\ files' = files /\ user' = user
      /\ sheetOf' = sheetOf /\ id' = id /\ idCounter' = idCounter
  BY DEF Basic, Disconnect
<1>2. Held'
  BY <1>1, AbsentTypes DEF Held, Stages
<1>3. Linked' /\ PlainFilesAreServed'
  BY <1>1 DEF Basic, Held, Linked, PlainFilesAreServed, Served
<1> QED
  BY <1>2, <1>3 DEF Basic

\* No step breaks any of it.
LEMMA StepIsBasic == Basic /\ [Next]_vars => Basic'
<1> SUFFICES ASSUME Basic, [Next]_vars
             PROVE  Basic'
  OBVIOUS
<1>0. Held
  BY DEF Basic
<1>1. ASSUME NEW k \in Conn, Accept(k) \/ SendName(k)
      PROVE  Basic'
  <2>1. /\ up' = up /\ books' = books /\ DOMAIN sockets' = DOMAIN sockets /\ files' = files
        /\ sheetOf' = sheetOf /\ id' = id /\ idCounter' = idCounter /\ told' = told
        /\ user' \in [Conn -> User]
        /\ stage' \in [Conn -> Stages]
        /\ \A j \in Conn : stage'[j] = "editing" => stage[j] = "editing"
        /\ up
    BY <1>0, <1>1, ServerAssumption DEF Accept, SendName, Held, Stages, Basic, Linked
  <2>2. Held'
    BY <1>0, <2>1 DEF Held
  <2>3. Linked' /\ PlainFilesAreServed'
    BY <2>1 DEF Basic, Linked, PlainFilesAreServed, Served
  <2> QED
    BY <2>2, <2>3 DEF Basic
<1>2. ASSUME NEW k \in Conn,
             \/ \E c \in Cell, text \in Content : EditCell(k, c, text)
             \/ \E c \in Cell : RevertCell(k, c)
             \/ Undo(k)
      PROVE  Basic'
  <2>1. PICK next \in Book, c \in Cell, text \in Content : Store(k, next) /\ SendCellUpdate(k, c, text)
    BY <1>2, RequestStores
  <2>2. stage[k] = "editing"
    BY <1>2, RequestStores
  <2>3. told' \in [Conn -> Texts]
    BY <1>0, <2>1, UpdateIsText DEF Held
  <2> QED
    BY <2>1, <2>2, <2>3, StoreIsBasic
<1>3. ASSUME NEW k \in Conn, Unchanging(k)
      PROVE  Basic'
  <2>1. stage[k] = "editing" /\ Store(k, BookOf(k)) /\ told' = told
    BY <1>3 DEF Unchanging
  <2>2. BookOf(k) \in Book
    BY <2>1 DEF Basic, Linked, Held, BookOf
  <2> QED
    BY <1>0, <2>1, <2>2, StoreIsBasic DEF Held
<1>4. ASSUME NEW k \in Conn, NEW c \in Cell, NEW text \in Content, EditThrows(k, c, text)
      PROVE  Basic'
  BY <1>0, <1>4, ForgottenIsBasic DEF EditThrows, Held
<1>5. CASE UNCHANGED vars
  BY <1>0, <1>5 DEF vars, conns, Basic, Held, Linked, PlainFilesAreServed, Served
<1> QED
  BY <1>1, <1>2, <1>3, <1>4, <1>5, StartIsBasic, KillIsBasic, ChooseIsBasic, DisconnectIsBasic
  DEF Next

\* All of it holds of every server.
LEMMA AlwaysBasic == Spec => []Basic
  BY InitIsBasic, StepIsBasic, PTL DEF Spec

\* With any connections, user names and sheets, every file whose name has no
\* space is the state of the running server's sheet of that name, after any
\* number of deaths and restarts (server.cpp:20-60).
THEOREM FilesServed == Spec => []PlainFilesAreServed
<1>1. Basic => PlainFilesAreServed
  BY DEF Basic
<1> QED
  BY <1>1, AlwaysBasic, PTL

-----------------------------------------------------------------------------
(* The subscriptions and what the clients are told, when no two clients    *)
(* have the same user name.                                                *)

DistinctNames == \A j, k \in Conn : j # k => UserNames[j] \cap UserNames[k] = {}

Lists == \A n \in DOMAIN sockets : sockets[n] \in Seq(Conn)

Named == \A k \in Conn : stage[k] \in {"named", "editing"} => user[k] \in UserNames[k]

\* Every client that sends requests is among the sockets of its sheet.
Subscribed ==
  \A k \in Conn : stage[k] = "editing" =>
    \E i \in DOMAIN sockets[sheetOf[k]] : sockets[sheetOf[k]][i] = k

\* The sockets of a sheet are clients that send requests to it, each once.
OnlyEditors ==
  \A n \in DOMAIN sockets :
    \A i \in DOMAIN sockets[n] :
      /\ stage[sockets[n][i]] = "editing" /\ sheetOf[sockets[n][i]] = n
      /\ \A j \in DOMAIN sockets[n] : sockets[n][i] = sockets[n][j] => i = j

Audience == Basic /\ Lists /\ Named /\ Subscribed /\ OnlyEditors /\ EditorsAreCurrent

\* Where nobody is connected, nobody is told anything.
LEMMA NobodyIsAudience ==
  ASSUME Basic, \A k \in Conn : stage[k] = "absent", \A n \in DOMAIN sockets : sockets[n] = << >>
  PROVE  Audience
<1>1. << >> \in Seq(Conn) /\ DOMAIN << >> = {}
  OBVIOUS
<1> QED
  BY <1>1 DEF Audience, Lists, Named, Subscribed, OnlyEditors, EditorsAreCurrent

\* So it is after a death.
LEMMA ForgottenIsAudience == ASSUME Basic', Forgotten PROVE Audience'
<1>1. (\A k \in Conn : stage[k] = "absent")' /\ (\A n \in DOMAIN sockets : sockets[n] = << >>)'
  BY DEF Forgotten
<1>2. << >> \in Seq(Conn) /\ DOMAIN << >> = {}
  OBVIOUS
<1> QED
  BY <1>1, <1>2 DEF Audience, Lists, Named, Subscribed, OnlyEditors, EditorsAreCurrent

\* And after a start.
LEMMA StartIsAudience == ASSUME Audience, Basic', Start PROVE Audience'
<1>1. (\A k \in Conn : stage[k] = "absent")' /\ (\A n \in DOMAIN sockets : sockets[n] = << >>)'
  BY DEF Start, Audience, Basic, Linked, conns
<1>2. << >> \in Seq(Conn) /\ DOMAIN << >> = {}
  OBVIOUS
<1> QED
  BY <1>1, <1>2 DEF Audience, Lists, Named, Subscribed, OnlyEditors, EditorsAreCurrent

\* The first steps of the handshake are of connections no sheet sends to.
LEMMA GreetIsAudience ==
  ASSUME Audience, Basic', NEW k \in Conn, Accept(k) \/ SendName(k)
  PROVE  Audience'
<1>1. /\ books' = books /\ sockets' = sockets /\ sheetOf' = sheetOf /\ told' = told
      /\ stage[k] # "editing" /\ stage'[k] # "editing"
      /\ \A j \in Conn \ {k} : stage'[j] = stage[j] /\ user'[j] = user[j]
      /\ stage'[k] = "named" => user'[k] \in UserNames[k]
  BY DEF Accept, SendName, Audience, Basic, Held
<1>2. \A j \in Conn : stage'[j] = "editing" <=> stage[j] = "editing"
  BY <1>1
<1>3. Lists' /\ Subscribed' /\ Named'
  BY <1>1, <1>2 DEF Audience, Lists, Subscribed, Named
<1>4. OnlyEditors'
  <2>1. \A n \in DOMAIN sockets : \A i \in DOMAIN sockets[n] : sockets[n][i] \in Conn
    BY DEF Audience, Lists
  <2> QED
    BY <1>1, <1>2, <2>1 DEF Audience, OnlyEditors
<1>5. EditorsAreCurrent'
  BY <1>1, <1>2 DEF Audience, EditorsAreCurrent, BookOf
<1> QED
  BY <1>3, <1>4, <1>5 DEF Audience

\* addClient sends the whole sheet, and adds one socket.
LEMMA ChooseIsAudience ==
  ASSUME Audience, Basic', NEW k \in Conn, NEW name \in SheetName, ChooseSheet(k, name)
  PROVE  Audience'
<1>1. /\ Held /\ Lists /\ Named /\ Subscribed /\ OnlyEditors /\ EditorsAreCurrent
  BY DEF Audience, Basic
<1>2. /\ stage[k] = "named"
      /\ sockets' = [n \in DOMAIN books' |->
                      LET old == IF n \in DOMAIN sockets THEN sockets[n] ELSE << >>
                      IN IF n = name THEN Append(old, k) ELSE old]
      /\ told'[k] = Shown(books'[name]) /\ sheetOf'[k] = name /\ stage'[k] = "editing"
      /\ \A j \in Conn \ {k} : told'[j] = told[j] /\ sheetOf'[j] = sheetOf[j] /\ stage'[j] = stage[j]
      /\ user' = user
  BY <1>1 DEF ChooseSheet, Shown, Held
<1>3. /\ DOMAIN books \subseteq DOMAIN books' /\ name \in DOMAIN books'
      /\ \A n \in DOMAIN books : books'[n] = books[n]
  BY <1>1, OpenedType DEF ChooseSheet
<1>4. DOMAIN sockets = DOMAIN books /\ DOMAIN sockets' = DOMAIN books'
  BY <1>1, <1>2 DEF Held
<1> DEFINE old(n) == IF n \in DOMAIN sockets THEN sockets[n] ELSE << >>
<1>5. \A n : old(n) \in Seq(Conn)
  <2>1. << >> \in Seq(Conn)
    OBVIOUS
  <2> QED
    BY <1>1, <2>1 DEF Lists
<1>6. \A n \in DOMAIN sockets' : sockets'[n] = IF n = name THEN Append(old(n), k) ELSE old(n)
  BY <1>2, <1>4
<1>7. \A n : \A i \in 1..Len(old(n)) :
        /\ stage[old(n)[i]] = "editing" /\ sheetOf[old(n)[i]] = n /\ old(n)[i] \in Conn \ {k}
        /\ \A j \in 1..Len(old(n)) : old(n)[i] = old(n)[j] => i = j
  <2> SUFFICES ASSUME NEW n, NEW i \in 1..Len(old(n))
               PROVE  /\ stage[old(n)[i]] = "editing" /\ sheetOf[old(n)[i]] = n
                      /\ old(n)[i] \in Conn \ {k}
                      /\ \A j \in 1..Len(old(n)) : old(n)[i] = old(n)[j] => i = j
    OBVIOUS
  <2>1. CASE n \in DOMAIN sockets
    <3>1. old(n) = sockets[n] /\ sockets[n] \in Seq(Conn) /\ i \in DOMAIN sockets[n]
      BY <1>1, <2>1 DEF Lists
    <3>2. /\ stage[sockets[n][i]] = "editing" /\ sheetOf[sockets[n][i]] = n
          /\ \A j \in DOMAIN sockets[n] : sockets[n][i] = sockets[n][j] => i = j
      BY <1>1, <2>1, <3>1 DEF OnlyEditors
    <3>3. sockets[n][i] \in Conn \ {k}
      BY <1>2, <3>1, <3>2
    <3> QED
      BY <3>1, <3>2, <3>3
  <2>2. CASE n \notin DOMAIN sockets
    <3>1. old(n) = << >>
      BY <2>2
    <3>2. 1..Len(<< >>) = {}
      OBVIOUS
    <3> QED
      BY <3>1, <3>2
  <2> QED
    BY <2>1, <2>2
<1> HIDE DEF old
<1>8. Lists'
  BY <1>5, <1>6 DEF Lists
<1>9. Named'
  BY <1>1, <1>2 DEF Named
<1>10. Subscribed'
  <2> SUFFICES ASSUME NEW j \in Conn, stage'[j] = "editing"
               PROVE  \E i \in DOMAIN sockets'[sheetOf'[j]] : sockets'[sheetOf'[j]][i] = j
    BY DEF Subscribed
  <2>1. CASE j = k
    <3>1. sockets'[name] = Append(old(name), k) /\ sheetOf'[j] = name
      BY <1>2, <1>3, <1>4, <1>6, <2>1
    <3>2. /\ Len(old(name)) + 1 \in DOMAIN Append(old(name), k)
          /\ Append(old(name), k)[Len(old(name)) + 1] = k
      BY <1>5
    <3> QED
      BY <2>1, <3>1, <3>2
  <2>2. CASE j # k
    <3> DEFINE n == sheetOf[j]
    <3>1. stage[j] = "editing" /\ sheetOf'[j] = n /\ n \in DOMAIN books
      BY <1>2, <2>2 DEF Audience, Basic, Linked
    <3>2. PICK i \in DOMAIN sockets[n] : sockets[n][i] = j
      BY <1>1, <3>1 DEF Subscribed
    <3>3. old(n) = sockets[n] /\ n \in DOMAIN sockets'
      BY <1>3, <1>4, <3>1 DEF old
    <3>4. i \in DOMAIN Append(old(n), k) /\ Append(old(n), k)[i] = j
      BY <1>5, <3>2, <3>3
    <3>5. i \in DOMAIN sockets'[n] /\ sockets'[n][i] = j
      BY <1>6, <3>2, <3>3, <3>4
    <3> QED
      BY <3>1, <3>5
  <2> QED
    BY <2>1, <2>2
<1>11. OnlyEditors'
  <2> SUFFICES ASSUME NEW n \in DOMAIN sockets', NEW i \in DOMAIN sockets'[n]
               PROVE  /\ stage'[sockets'[n][i]] = "editing" /\ sheetOf'[sockets'[n][i]] = n
                      /\ \A j \in DOMAIN sockets'[n] : sockets'[n][i] = sockets'[n][j] => i = j
    BY DEF OnlyEditors
  <2>1. old(n) \in Seq(Conn)
    BY <1>5
  <2>2. CASE n = name
    <3>1. sockets'[n] = Append(old(n), k)
      BY <1>6, <2>2
    <3>2. /\ DOMAIN sockets'[n] = 1..Len(old(n)) + 1 /\ Len(old(n)) \in Nat
          /\ \A j \in 1..Len(old(n)) : sockets'[n][j] = old(n)[j]
          /\ sockets'[n][Len(old(n)) + 1] = k
      BY <2>1, <3>1
    <3> DEFINE m == Len(old(n))
               list == sockets'[n]
    <3>3. \A j \in 1..m : /\ stage[list[j]] = "editing" /\ sheetOf[list[j]] = n /\ list[j] \in Conn \ {k}
                          /\ \A h \in 1..m : list[j] = list[h] => j = h
      BY <1>7, <3>2
    <3>4. m \in Nat /\ DOMAIN list = 1..m + 1 /\ list[m + 1] = k /\ i \in 1..m + 1
      BY <3>2
    <3> HIDE DEF m, list
    <3>5. \A j \in 1..m + 1 : list[i] = list[j] => i = j
      BY <3>3, <3>4
    <3>6. stage'[list[i]] = "editing" /\ sheetOf'[list[i]] = n
      BY <1>2, <2>2, <3>3, <3>4
    <3>7. \A j \in DOMAIN list : list[i] = list[j] => i = j
      BY <3>4, <3>5
    <3>8. list = sockets'[n]
      BY DEF list
    <3> QED
      BY <3>6, <3>7, <3>8
  <2>3. CASE n # name
    <3>1. sockets'[n] = old(n) /\ DOMAIN old(n) = 1..Len(old(n))
      BY <1>6, <2>1, <2>3
    <3>2. /\ stage[old(n)[i]] = "editing" /\ sheetOf[old(n)[i]] = n /\ old(n)[i] \in Conn \ {k}
          /\ \A j \in DOMAIN old(n) : old(n)[i] = old(n)[j] => i = j
      BY <1>7, <3>1
    <3>3. stage'[old(n)[i]] = "editing" /\ sheetOf'[old(n)[i]] = n
      BY <1>2, <3>2
    <3> QED
      BY <3>1, <3>2, <3>3
  <2> QED
    BY <2>2, <2>3
<1>12. EditorsAreCurrent'
  <2> SUFFICES ASSUME NEW j \in Conn, stage'[j] = "editing"
               PROVE  told'[j] = Shown(books'[sheetOf'[j]])
    BY DEF EditorsAreCurrent, BookOf, Shown
  <2>1. CASE j = k
    BY <1>2, <2>1
  <2>2. CASE j # k
    <3>1. stage[j] = "editing" /\ sheetOf'[j] = sheetOf[j] /\ told'[j] = told[j]
      BY <1>2, <2>2
    <3>2. sheetOf[j] \in DOMAIN books
      BY <3>1 DEF Audience, Basic, Linked
    <3>3. told[j] = Shown(books[sheetOf[j]])
      BY <1>1, <3>1 DEF EditorsAreCurrent, BookOf, Shown
    <3> QED
      BY <1>3, <3>1, <3>2, <3>3
  <2> QED
    BY <2>1, <2>2
<1> QED
  BY <1>8, <1>9, <1>10, <1>11, <1>12 DEF Audience

\* removeClient takes out the socket of the client that left, and no other.
LEMMA DisconnectIsAudience ==
  ASSUME DistinctNames, Audience, Basic', NEW k \in Conn, Disconnect(k)
  PROVE  Audience'
<1>1. /\ Held /\ Lists /\ Named /\ Subscribed /\ OnlyEditors /\ EditorsAreCurrent
  BY DEF Audience, Basic
<1>2. /\ stage'[k] = "absent" /\ \A j \in Conn \ {k} : stage'[j] = stage[j] /\ told'[j] = told[j]
      /\ sockets' = IF stage[k] = "editing"
                    THEN [sockets EXCEPT ![sheetOf[k]] = RemoveNamed(@, user[k])]
                    ELSE sockets
      /\ books' = books /\ user' = user /\ sheetOf' = sheetOf
  BY <1>1 DEF Disconnect, Held
<1>3. \A j \in Conn : stage'[j] = "editing" <=> stage[j] = "editing" /\ j # k
  BY <1>2
<1>4. DOMAIN sockets' = DOMAIN sockets
  BY <1>2
<1>5. Named'
  BY <1>1, <1>2 DEF Named
<1>6. EditorsAreCurrent'
  BY <1>1, <1>2, <1>3 DEF EditorsAreCurrent, BookOf
<1>7. CASE stage[k] # "editing"
  <2>1. sockets' = sockets
    BY <1>2, <1>7
  <2>2. Lists' /\ Subscribed'
    BY <1>1, <1>2, <1>3, <2>1 DEF Lists, Subscribed
  <2>3. \A n \in DOMAIN sockets : \A i \in DOMAIN sockets[n] : sockets[n][i] \in Conn
    BY <1>1 DEF Lists
  <2>4. OnlyEditors'
    BY <1>1, <1>2, <1>3, <1>7, <2>1, <2>3 DEF OnlyEditors
  <2> QED
    BY <1>5, <1>6, <2>2, <2>4 DEF Audience
<1>8. CASE stage[k] = "editing"
  <2> DEFINE s    == sheetOf[k]
             list == sockets[s]
             rest == RemoveNamed(list, user[k])
  <2>1. s \in DOMAIN sockets /\ list \in Seq(Conn)
    BY <1>1, <1>8 DEF Audience, Basic, Linked, Held, Lists
  <2>2. PICK p \in DOMAIN list : list[p] = k
    BY <1>1, <1>8 DEF Subscribed
  <2>3. p \in 1..Len(list)
    BY <2>1, <2>2
  <2>4. \A i \in 1..Len(list) : /\ stage[list[i]] = "editing" /\ sheetOf[list[i]] = s
                                /\ list[i] \in Conn /\ (i # p => list[i] # k)
                                /\ \A j \in 1..Len(list) : list[i] = list[j] => i = j
    BY <1>1, <2>1, <2>2 DEF OnlyEditors
  <2>5. \A i \in 1..Len(list) : i # p => user[list[i]] # user[k]
    BY <1>1, <1>8, <2>4 DEF DistinctNames, Named
  <2>6. user[list[p]] = user[k]
    BY <2>2
  <2> HIDE DEF list, s
  <2>7. /\ rest \in Seq(Conn) /\ Len(rest) = Len(list) - 1
        /\ \A j \in 1..Len(list) - 1 : rest[j] = IF j < p THEN list[j] ELSE list[j + 1]
    BY <2>1, <2>3, <2>5, <2>6, RemoveNamedIs
  <2> HIDE DEF rest
  <2>8. /\ sockets'[s] = rest
        /\ \A n \in DOMAIN sockets : n # s => sockets'[n] = sockets[n]
    BY <1>2, <1>8, <2>1 DEF rest, list, s
  <2>9. Len(list) \in Nat /\ DOMAIN rest = 1..Len(list) - 1 /\ DOMAIN list = 1..Len(list)
    BY <2>1, <2>7
  <2>10. \A j \in 1..Len(list) - 1 : rest[j] \in Conn \ {k} /\ stage[rest[j]] = "editing" /\ sheetOf[rest[j]] = s
    BY <2>3, <2>4, <2>7, <2>9
  <2>11. \A i, j \in 1..Len(list) - 1 : rest[i] = rest[j] => i = j
    BY <2>3, <2>4, <2>7, <2>9
  <2>12. \A i \in 1..Len(list) : i # p => \E j \in 1..Len(list) - 1 : rest[j] = list[i]
    <3> SUFFICES ASSUME NEW i \in 1..Len(list), i # p
                 PROVE  \E j \in 1..Len(list) - 1 : rest[j] = list[i]
      OBVIOUS
    <3>1. CASE i < p
      BY <2>3, <2>7, <2>9, <3>1
    <3>2. CASE ~(i < p)
      <4>1. i - 1 \in 1..Len(list) - 1 /\ rest[i - 1] = list[i]
        BY <2>3, <2>7, <2>9, <3>2
      <4> QED
        BY <4>1
    <3> QED
      BY <3>1, <3>2
  <2>13. Lists'
    BY <1>1, <1>4, <2>7, <2>8 DEF Lists
  <2>14. Subscribed'
    <3> SUFFICES ASSUME NEW j \in Conn, stage[j] = "editing", j # k
                 PROVE  \E i \in DOMAIN sockets'[sheetOf[j]] : sockets'[sheetOf[j]][i] = j
      BY <1>2, <1>3 DEF Subscribed
    <3>1. PICK i \in DOMAIN sockets[sheetOf[j]] : sockets[sheetOf[j]][i] = j
      BY <1>1 DEF Subscribed
    <3>2. CASE sheetOf[j] = s
      <4>1. i \in 1..Len(list) /\ list[i] = j
        BY <2>9, <3>1, <3>2 DEF list
      <4>2. i # p
        BY <2>2, <4>1
      <4>3. \E h \in 1..Len(list) - 1 : rest[h] = j
        BY <2>12, <4>1, <4>2
      <4> QED
        BY <2>8, <2>9, <3>2, <4>3
    <3>3. CASE sheetOf[j] # s
      <4>1. sheetOf[j] \in DOMAIN sockets
        BY DEF Audience, Basic, Linked, Held
      <4> QED
        BY <2>8, <3>1, <3>3, <4>1
    <3> QED
      BY <3>2, <3>3
  <2>15. OnlyEditors'
    <3> SUFFICES ASSUME NEW n \in DOMAIN sockets, NEW i \in DOMAIN sockets'[n]
                 PROVE  /\ stage'[sockets'[n][i]] = "editing" /\ sheetOf[sockets'[n][i]] = n
                        /\ \A j \in DOMAIN sockets'[n] : sockets'[n][i] = sockets'[n][j] => i = j
      BY <1>2, <1>4 DEF OnlyEditors
    <3>1. CASE n = s
      BY <1>3, <2>8, <2>9, <2>10, <2>11, <3>1
    <3>2. CASE n # s
      <4>1. sockets'[n] = sockets[n] /\ i \in DOMAIN sockets[n] /\ sockets[n] \in Seq(Conn)
        BY <1>1, <2>8, <3>2 DEF Lists
      <4>2. /\ stage[sockets[n][i]] = "editing" /\ sheetOf[sockets[n][i]] = n
            /\ \A j \in DOMAIN sockets[n] : sockets[n][i] = sockets[n][j] => i = j
        BY <1>1, <4>1 DEF OnlyEditors
      <4>3. sockets[n][i] \in Conn \ {k}
        BY <3>2, <4>1, <4>2 DEF s
      <4> QED
        BY <1>3, <4>1, <4>2, <4>3
    <3> QED
      BY <3>1, <3>2
  <2> QED
    BY <1>5, <1>6, <2>13, <2>14, <2>15 DEF Audience
<1> QED
  BY <1>7, <1>8

\* A text that is stored is sent to all who edit its sheet, and to nobody else.
LEMMA RequestIsAudience ==
  ASSUME Audience, Basic', NEW k \in Conn, stage[k] = "editing",
         NEW next \in Book, NEW c \in Cell, NEW text \in Content,
         Store(k, next), Shown(next) = [Shown(BookOf(k)) EXCEPT ![c] = text],
         SendCellUpdate(k, c, text)
  PROVE  Audience'
<1>1. /\ Held /\ Lists /\ Named /\ Subscribed /\ OnlyEditors /\ EditorsAreCurrent
      /\ sheetOf[k] \in DOMAIN books
  BY DEF Audience, Basic, Linked
<1>2. /\ books' = [books EXCEPT ![sheetOf[k]] = next]
      /\ sockets' = sockets /\ stage' = stage /\ user' = user /\ sheetOf' = sheetOf
  BY DEF Store, conns
<1>3. Lists' /\ Named' /\ Subscribed' /\ OnlyEditors'
  BY <1>1, <1>2 DEF Lists, Named, Subscribed, OnlyEditors
<1>4. EditorsAreCurrent'
  <2> SUFFICES ASSUME NEW j \in Conn, stage'[j] = "editing"
               PROVE  told'[j] = Shown(books'[sheetOf'[j]])
    BY DEF EditorsAreCurrent, BookOf, Shown
  <2>0. stage[j] = "editing" /\ sheetOf'[j] = sheetOf[j]
    BY <1>2
  <2>1. told[j] = Shown(books[sheetOf[j]])
    BY <1>1, <2>0 DEF EditorsAreCurrent, BookOf, Shown
  <2>2. PICK i \in DOMAIN sockets[sheetOf[j]] : sockets[sheetOf[j]][i] = j
    BY <1>1, <2>0 DEF Subscribed
  <2>3. sheetOf[j] \in DOMAIN sockets
    BY <1>1, <2>0 DEF Audience, Basic, Linked, Held
  <2>4. CASE sheetOf[j] = sheetOf[k]
    <3>1. Contains(sockets[sheetOf[k]], j)
      <4>1. sockets[sheetOf[k]] \in Seq(Conn)
        BY <1>1, <2>3, <2>4 DEF Lists
      <4> QED
        BY <2>2, <2>4, <4>1 DEF Contains
    <3>2. told'[j] = [told[j] EXCEPT ![c] = text]
      BY <2>0, <3>1 DEF SendCellUpdate
    <3>3. books'[sheetOf[j]] = next
      BY <1>1, <1>2, <2>4
    <3> QED
      BY <2>0, <2>1, <2>4, <3>2, <3>3 DEF BookOf
  <2>5. CASE sheetOf[j] # sheetOf[k]
    <3>1. ~Contains(sockets[sheetOf[k]], j)
      <4>1. sheetOf[k] \in DOMAIN sockets /\ sockets[sheetOf[k]] \in Seq(Conn)
        BY <1>1 DEF Lists, Held
      <4> QED
        BY <1>1, <2>5, <4>1 DEF Contains, OnlyEditors
    <3>2. told'[j] = told[j]
      BY <3>1 DEF SendCellUpdate
    <3>3. books'[sheetOf[j]] = books[sheetOf[j]]
      BY <1>1, <1>2, <2>3, <2>5 DEF Held
    <3> QED
      BY <2>0, <2>1, <3>2, <3>3
  <2> QED
    BY <2>4, <2>5
<1> QED
  BY <1>3, <1>4 DEF Audience

\* With distinct names, every step keeps the audience.
LEMMA StepIsAudience == DistinctNames /\ Audience /\ [Next]_vars => Audience'
<1> SUFFICES ASSUME DistinctNames, Audience, [Next]_vars
             PROVE  Audience'
  OBVIOUS
<1>0. Basic /\ Basic'
  BY StepIsBasic DEF Audience
<1>1. CASE Kill
  BY <1>0, <1>1, ForgottenIsAudience DEF Kill
<1>2. ASSUME NEW k \in Conn,
             \/ \E c \in Cell, text \in Content : EditCell(k, c, text)
             \/ \E c \in Cell : RevertCell(k, c)
             \/ Undo(k)
      PROVE  Audience'
  <2>1. stage[k] = "editing"
    BY <1>0, <1>2, RequestStores
  <2>2. PICK next \in Book, c \in Cell, text \in Content :
          /\ Store(k, next)
          /\ Shown(next) = [Shown(BookOf(k)) EXCEPT ![c] = text]
          /\ SendCellUpdate(k, c, text)
    BY <1>0, <1>2, RequestStores
  <2> QED
    BY <1>0, <2>1, <2>2, RequestIsAudience
<1>3. ASSUME NEW k \in Conn, Unchanging(k)
      PROVE  Audience'
  <2>1. stage[k] = "editing" /\ Store(k, BookOf(k)) /\ told' = told
    BY <1>3 DEF Unchanging
  <2>2. \A n \in DOMAIN books : books'[n] = books[n]
    BY <2>1 DEF Store, BookOf
  <2>3. sockets' = sockets /\ stage' = stage /\ user' = user /\ sheetOf' = sheetOf
    BY <2>1 DEF Store, conns
  <2>4. Lists' /\ Named' /\ Subscribed' /\ OnlyEditors'
    BY <2>3 DEF Audience, Lists, Named, Subscribed, OnlyEditors
  <2>5. EditorsAreCurrent'
    <3> SUFFICES ASSUME NEW j \in Conn, stage'[j] = "editing"
                 PROVE  told'[j] = Shown(books'[sheetOf'[j]])
      BY DEF EditorsAreCurrent, BookOf, Shown
    <3>1. sheetOf[j] \in DOMAIN books
      BY <1>0, <2>3 DEF Basic, Linked
    <3>2. told[j] = Shown(books[sheetOf[j]])
      BY <2>3 DEF Audience, EditorsAreCurrent, BookOf, Shown
    <3> QED
      BY <2>1, <2>2, <2>3, <3>1, <3>2
  <2> QED
    BY <1>0, <2>4, <2>5 DEF Audience
<1>4. ASSUME NEW k \in Conn, NEW c \in Cell, NEW text \in Content, EditThrows(k, c, text)
      PROVE  Audience'
  BY <1>0, <1>4, ForgottenIsAudience DEF EditThrows
<1>5. CASE UNCHANGED vars
  BY <1>0, <1>5
  DEF vars, conns, Audience, Lists, Named, Subscribed, OnlyEditors, EditorsAreCurrent, BookOf
<1> QED
  BY <1>0, <1>1, <1>2, <1>3, <1>4, <1>5,
     StartIsAudience, GreetIsAudience, ChooseIsAudience, DisconnectIsAudience
  DEF Next

\* The first state has no client.
LEMMA InitIsAudience == Init => Audience
<1> SUFFICES ASSUME Init
             PROVE  Audience
  OBVIOUS
<1>1. Basic
  BY InitIsBasic
<1>2. /\ sockets = [n \in {} |-> << >>]
      /\ \A j \in Conn : stage[j] = "absent"
  BY DEF Init
<1> QED
  BY <1>1, <1>2 DEF Audience, Lists, Named, Subscribed, OnlyEditors, EditorsAreCurrent

\* With distinct names, the audience is kept forever.
LEMMA AlwaysAudience ==
  ASSUME DistinctNames
  PROVE  Spec => []Audience
<1>1. Audience /\ [Next]_vars => Audience'
  BY StepIsAudience
<1> QED
  BY <1>1, InitIsAudience, PTL DEF Spec

-----------------------------------------------------------------------------

\* When no two clients have the same name, every client that sends requests
\* has been told every text of its sheet: nothing is missed between the
\* snapshot of addClient and the updates of sendCellUpdate.
THEOREM EditorsCurrent ==
  ASSUME DistinctNames
  PROVE  Spec => []EditorsAreCurrent
<1>1. Audience => EditorsAreCurrent
  BY DEF Audience
<1> QED
  BY <1>1, AlwaysAudience, PTL

\* When no two clients have the same name, a sheet sends to the clients that
\* edit it, to all of them and each once: removeClient takes out the one that
\* left and no other.
THEOREM SubscribersKept ==
  ASSUME DistinctNames
  PROVE  Spec => []SubscribersAreEditors
<1>1. Audience => SubscribersAreEditors
  <2> SUFFICES ASSUME Audience, NEW n \in DOMAIN sockets
               PROVE  /\ \A k \in Conn : (stage[k] = "editing" /\ sheetOf[k] = n) <=> Contains(sockets[n], k)
                      /\ \A i, j \in DOMAIN sockets[n] : sockets[n][i] = sockets[n][j] => i = j
    BY DEF SubscribersAreEditors
  <2>1. sockets[n] \in Seq(Conn)
    BY DEF Audience, Lists
  <2>2. \A k : Contains(sockets[n], k) <=> \E i \in DOMAIN sockets[n] : sockets[n][i] = k
    BY <2>1 DEF Contains
  <2>3. ASSUME NEW k \in Conn, stage[k] = "editing", sheetOf[k] = n PROVE Contains(sockets[n], k)
    BY <2>2, <2>3 DEF Audience, Subscribed
  <2>4. ASSUME NEW k \in Conn, Contains(sockets[n], k) PROVE stage[k] = "editing" /\ sheetOf[k] = n
    BY <2>2, <2>4 DEF Audience, OnlyEditors
  <2>5. \A i, j \in DOMAIN sockets[n] : sockets[n][i] = sockets[n][j] => i = j
    BY DEF Audience, OnlyEditors
  <2> QED
    BY <2>3, <2>4, <2>5
<1> QED
  BY <1>1, AlwaysAudience, PTL

\* Every file is loaded to a spreadsheet whose cells, stacks and undo steps are
\* of the types spreadsheet.h declares, and every list of sockets holds
\* connections, when no two clients have the same name.
THEOREM ServerTypes ==
  ASSUME DistinctNames
  PROVE  Spec => []TypeOK
<1>1. Audience => TypeOK
  BY DEF Audience, Basic, Lists, TypeOK
<1> QED
  BY <1>1, AlwaysAudience, PTL

-----------------------------------------------------------------------------
(* The histories of the files.                                             *)

LEMMA SameViews ==
  /\ UH!Blank = HV!Blank
  /\ \A h : UH!Changes(h) = HV!Changes(h) /\ UH!Remains(h) = HV!Remains(h)
<1>1. UH!Blank = HV!Blank
  BY DEF UH!Blank, HV!Blank
<1>2. ASSUME NEW h
      PROVE  UH!Changes(h) = HV!Changes(h) /\ UH!Remains(h) = HV!Remains(h)
  <2>1. \A c, text : UH!Edited(h, c, text) = HV!Edited(h, c, text)
    BY <1>1 DEF UH!Edited, HV!Edited
  <2>2. \A c : UH!Reverted(h, c) = HV!Reverted(h, c)
    BY DEF UH!Reverted, HV!Reverted
  <2>3. UH!Undone(h) = HV!Undone(h)
    BY DEF UH!Undone, HV!Undone, UH!Last, UH!Front, HV!Last, HV!Front
  <2>4. UH!Changes(h) = HV!Changes(h)
    BY <2>1, <2>2, <2>3 DEF UH!Changes, HV!Changes
  <2>5. \A k : UH!Newest(h, k) = HV!Newest(h, k)
    BY DEF UH!Newest, HV!Newest
  <2>6. \A cells : UH!Only(h, cells) = HV!Only(h, cells)
    BY <1>1 DEF UH!Only, HV!Only
  <2>7. UH!Remains(h) = HV!Remains(h)
    BY <2>5, <2>6 DEF UH!Remains, HV!Remains
  <2> QED
    BY <2>4, <2>7
<1> QED
  BY <1>1, <1>2

\* The book in the file, for every name.
Filed == FromFile(Watched)

\* The file of the name holds a history, and the running server serves it.
Kept ==
  /\ Sound(Filed)
  /\ Watched \in DOMAIN books => books[Watched] = Filed

\* Every request that the process survives makes an outcome of the book and
\* saves it.
LEMMA RequestOutcome ==
  ASSUME Basic, NEW k \in Conn,
         \/ \E c \in Cell, text \in Content : EditCell(k, c, text)
         \/ \E c \in Cell : RevertCell(k, c)
         \/ Undo(k)
         \/ Unchanging(k)
  PROVE  /\ stage[k] = "editing"
         /\ \E next \in Outcomes(BookOf(k), MaxUndo) : Store(k, next)
<1>1. ASSUME NEW c \in Cell, NEW text \in Content, EditCell(k, c, text)
      PROVE  SetCellContents(BookOf(k), c, text) \in Outcomes(BookOf(k), MaxUndo)
  <2>1. <<c, text>> \in {f \in Cell \X Content :
            Len(BookOf(k).undo) < MaxUndo
            /\ EditVerdict(BookOf(k).sheet, f[1], f[2]) = "accept"}
    BY <1>1 DEF EditCell, HasRoom
  <2>2. SetCellContents(BookOf(k), <<c, text>>[1], <<c, text>>[2])
          = SetCellContents(BookOf(k), c, text)
    OBVIOUS
  <2> QED
    BY <2>1, <2>2 DEF Outcomes
<1>2. ASSUME NEW c \in Cell, RevertCell(k, c)
      PROVE  ProcessRevert(BookOf(k), c) \in Outcomes(BookOf(k), MaxUndo)
  BY <1>2 DEF RevertCell, HasRoom, Outcomes
<1>3. CASE Undo(k)
  <2>1. UndoChange(BookOf(k)) \in Outcomes(BookOf(k), MaxUndo)
    BY <1>3 DEF Undo, Outcomes
  <2> QED
    BY <1>3, <2>1 DEF Undo
<1>4. CASE Unchanging(k)
  <2>1. BookOf(k) \in Outcomes(BookOf(k), MaxUndo)
    BY DEF Outcomes
  <2> QED
    BY <1>4, <2>1 DEF Unchanging
<1>5. CASE \E c \in Cell, text \in Content : EditCell(k, c, text)
  BY <1>1, <1>5 DEF EditCell
<1>6. CASE \E c \in Cell : RevertCell(k, c)
  BY <1>2, <1>6 DEF RevertCell
<1> QED
  BY <1>3, <1>4, <1>5, <1>6

\* What the file of the name holds when file is put under another name or this.
LEMMA FiledAfter ==
  ASSUME Basic, NEW name \in SheetName, NEW file,
         files' = [n \in DOMAIN files \cup {name} |-> IF n = name THEN file ELSE files[n]]
  PROVE  Filed' = IF name = Watched THEN Loaded(file) ELSE Filed
  BY DEF Filed, FromFile

LEMMA SameFiled ==
  ASSUME files' = files
  PROVE  Filed' = Filed
  BY DEF Filed, FromFile

\* A request on the sheet is a change of its history; one on another is none.
LEMMA StoreKeeps ==
  ASSUME Basic, Kept, NEW k \in Conn, stage[k] = "editing",
         NEW next \in Outcomes(BookOf(k), MaxUndo), Store(k, next)
  PROVE  /\ Kept'
         /\ HistoryOf(Filed') \in {HistoryOf(Filed)} \cup HV!Changes(HistoryOf(Filed))
<1>1. sheetOf[k] \in DOMAIN books /\ sheetOf[k] \in SheetName /\ BookOf(k) \in Book
  BY DEF Basic, Linked, Held, BookOf
<1>2. next \in Book /\ Loaded(Saved(next)) = next
  BY <1>1, OutcomesType, LoadInvertsSave
<1>3. Filed' = IF sheetOf[k] = Watched THEN next ELSE Filed
  BY <1>1, <1>2, FiledAfter DEF Store
<1>4. books' = [books EXCEPT ![sheetOf[k]] = next]
  BY DEF Store
<1>5. CASE sheetOf[k] = Watched
  <2>1. BookOf(k) = Filed
    BY <1>1, <1>5 DEF Kept, BookOf
  <2>2. /\ Sound(next)
        /\ HistoryOf(next) \in {HistoryOf(Filed)} \cup HV!Changes(HistoryOf(Filed))
    BY <1>1, <2>1, OutcomesHistory DEF Kept
  <2> QED
    BY <1>1, <1>3, <1>4, <1>5, <2>2 DEF Kept
<1>6. CASE sheetOf[k] # Watched
  BY <1>1, <1>3, <1>4, <1>6 DEF Kept
<1> QED
  BY <1>5, <1>6

\* A death, also in the middle of a save, leaves some of the history.
LEMMA DeathKeeps ==
  ASSUME Basic, Kept, \/ Kill
                      \/ \E k \in Conn, c \in Cell, text \in Content : EditThrows(k, c, text)
  PROVE  /\ Kept' /\ up /\ ~up'
         /\ \E h \in {HistoryOf(Filed)} \cup HV!Changes(HistoryOf(Filed)) :
              HistoryOf(Filed') \in HV!Remains(h)
<1>1. up /\ up' = FALSE /\ DOMAIN books' = {}
  BY DEF Kill, EditThrows, Forgotten, Basic, Linked
<1>2. Filed \in Book
  BY FromFileType DEF Filed, Basic
<1>3. CASE files' = files
  <2>1. Filed' = Filed
    BY <1>3, SameFiled
  <2> QED
    BY <1>1, <1>2, <2>1, NewestIsWhole DEF Kept
<1>4. ASSUME NEW k \in Conn, stage[k] = "editing",
             NEW next \in Outcomes(BookOf(k), MaxUndo), NEW torn \in Torn(next),
             files' = [n \in DOMAIN files \cup {sheetOf[k]} |->
                         IF n = sheetOf[k] THEN torn ELSE files[n]]
      PROVE  /\ Kept'
             /\ \E h \in {HistoryOf(Filed)} \cup HV!Changes(HistoryOf(Filed)) :
                  HistoryOf(Filed') \in HV!Remains(h)
  <2>1. sheetOf[k] \in DOMAIN books /\ sheetOf[k] \in SheetName /\ BookOf(k) \in Book
    BY <1>4 DEF Basic, Linked, Held, BookOf
  <2>2. Filed' = IF sheetOf[k] = Watched THEN Loaded(torn) ELSE Filed
    BY <1>4, <2>1, FiledAfter
  <2>3. CASE sheetOf[k] = Watched
    <3>1. BookOf(k) = Filed
      BY <2>1, <2>3 DEF Kept, BookOf
    <3>2. /\ next \in Book /\ Sound(next)
          /\ HistoryOf(next) \in {HistoryOf(Filed)} \cup HV!Changes(HistoryOf(Filed))
      BY <2>1, <3>1, OutcomesType, OutcomesHistory DEF Kept
    <3>3. Sound(Loaded(torn)) /\ HistoryOf(Loaded(torn)) \in HV!Remains(HistoryOf(next))
      BY <1>4, <3>2, TornHistory
    <3> QED
      BY <1>1, <2>2, <2>3, <3>2, <3>3 DEF Kept
  <2>4. CASE sheetOf[k] # Watched
    BY <1>1, <1>2, <2>2, <2>4, NewestIsWhole DEF Kept
  <2> QED
    BY <2>3, <2>4
<1> QED
  BY <1>1, <1>3, <1>4 DEF Kill, EditThrows, BookOf

\* Opening a sheet reads its file, under the name that has no space.
LEMMA ChooseKeeps ==
  ASSUME Basic, Kept, NEW k \in Conn, NEW name \in SheetName, ChooseSheet(k, name)
  PROVE  Kept' /\ Filed' = Filed
<1>1. Filed' = Filed /\ books' = Opened(name)
  BY SameFiled DEF ChooseSheet
<1>2. ASSUME Watched \in DOMAIN Opened(name)
      PROVE  Opened(name)[Watched] = Filed
  <2>1. CASE Watched \in DOMAIN books
    BY <2>1 DEF Opened, Kept
  <2>2. CASE Watched \notin DOMAIN books
    <3>1. Watched = Strip[name]
      BY <1>2, <2>2, WatchedAssumption DEF Opened
    <3> QED
      BY <1>2, <2>2, <3>1 DEF Opened, Filed
  <2> QED
    BY <2>1, <2>2
<1> QED
  BY <1>1, <1>2 DEF Kept

\* The rest of what connections do touches neither sheets nor files.
LEMMA OthersKeep ==
  ASSUME Kept, files' = files, books' = books
  PROVE  Kept' /\ Filed' = Filed
  BY SameFiled DEF Kept

\* start reads every file under the name without its spaces.
LEMMA StartKeeps ==
  ASSUME Basic, Kept, Start
  PROVE  Kept' /\ Filed' = Filed
<1>1. Filed' = Filed
  BY SameFiled DEF Start
<1>2. Watched \in DOMAIN books' => books'[Watched] = Filed
  BY DEF Start, Filed
<1> QED
  BY <1>1, <1>2 DEF Kept

\* A step of the server, on the history of the file.
LEMMA StepOfHistory ==
  ASSUME Basic, Kept, [Next]_vars
  PROVE  /\ Kept'
         /\ UH!Next \/ UNCHANGED <<HistoryOf(FromFile(Watched)), up>>
<1> DEFINE h == HistoryOf(Filed)
<1>1. HistoryOf(FromFile(Watched)) = h /\ HistoryOf(FromFile(Watched))' = HistoryOf(Filed')
  BY DEF Filed
<1>2. CASE Start
  BY <1>1, <1>2, StartKeeps DEF Start, UH!Next, UH!Restart
<1>3. ASSUME \/ Kill
             \/ \E k \in Conn, c \in Cell, text \in Content : EditThrows(k, c, text)
      PROVE  Kept' /\ UH!Next
  <2>1. /\ Kept' /\ up /\ up' = FALSE
        /\ \E g \in {h} \cup HV!Changes(h) : HistoryOf(Filed') \in HV!Remains(g)
    BY <1>3, DeathKeeps DEF Kill, EditThrows, Forgotten
  <2>2. \E g \in {h} \cup UH!Changes(h) : HistoryOf(Filed') \in UH!Remains(g)
    BY <2>1, SameViews
  <2> QED
    BY <1>1, <2>1, <2>2 DEF UH!Next, UH!Die
<1>4. ASSUME NEW k \in Conn,
             \/ \E c \in Cell, text \in Content : EditCell(k, c, text)
             \/ \E c \in Cell : RevertCell(k, c)
             \/ Undo(k)
             \/ Unchanging(k)
      PROVE  /\ Kept'
             /\ UH!Next \/ UNCHANGED <<HistoryOf(FromFile(Watched)), up>>
  <2>1. PICK next \in Outcomes(BookOf(k), MaxUndo) : Store(k, next)
    BY <1>4, RequestOutcome
  <2>2. stage[k] = "editing"
    BY <1>4, RequestOutcome
  <2>3. Kept' /\ HistoryOf(Filed') \in {h} \cup HV!Changes(h)
    BY <2>1, <2>2, StoreKeeps
  <2>4. up /\ up' = up
    BY <2>1, <2>2 DEF Basic, Linked, Store
  <2>5. CASE HistoryOf(Filed') \in HV!Changes(h)
    BY <1>1, <2>3, <2>4, <2>5, SameViews DEF UH!Next, UH!Change
  <2> QED
    BY <1>1, <2>3, <2>4, <2>5
<1>5. ASSUME NEW k \in Conn, NEW name \in SheetName, ChooseSheet(k, name)
      PROVE  Kept' /\ UNCHANGED <<HistoryOf(FromFile(Watched)), up>>
  BY <1>1, <1>5, ChooseKeeps DEF ChooseSheet
<1>6. ASSUME NEW k \in Conn, Accept(k) \/ SendName(k) \/ Disconnect(k)
      PROVE  Kept' /\ UNCHANGED <<HistoryOf(FromFile(Watched)), up>>
  BY <1>1, <1>6, OthersKeep DEF Accept, SendName, Disconnect
<1>7. CASE UNCHANGED vars
  BY <1>1, <1>7, OthersKeep DEF vars
<1> HIDE DEF h
<1> QED
  BY <1>2, <1>3, <1>4, <1>5, <1>6, <1>7 DEF Next

LEMMA InitIsKept == ASSUME Init PROVE Kept /\ UH!Init
<1>1. Filed = EmptyBook /\ DOMAIN books = {}
  BY DEF Init, Filed, FromFile
<1>2. Kept
  BY <1>1, EmptyBookSound DEF Kept
<1>3. UH!Init
  BY <1>1, EmptyBookSound, SameViews DEF Init, UH!Init, Filed
<1> QED
  BY <1>2, <1>3

\* The file of every name without a space is one undo history, whoever opens
\* and shares the sheet, edits, reverts and undoes on it, whatever is done to
\* other sheets, also to those whose names strip to its name, and whenever the
\* process dies: each request changes it as users are promised, and a death
\* costs no more than UndoHistory allows (createSpreadsheet, setClient, save).
THEOREM HistoriesKept == Spec => KeepsHistories
<1>1. Init => Kept /\ UH!Init
  BY InitIsKept
<1>2. Basic /\ Kept /\ [Next]_vars
        => Kept' /\ [UH!Next]_<<HistoryOf(FromFile(Watched)), up>>
  BY StepOfHistory
<1> QED
  BY <1>1, <1>2, AlwaysBasic, PTL DEF Spec, KeepsHistories, UH!Spec

=============================================================================
