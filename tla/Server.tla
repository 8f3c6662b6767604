------------------------------- MODULE Server -------------------------------
(***************************************************************************)
(* The whole server: the map of spreadsheets, the connections through      *)
(* their handshake and their requests, what each client has been told of   *)
(* its sheet, and the files, over the deaths and restarts of the process.  *)
(*                                                                         *)
(* One thread runs io_service, so the handlers of the connections do not   *)
(* interleave; a handler is one action.  What the server writes to a       *)
(* socket reaches the client in order.  The DependencyGraph of a sheet,    *)
(* which no answer depends on, is left to Spreadsheet.                     *)
(***************************************************************************)
EXTENDS SheetOps

CONSTANTS
  Conn,       \* the connections there can be at one time
  User,       \* user names
  UserNames,  \* the user names a connection may come to have
  SheetName,  \* the names of spreadsheets
  Strip,      \* a name without its spaces
  MaxUndo,    \* bound of the model: no request makes a stack longer
  MaxId       \* bound of the model: no connection gets a higher id

ASSUME ServerAssumption ==
  /\ User # {} /\ SheetName # {}
  /\ UserNames \in [Conn -> SUBSET User]
  /\ Strip \in [SheetName -> SheetName]
  /\ \A n \in SheetName : Strip[Strip[n]] = Strip[n]
  /\ MaxUndo \in Nat
  /\ MaxId \in Nat

VARIABLES
  up,         \* is the process running?
  books,      \* the spreadsheets, from their names
  sockets,    \* the connections each spreadsheet sends to, from its name
  files,      \* the files in saves/, from their names
  stage,      \* how far the handshake of each connection is
  user,       \* the user name of each connection
  sheetOf,    \* the name of the sheet of each connection
  id,         \* the id of each connection
  idCounter,  \* the next id
  told        \* the texts each client has been sent, from cells

vars == <<up, books, sockets, files, stage, user, sheetOf, id, idCounter, told>>

conns == <<stage, user, sheetOf, id>>

\* A connection that is closed or not yet made; one whose user name, or
\* whose choice of a sheet, is awaited; one that sends requests.
Stages == {"absent", "accepted", "named", "editing"}

Texts == [Cell -> Content]

NoTexts == [c \in Cell |-> Empty]

\* The fields of the objects, but for the lists of the sockets.
Held ==
  /\ up \in BOOLEAN
  /\ DOMAIN books \subseteq SheetName
  /\ \A n \in DOMAIN books : books[n] \in Book
  /\ DOMAIN sockets = DOMAIN books
  /\ DOMAIN files \subseteq SheetName
  /\ \A n \in DOMAIN files : Loaded(files[n]) \in Book
  /\ stage \in [Conn -> Stages]
  /\ user \in [Conn -> User]
  /\ sheetOf \in [Conn -> SheetName]
  /\ id \in [Conn -> 0..MaxId]
  /\ idCounter \in 1..(MaxId + 1)
  /\ told \in [Conn -> Texts]

TypeOK == Held /\ \A n \in DOMAIN sockets : sockets[n] \in Seq(Conn)

\* The values of an absent connection's fields are of no consequence.
AnyUser == CHOOSE u \in User : TRUE

AnySheet == CHOOSE n \in SheetName : TRUE

\* The state of the memory when no process runs.
Forgotten ==
  /\ up' = FALSE
  /\ books' = [n \in {} |-> EmptyBook]
  /\ sockets' = [n \in {} |-> << >>]
  /\ stage' = [k \in Conn |-> "absent"]
  /\ user' = [k \in Conn |-> AnyUser]
  /\ sheetOf' = [k \in Conn |-> AnySheet]
  /\ id' = [k \in Conn |-> 0]
  /\ idCounter' = 1
  /\ told' = [k \in Conn |-> NoTexts]

Init ==
  /\ up = FALSE
  /\ books = [n \in {} |-> EmptyBook]
  /\ sockets = [n \in {} |-> << >>]
  /\ files = [n \in {} |-> Saved(EmptyBook)]
  /\ stage = [k \in Conn |-> "absent"]
  /\ user = [k \in Conn |-> AnyUser]
  /\ sheetOf = [k \in Conn |-> AnySheet]
  /\ id = [k \in Conn |-> 0]
  /\ idCounter = 1
  /\ told = [k \in Conn |-> NoTexts]

-----------------------------------------------------------------------------
(* The process.                                                            *)

\* load: of a file that is not there, nothing.
FromFile(name) == IF name \in DOMAIN files THEN Loaded(files[name]) ELSE EmptyBook

\* Mutant of Start: the files are not loaded.
StartBlank ==
  /\ ~up
  /\ up' = TRUE
  /\ books' = [n \in {Strip[m] : m \in DOMAIN files} |-> EmptyBook]
  /\ sockets' = [n \in DOMAIN books' |-> << >>]
  /\ UNCHANGED <<files, conns, idCounter, told>>

\* start creates a spreadsheet for each file.  createSpreadsheet strips the
\* name, and loads the file of the stripped name.
Start ==
  /\ ~up
  /\ up' = TRUE
  /\ books' = [n \in {Strip[m] : m \in DOMAIN files} |-> FromFile(n)]
  /\ sockets' = [n \in DOMAIN books' |-> << >>]
  /\ UNCHANGED <<files, conns, idCounter, told>>

\* The process dies, between two handlers or while one saves a sheet.
Kill ==
  /\ up
  /\ Forgotten
  /\ \/ UNCHANGED files
     \/ \E k \in Conn :
          /\ stage[k] = "editing"
          /\ \E next \in Outcomes(books[sheetOf[k]], MaxUndo) :
               \E torn \in Torn(next) :
                 files' = [n \in DOMAIN files \cup {sheetOf[k]} |->
                             IF n = sheetOf[k] THEN torn ELSE files[n]]

-----------------------------------------------------------------------------
(* The handshake.                                                          *)

\* handle_accept.  A connection object that some sheet still sends to is not
\* free to stand for a new one.
Accept(k) ==
  /\ up
  /\ stage[k] = "absent"
  /\ \A n \in DOMAIN sockets : ~Contains(sockets[n], k)
  /\ stage' = [stage EXCEPT ![k] = "accepted"]
  /\ UNCHANGED <<up, books, sockets, files, user, sheetOf, id, idCounter, told>>

\* clientConnected.  The user name is what is in the buffer up to the first
\* zero, and the buffer has not been cleared: any of a connection's names.
SendName(k) ==
  /\ stage[k] = "accepted"
  /\ \E u \in UserNames[k] : user' = [user EXCEPT ![k] = u]
  /\ stage' = [stage EXCEPT ![k] = "named"]
  /\ UNCHANGED <<up, books, sockets, files, sheetOf, id, idCounter, told>>

\* The spreadsheets after createSpreadsheet, which strips the name, and
\* setClient, which does not and creates what it does not find.
Opened(name) ==
  IF name \in DOMAIN books THEN books
  ELSE [n \in DOMAIN books \cup {Strip[name], name} |->
          IF n \in DOMAIN books THEN books[n]
          ELSE IF n = Strip[name] THEN FromFile(n)
          ELSE EmptyBook]

\* spreadsheetAllocate.  addClient sends the stored cells and then subscribes.
ChooseSheet(k, name) ==
  /\ stage[k] = "named"
  /\ idCounter <= MaxId
  /\ id' = [id EXCEPT ![k] = idCounter]
  /\ idCounter' = idCounter + 1
  /\ books' = Opened(name)
  /\ sockets' = [n \in DOMAIN books' |->
                   LET old == IF n \in DOMAIN sockets THEN sockets[n] ELSE << >>
                   IN IF n = name THEN Append(old, k) ELSE old]
  /\ told' = [told EXCEPT ![k] = [c \in Cell |-> View(books'[name].sheet, c).content]]
  /\ sheetOf' = [sheetOf EXCEPT ![k] = name]
  /\ stage' = [stage EXCEPT ![k] = "editing"]
  /\ UNCHANGED <<up, files, user>>

\* Mutant of RemoveNamed: all behind the first that has the name go with it.
RemoveOnward(list, name) ==
  SubSeq(list, 1, Cardinality({i \in 1..Len(list) : \A j \in 1..i : user[list[j]] # name}))

\* removeClient goes through the sockets and erases those with the user name
\* given; after an erasure it steps over the next one.
RemoveNamed(list, name) ==
  LET fate[i \in 0..Len(list)] ==
        IF i > 0 /\ user[list[i]] = name /\ fate[i - 1] = "kept" THEN "erased" ELSE "kept"
      left == {i \in 1..Len(list) : fate[i] = "kept"}
  IN [j \in 1..Cardinality(left) |->
        list[CHOOSE i \in left : Cardinality({h \in left : h <= i}) = j]]

\* A read that ends in an error.  Only handleRecieve tells the server.
Disconnect(k) ==
  /\ stage[k] # "absent"
  /\ stage' = [stage EXCEPT ![k] = "absent"]
  /\ sockets' = IF stage[k] = "editing"
                THEN [sockets EXCEPT ![sheetOf[k]] = RemoveNamed(@, user[k])]
                ELSE sockets
  /\ told' = [told EXCEPT ![k] = NoTexts]
  /\ UNCHANGED <<up, books, files, user, sheetOf, id, idCounter>>

-----------------------------------------------------------------------------
(* The requests of connection k, on its sheet.                             *)

BookOf(k) == books[sheetOf[k]]

HasRoom(k) == Len(BookOf(k).undo) < MaxUndo

\* Mutant of Store: the file gets the cells and no undo line.
StoreCells(k, next) ==
  /\ books' = [books EXCEPT ![sheetOf[k]] = next]
  /\ files' = [n \in DOMAIN files \cup {sheetOf[k]} |->
                 IF n = sheetOf[k] THEN [cells |-> next.sheet, lines |-> << >>] ELSE files[n]]
  /\ UNCHANGED <<up, sockets, conns, idCounter>>

\* The sheet becomes next and is saved.
Store(k, next) ==
  /\ books' = [books EXCEPT ![sheetOf[k]] = next]
  /\ files' = [n \in DOMAIN files \cup {sheetOf[k]} |->
                 IF n = sheetOf[k] THEN Saved(next) ELSE files[n]]
  /\ UNCHANGED <<up, sockets, conns, idCounter>>

\* Mutants of SendCellUpdate: only the others are sent the text; the name is
\* sent in the place of the text.
SendToOthers(k, c, text) ==
  told' = [j \in Conn |-> IF Contains(sockets[sheetOf[k]], j) /\ j # k
                          THEN [told[j] EXCEPT ![c] = text]
                          ELSE told[j]]

SendCellName(k, c, text) ==
  told' = [j \in Conn |-> IF Contains(sockets[sheetOf[k]], j)
                          THEN [told[j] EXCEPT ![c] = c]
                          ELSE told[j]]

\* sendCellUpdate, to each socket of the sheet; a closed one takes nothing.
SendCellUpdate(k, c, text) ==
  told' = [j \in Conn |-> IF Contains(sockets[sheetOf[k]], j) /\ stage[j] = "editing"
                          THEN [told[j] EXCEPT ![c] = text]
                          ELSE told[j]]

EditCell(k, c, text) ==
  /\ stage[k] = "editing" /\ HasRoom(k)
  /\ EditVerdict(BookOf(k).sheet, c, text) = "accept"
  /\ Store(k, SetCellContents(BookOf(k), c, text))
  /\ SendCellUpdate(k, c, text)

RevertCell(k, c) ==
  /\ stage[k] = "editing" /\ HasRoom(k)
  /\ CanRevert(BookOf(k), c)
  /\ Store(k, ProcessRevert(BookOf(k), c))
  /\ SendCellUpdate(k, c, BookOf(k).sheet[c].prev)

Undo(k) ==
  /\ stage[k] = "editing"
  /\ BookOf(k).undo # << >>
  /\ Store(k, UndoChange(BookOf(k)))
  /\ SendCellUpdate(k, Last(BookOf(k).undo).name, Last(BookOf(k).undo).content)

\* A refused request, or a selection: the sheet is saved, and no text is sent.
Unchanging(k) ==
  /\ stage[k] = "editing"
  /\ Store(k, BookOf(k))
  /\ UNCHANGED told

EditThrows(k, c, text) ==
  /\ stage[k] = "editing"
  /\ EditVerdict(BookOf(k).sheet, c, text) = "throws"
  /\ Forgotten
  /\ UNCHANGED files

-----------------------------------------------------------------------------

Next ==
  \/ Start
  \/ Kill
  \/ \E k \in Conn :
       \/ Accept(k)
       \/ SendName(k)
       \/ \E name \in SheetName : ChooseSheet(k, name)
       \/ Disconnect(k)
       \/ \E c \in Cell, text \in Content : EditCell(k, c, text)
       \/ \E c \in Cell, text \in Content : EditThrows(k, c, text)
       \/ \E c \in Cell : RevertCell(k, c)
       \/ Undo(k)
       \/ Unchanging(k)

Spec == Init /\ [][Next]_vars

-----------------------------------------------------------------------------

\* Every client that sends requests has been told the text of every cell of
\* its sheet: the snapshot of addClient and the updates of sendCellUpdate
\* leave no gap, whoever edits, reverts, undoes, joins, leaves or dies.
EditorsAreCurrent ==
  \A k \in Conn :
    stage[k] = "editing" => told[k] = [c \in Cell |-> View(BookOf(k).sheet, c).content]

\* The sockets of a sheet are the clients that send requests to it, all of
\* them and each once: removeClient leaves no closed one and takes out no other
\* (clientDisconnected).
SubscribersAreEditors ==
  \A n \in DOMAIN sockets :
    /\ \A k \in Conn : (stage[k] = "editing" /\ sheetOf[k] = n) <=> Contains(sockets[n], k)
    /\ \A i, j \in DOMAIN sockets[n] : sockets[n][i] = sockets[n][j] => i = j

Served(n) == n \in DOMAIN books /\ books[n] = Loaded(files[n])

\* Every file in saves/ is the state of the running server's spreadsheet of
\* that name, after any number of restarts: load "loads saved file of previous
\* spreadsheets" (spreadsheet.h:72).
EveryFileIsServed == up => \A n \in DOMAIN files : Served(n)

\* The same of the files whose names have no space, whatever sheets with a
\* space in their names are opened beside them, some of which strip to the
\* same name (createSpreadsheet).
PlainFilesAreServed == up => \A n \in DOMAIN files : Strip[n] = n => Served(n)

=============================================================================
