# Verification of the collaborative spreadsheet

A C++ server (`src/server`) keeps spreadsheets that several C# clients
(`src/client`) edit at the same time. This directory holds TLA+ models of its
parts, TLC configurations that check them on small instances, and proofs that
TLAPS checks for every value of the constants. `PROJECT.json` lists, for each
definition that models code, the lines it stands for.

    tlc -config SpreadsheetHistory.cfg MCSpreadsheet     # one run
    tlapm SpreadsheetProofs.tla                          # the proofs

## Inventory

### The server

| part | state | operations | interacts with |
|---|---|---|---|
| `serverBootup` | the process | `main`, `signalHandle` | calls `server::start`, and `server::close` on SIGINT |
| `network_controller` | listener, `idCounter` | accept, handshake (`clientConnected`, `spreadsheetAllocate`), requests (`handleRecieve`), `serverClose` | asio callbacks on the one thread that runs `io_service`; calls `server` |
| `con_handler` | socket, 1024-byte buffer, user name, sheet, id | getters and setters | shared by the controller and the list of sockets of a sheet |
| `server` | the map of spreadsheets, the mutex `sheetChange` | `start`, `createSpreadsheet`, `setClient`, `clientDisconnected`, `handleEdit`, `close` | locks, then calls the spreadsheet |
| `spreadsheet` | cells, undo stack, dependency graph, sockets, `saves/<name>.coco` | `receivePacket` (edit, revert, undo, select), `addClient`, `removeClient`, `save`, `load` | sends to its sockets; saves after every request |
| `DependencyGraph` | two maps of sets, a counter | add, remove, replace dependents, replace dependees | changed by `dependencyCheck` |
| `cell` | content, name, previous content | getters and setters | on the sheet and on the undo stack |

A request is handled to its end, with the save, under `sheetChange`; the thread
that runs `io_service` is the only one, apart from the signal handler that runs
on top of it. So the interleaving that matters is that of the *handlers* of
different connections, of the death of the process between two of them or in
the middle of a save, and of the signal handler with everything; and, between
the machines, that of the messages: TCP keeps their order and not their limits.

What is hard here: the depth-first circular check with its single result
variable; the undo stack, which holds whole cells and is written to the file
top first and read back last line first; cells without text, which are
sometimes stored and sometimes erased; the late joiner, who is sent the cells
and then subscribed; the removal of a socket by user name; two different names
for one sheet; a graph that drifts from the sheet; the mutex and the signal; a
read that is taken for one request whatever it holds; updates without a line end
in a stream that the client cuts into lines.

What makes each part correct: the file, at every moment, is a sheet and a
history of it that the users know (spreadsheet); every client has been told the
text of each cell (spreadsheet, server, network_controller); every file is
served under its name (server); an accepted formula closes no cycle, a refused
one would (spreadsheet); the two maps are one relation (DependencyGraph);
control-C ends the process (serverBootup, server).

### The client

| part | state | operations |
|---|---|---|
| `DependencyGraph` | two dictionaries of sets, a counter | add, remove, replace dependents, replace dependees, queries |
| `Spreadsheet`, `AbstractSpreadsheet` | cells with contents and values, graph, connection, id | set contents with recalculation, receive and process messages, send requests |
| `Formula` | a list of tokens, a list of names | the constructor, which takes or refuses a text token by token; `Evaluate` on two stacks; compare |
| `SpreadsheetGUI`, `SpreadsheetPanel` | a window and its `Spreadsheet`, the grid | the callbacks of an update and of the list of sheets, requests, opening and saving a file, drawing |
| `NetworkController.dll` | sockets | a binary library |
| `FormulaEvaluator` | | the evaluator that `Formula` was made from |
| `TestServer`, tests | | programs for testing |

What is hard here: the graph is changed before the check for cycles and has to
be put back; the order of recalculation comes from a walk over hash sets; the
texts come from a server whose own check is weaker, and an exception is
swallowed where they are received, so that a refused text is lost; a cell that
was emptied stays in the dictionary; the server searches the raw text of a
formula for names, and the client puts them in capital letters; the window sets
every text a second time,
and in another sheet than the connection once it has opened a file; a saved file
is read back cell by cell, formulas ahead of what they name; the constructor of
`Formula` lets names through that its `Evaluate` skips; the window can send
requests while a dialog still asks for the sheet.

What makes them correct: the client's graph is a set of ordered pairs with its
size; a text is taken if it is an expression, and its value is that of the
expression; every value is that of its formula; the client's cells are the
server's once the messages have arrived, but for texts that it refuses.

## Modules

Server:

- `SheetOps`: the data of a spreadsheet object and the operators on it: stored
  cells, undo stack, `getDirectDependents`/`visit`/`dependencyCheck`
  (`EditVerdict`), `setCellContents`, `undoChange`, `processRevert`, `save` and
  `load`. A text is abstracted to what the code sees in it: empty, a formula or
  not, refused by `evaluateFormula`, nothing but `=`, and the sequence of names.
- `ServerGraphOps`: the operations of the C++ `DependencyGraph` as operators on
  a pair of functions. The loops of the replace operations are in closed form.
  `removeDependency` is modelled as it is: it erases the reversed pair from
  `dependentGraph`, and touches `dependeeGraph` only for a name that is its own
  dependee, where the order of an `unordered_set` decides (`Erasable`).
- `Spreadsheet`: one object and its file. State: is the process running, the
  book (cells and stack), the graph, the file. Actions: `EditCell`,
  `RevertCell`, `Undo`, the refused ones, `SelectCell`, `EditThrows` (an
  exception leaves `main`), `Kill` (also during a save), `Load`.
- `HistoryViews`, `UndoHistory`: the abstract specification, what users are
  promised: a view of the cells and the views that undo brings back one after the
  other. `HistoryViews` has the steps as operators, `UndoHistory` the machine.
- `SheetGraph`, `SpreadsheetCycles`, `CycleCheck`: the graph of the formulas as
  the reference for the circular check; the check against it on histories of
  requests (`SpreadsheetCycles`) and on every sheet of four cells (`CycleCheck`).
- `ServerDependencyGraph`: an object of the C++ class with its counter.
- `Server`: the map of spreadsheets, the connections, the handshake, the
  broadcasts, the files, deaths and restarts. It uses `SheetOps` for the
  contents. It leaves out the graph, on which no answer depends.
  `ServerHistories` states that the file of a sheet with a plain name, any one
  that is `Watched`, is an undo history of its own (`KeepsHistories`).
- `ServerShutdown`: SIGINT on top of the thread, and the mutex.

Client:

- `ClientGraphOps`, `ClientDependencyGraph`: the C# `DependencyGraph` with its
  exceptions.
- `DependencyRelation`: the abstract specification: a set of ordered pairs. Its
  variable `call` names the last operation with its arguments, so that the
  refinement compares call with call: without it, a replacement that leaves the
  old pairs would pass for one with more names.

- `ClientSheetOps`, `ClientSheet`: the C# `Spreadsheet` with `AbstractSpreadsheet`
  and the grid of the window. State: the dictionary of contents and values and
  the graph (`ClientGraphOps` instantiated for it) of the connection, those of
  the window if it has opened a file, the values shown. Actions: `CellUpdated` is
  a `cellUpdated` message that `SetContentsOfCell` takes, with the second call,
  its `catch` and the drawing of `ServerChangeTextBoxes`; `UpdateDropped` is one
  that ends in an exception; `OpenFile` gives the window a sheet of its own. Each
  operator answers with every outcome that an order of a hash set allows. A
  formula is the set of cells it names, its value their sum: enough to tell a
  current value from an old one and from an error; a misnamed one throws when it
  would have a value. `SavedText` and `LoadFile` are the two directions of a
  file; a cell without text is saved as an empty element, for which the reader
  returns the line break behind it. The walk `Visit` is written by what the loop
  of a call does with the names left to it (`Loop`).
- `FormulaOps`: what is computed on a text, which is a sequence of tokens as they
  are written and the places of its blanks: `Evaluate` of `Formula` and that of
  `FormulaEvaluator` (one machine with a flag for the older one), `evaluateFormula`
  and `getVariables` of the server. `Formula` has names in their normal form
  (`Normal`, `s.ToUpper()` of `Form1.cs:43`), and reads the numerals of
  `Double.TryParse`; the older library has names as they are written, reads those
  of `int.TryParse` (`Whole`), and does not take blanks out (`Spaced`); the server
  has the raw text, in which a blank is a name (`Spaces`). The arithmetic is a
  parameter, one for each library.
- `ClientFormula`: the constructor of `Formula`, one action per method for a kind
  of token and one for what `GetTokens` leaves out (`SkipBlank`), and the
  evaluation; with the grammar and the meaning of expressions in the arithmetic
  of either library (`Meaning`) as the reference.

Both:

- `Conversation`: the clients and the server over TCP, as streams of messages.
  A read gets some messages of a stream, and perhaps the first part of one more
  (`Reads`, external). Client: `Connect`, `ReceiveFirst` (the list of sheets),
  `ChooseSheet`, `SendRequest`, `ReceiveData` with `ProcessData`. Server: one
  action per handler, `ReadName`, `ReadChoice` (with what `addClient` sends),
  `ReadEdit`, `ReadBadEdit`, `ReadOther`, `ReadThrows`. It composes what `Server`
  says of the contents with what `ClientSheet` says of updates: of both it keeps
  only the texts, and which cells are stored without one. What a formula names is
  left open: the server may take an edit (`Accepted`), refuse it (`Declined`), or
  end in an exception (`EditFails`: for the formula that is only `=`, or, at the
  check of a formula, for another cell that is stored without text), and a client
  may take or refuse every formula it is sent (`Takings`, the `catch` of
  `Spreadsheet.cs:668-679`). An edit with the empty text also stands for the
  reverts and undos that leave a cell empty (`BlanksAfter`). Taking updates one
  after another leaves the last text of each cell, which is how it is written
  (`Latest`).

The modules named `...Proofs` hold the theorems about the module they extend.
`ClientGraphLoops` and `ServerGraphLoops` hold the replacements of the graphs as
the loops of calls they are in the code, in every order of a hash set: the
reference for the closed forms. `DependencyGraphs` is an object of either class:
they share nothing, so it lets only one of them change. `SampleTexts` and the
`MC...` modules give TLC its instances. Operators whose comment begins "Mutant of" are wrong on
purpose: plausible bugs that the listed properties are shown to find.

## Runs

| run | what it asks | outcome |
|---|---|---|
| `SpreadsheetHistory` | one object and its file over requests, deaths and restarts: does the file keep the promised history (`KeepsHistory`, a refinement of `UndoHistory`), is it up to date (`FileIsCurrent`), is the stack one history of the sheet (`StackIsHistory`), do cells without text have no past (`EmptyForgets`), are the two maps of the graph consistent in the server's use of them | holds |
| `CycleCheck` | is every refusal justified (`RefusalsAreReal`); does the check find every cycle along chains (`ChainsStayOpen`); when does it throw (`ExceptionsNeedBlanks`) | holds |
| `ClientSheet` | updates in any order: does the client's sheet stay free of cycles, does the graph know it (`GraphKnowsSheet`), are values and grid current (`ValuesAreCurrent`, `PanelIsCurrent`), is a refused text without effect and a taken one without a second effect (`UpdatesAreAtomic`), is every refusal due (`RefusalsAreCircular`), does every saved file bring all texts back (`FilesReopen`); what of this survives a file opened in the window and evaluations that throw | holds |
| `Formula` | every text of up to seven tokens: does the constructor take exactly the expressions and stop at the first token that spoils one (`TextsAreExpressions`); is `Evaluate` their meaning (`EvaluateIsMeaning`); does the server take what the client takes, and how do the names it reads differ (`ServerTakesFormulas`); has the older library the meaning in its own arithmetic, and when does it throw (`EvaluatorIsMeaning`) | holds |
| `Conversation` | two clients, every cutting of the streams into reads, edits that are taken, refused or throw, updates that the client refuses: does a client whose reads were lines lack nothing but what is on its way and what it refused (`ViewsFollow`), and get the former in the end (`ClientsCatchUp`, liveness); what ends the server (`ServerStaysUp`), and what puts a client on another sheet than it chose (`ChoicesAreKept`) | holds |
| `Graphs` | until a call throws, is the client's graph the relation its summary describes (`IsRelation`, `TwoReadings`); what remains true after (`DependeesKnowAll`, `SizeCounts`); the server's counter against its pairs (`SizeBounds`); are the closed forms of both those of the loops, in every order of a hash set (`AllLoopsAgree`) | holds |
| `Server` | two clients, two sheets, one of them with a space in its name: `EditorsAreCurrent`, `SubscribersAreEditors`, `PlainFilesAreServed`, `KeepsHistories` | holds |
| `EditsStayOpen` | an accepted edit closes no cycle (`spreadsheet.h:28-31`) | violated |
| `EditsAreAnswered` | the check answers true or false | violated |
| `ServerSharedName` | the clients of a sheet are current, when two have one name | violated |
| `ValuesFollow` | every value is that of its formula (`AbstractSpreadsheet.cs:106-108`) | violated |
| `ControlC` | control-C ends the server (`README.txt:37`) | violated |

The violated ones:

- `EditsStayOpen`: A1 holds `=B1`, and B1 := `=A1+C1` is accepted. `visit` finds
  the cycle in its walk through A1, and the result of the walk through C1
  overwrites it (`spreadsheet.cpp:601`). `ChainsStayOpen`
  says what is left: with at most one name in each formula the check is exact. A
  blank is a name as well (`spreadsheet.cpp:278`), so `=A1 ` has two.
- `EditsAreAnswered`: emptying a cell that was never stored stores it without
  text; a formula elsewhere that leads there makes `at(0)` throw
  (`spreadsheet.cpp:546`), and nothing catches it.
- `ServerSharedName`: `removeClient` compares user names, so a client that
  leaves takes along others of its name (`spreadsheet.cpp:523`).
- `ValuesFollow`: B1 holds `=A1`, A1 holds 1, and A1 is emptied: the branch for
  the empty text recalculates nothing (`Spreadsheet.cs:336`), and B1 shows 1.
  `ValuesAreCurrent` says that nothing but an emptied cell has this effect,
  until an evaluation throws.
- `ControlC`: the handler waits for the mutex that the thread under it holds.

Observations that no run of its own shows: a revert or an undo is not checked
for cycles (`spreadsheet.cpp:225`, `253`), which `CycleCheck` takes into account
(`Restore`); `removeDependency` of the server leaves its pair in place, which
does no harm because no answer depends on the graph; in the client, a pair
`(s, s)`, the example of the class's own summary, throws on removal and leaves
the dictionaries apart, which `ClientDependencyGraph` takes into account; the branch for
the empty text also leaves the dependees of the cell in the graph, so that after
A1 := `=B1` and A1 := nothing the client refuses B1 := `=A1`, which the server
has accepted, and keeps the old text without a word (the premise of
`RefusalsAreCircular` leaves this case out, and no other).

Files disagree with the documentation. A cell that is set to the empty text is kept
in the dictionary with the content `""` (`Spreadsheet.cs:338`), so
`GetNamesOfAllNonemptyCells` names it (251) and `Save` writes an element for it
(570). But `AbstractSpreadsheet.cs:90-91` calls such a cell empty, line 183 wants
one element for each non-empty cell, and `UnitTest1.cs:603-608` expects no
non-empty cell after `""` was set. When the file is read the cell comes back with
white space for its text. So `FilesReopen` does not say that the cells are the
same: it asks that every text is back in its cell and that no other cell has more
than white space.

`createSpreadsheet` strips the spaces of a name, `setClient` and `save` do not
(`server.cpp:115`), so a file with a space in its name is loaded by no later
process; `PlainFilesAreServed` says that all others are.

What the premises of the `Formula` properties leave out is what the code does
otherwise. A name like `A1B1` passes the constructor (`Formula.cs:112`) and the
server, and `Evaluate` skips it (`Formula.cs:313`): a sum ends in an
`InvalidOperationException`, though the comment on line 300 says that the method
never throws, and `=2*A1B1+3` has the value 5. The server accepts texts that the
client refuses (`=-A1`, `=*A1`, `=2)+(3`, `=2(3)`), and refuses numerals with an
exponent and names with `_`. Of what both take they do not read the same names:
`=a1` is about A1 to the client and about `a1` to the server, which puts no text in
capital letters (`spreadsheet.cpp:543`, `548`, `619`), so a cycle through it is
seen by the client alone; and each blank is a name to the server, one that no cell
has, whose result can hide the cycle before it. The older library, which nothing
uses any more, throws at decimals and at a name with a blank beside it, since the
result of `Replace` is dropped (`Class1.cs:46`), and its quotients are integers, so
that `1/(1/2)` throws. When an evaluation throws, the cells behind it in
the list keep their old values, at every client and at every later update of a
cell above (`UpdatesAreAtomic` names the cause, and `GraphKnowsSheet` what is not
touched). After a file was opened, the window's own `Spreadsheet` has no
connection, and its requests are not sent (`firstReceive` is still true); an
update that it alone refuses sets the cell to its old text without the `=`,
though the comment on `Form1.cs:245` says that nothing is to be committed.

What the premises of `Conversation` leave out: a formula that the client refuses,
or that its window cannot take, is dropped by the `catch` of
`Spreadsheet.cs:673` and not sent again, though the server and the other clients
have it (`missed`); an edit that is only `=`, or one that empties a cell and then
one of a formula, may end the server (`EditsAreAnswered`); two updates in one read,
or one right after the id, are one line for the client, which drops it; a request sent
before the dialog is answered is taken for the name of a sheet, and the choice
then ends the server; so do two requests in one read. A text of which the
request just fits the 1024 bytes does not come back, since its update is longer.

### Bounds

- Cells: two or three in `SpreadsheetHistory` are enough for interleaved
  histories of different cells; four in `CycleCheck`, so that a cycle of three
  can lie beside the path to it and a formula can name two others.
- `MaxUndo`: requests that push are disabled at this length of the stack; all
  shorter histories, with all their undos, deaths and restarts, are explored.
  Two entries are the least at which the order of the saved lines matters.
- `MaxId`: the connections in the life of a process; the third is the return
  of a client that left. A restart starts counting again.
- Names of the graphs: three, so that a name has two others to be paired with.
  Nothing tells them apart, so states that differ by a permutation of them are
  one (`Symmetry`); all properties of this run are safety properties.
- `MaxSize` (`Graphs`): the count goes up only, so it has to be cut.
- `MaxTokens` (`Formula`): seven tokens hold two products and a sum, a product
  of two parentheses' contents, nested parentheses, and every error of placing;
  `Rare` tokens come once in a text, since two of them are no new case, and in one
  without blanks; a blank counts as a token. One name is in small letters, one
  numeral is a decimal. The arithmetic of `Formula` is that of the integers modulo
  11, where division is exact, and that of the older library is of integers of
  four bits, which are cut off and divided towards zero.
- `MaxCells`, `MaxUpdates` (`ClientSheet`): a file is opened, once, over a sheet
  of at most one cell, and two updates follow it; two follow an evaluation that
  threw. Before either, updates are unbounded. The file holds a formula whose
  cell is missing, so that later updates can be refused in one sheet alone.
- `MaxRequests` (`Conversation`): two, so that both clients edit one cell, or one
  edits while the other joins, and updates are in flight together. `MaxOdd`: one
  of the four streams may be read otherwise than message by message, as often as
  it likes. A message is parted once. Users make five edits
  (`Edits`): A1 is emptied, or gets a formula, which the server and each client may
  take or refuse, and B1 gets a formula too long for an update, one that is only
  `=`, or one that `evaluateFormula` refuses. So a blank in A1 can meet the check of
  a formula in B1, and a refused update of A1 is followed by another text.
- Texts: empty, one plain, formulas that name each of the cells, one that is
  refused and one that is nothing but `=`. `ClientSheet` has two numbers, so that
  an old value differs from the new one.
- `ClientSheet` has three cells: a cycle that takes all of them, and a cell that
  reaches another both directly and through the third, where the order of
  recalculation matters.

### Atomicity

Each handler is one action because the mutex is held through it and one thread
runs them all. The exception is `save`: a process killed while writing leaves
the lines written so far (each line is flushed by `std::endl`), which is `Torn`.
Only `ServerShutdown` goes below handlers, to the lock.

In the client the updates are taken one after another on the thread of the
network library, and the window's own thread reads the cells without a lock but
changes none, so an update is one action too; what a reader sees in the middle of
one is shown and not kept. Opening a file is one action: an update between its
steps is not modelled.

A write is taken to be done when it is called: `async_write_some` is given local
buffers and might write a part of them, which is up to the socket.

### Fairness

`ControlC`: weak fairness of the thread and of the signal handler says that the
operating system runs the process.

`Conversation`, for `ClientsCatchUp`: weak fairness of the reads of each client
and of the server for each connection. `io_service` has a read pending on each
connection at all times, and the network library on the client's; the handlers
end, if users close the message boxes that some of them open. Users need not do
anything: nobody has to connect, to answer the dialog or to send a request, and
a client that never chooses is no counterexample.

All other properties are safety properties, of specifications without fairness.

## Proofs

The theorems hold for any sets of cells and texts (`ContentAssumption`), names,
clients and requests, and for any bound that the model puts on a counter.
`SheetProofs` has the lemmas on `SheetOps`: types of the operators, the first
and last parts of a sequence, that reversing twice is the identity, and what an
operation does to the views of a stack. `Spreadsheet` and `Server` share it.

| Theorem | Module | Property |
|---|---|---|
| `TypeCorrect` | `SpreadsheetProofs` | `TypeOK` |
| `FileCorrect` | `SpreadsheetProofs` | `FileIsCurrent` |
| `NoSelfPair` | `SpreadsheetProofs` | `GraphHasNoSelfPair` |
| `EveryDependeeListed` | `SpreadsheetProofs` | `GraphListsEveryDependee` |
| `OneHistoryKept` | `SpreadsheetProofs` | `StackIsHistory` |
| `EmptyCellsForget` | `SpreadsheetProofs` | `EmptyForgets` |
| `HistoryKept` | `SpreadsheetProofs` | `KeepsHistory` (refinement) |
| `RefusalsReal` | `CycleCheckProofs` | `RefusalsAreReal` |
| `ChainsOpen` | `CycleCheckProofs` | `ChainsStayOpen` |
| `ThrowsNeedBlanks` | `CycleCheckProofs` | `ExceptionsNeedBlanks` |
| `HistoriesKept` | `ServerProofs` | `KeepsHistories` (refinement) |
| `FilesServed` | `ServerProofs` | `PlainFilesAreServed` |
| `EditorsCurrent` | `ServerProofs` | `EditorsAreCurrent`, if names are distinct |
| `SubscribersKept` | `ServerProofs` | `SubscribersAreEditors`, if names are distinct |
| `ServerTypes` | `ServerProofs` | `TypeOK`, if names are distinct |
| `NoPairForgotten` | `GraphProofs` | `DependeesKnowAll` |
| `ReadingsAgree` | `GraphProofs` | `TwoReadings` |
| `RelationKept` | `GraphProofs` | `IsRelation` (refinement) |
| `SizeKept` | `GraphProofs` | `SizeCounts` |
| `SizeKeepsUp` | `GraphProofs` | `SizeBounds` |
| `GraphTypes`, `ClientGraphTypes` | `GraphProofs` | `TypesOK`, `TypeOK` of the client's |
| `LoopsOfBothAgree`, `LoopsOfAnyLength` | `GraphProofs` | `AllLoopsAgree`; the server's for vectors of any length |
| `ServerEndsForAReason` | `ConversationProofs` | `ServerStaysUp` |
| `ChoicesKept` | `ConversationProofs` | `ChoicesAreKept` |
| `ViewsKept` | `ConversationProofs` | `ViewsFollow` |
| `ConversationTypes` | `ConversationProofs` | `TypeOK` |
| `SheetsOpen` | `ClientSheetProofs` | `SheetStaysOpen` |
| `GraphKnows` | `ClientSheetProofs` | `GraphKnowsSheet` |
| `ValuesCurrent` | `ClientSheetProofs` | `ValuesAreCurrent` |
| `PanelCurrent` | `ClientSheetProofs` | `PanelIsCurrent` |
| `UpdatesAtomic` | `ClientSheetProofs` | `UpdatesAreAtomic` |
| `RefusalsCircular` | `ClientSheetProofs` | `RefusalsAreCircular` |
| `FilesAgain` | `ClientSheetProofs` | `FilesReopen` |
| `SheetTypes` | `ClientSheetProofs` | `TypeOK` |
| `ConstructorTakesExpressions` | `ClientFormulaProofs` | `TextsAreExpressions` |
| `EvaluateReturnsMeaning` | `ClientFormulaProofs` | `EvaluateIsMeaning` |
| `ServerTakesTheFormulas` | `ClientFormulaProofs` | `ServerTakesFormulas` |
| `EvaluatorReturnsMeaning` | `ClientFormulaProofs` | `EvaluatorIsMeaning` |
| `FormulaTypes` | `ClientFormulaProofs` | `TypeOK` |

*One spreadsheet.*

`TypeOK` of `Spreadsheet` is inductive by itself: the operations keep a book a
book. With it, `FileIsCurrent` is inductive: each request ends by saving the new book, and
`Loaded(Saved(b)) = b`. The two graph invariants need each other: an accepted
formula does not name its own cell (`AcceptedHasNoSelf`), so if no cell is its
own dependee then the first loop of `replaceDependees` erases nothing from
`dependeeGraph` and the second adds every name there.

`OneHistoryKept` and the two after it rest on `HistoryInv`: the book and what the
next process would load are both `Sound` (`OneHistory` and `Forgetful`).
`StackIsHistory` alone is not inductive. A death replaces the book by what a torn file holds, so the
loaded file has to be sound as well; and undo erases a stored cell whose
restored text is empty, which drops its previous text, so that undo brings back
the whole view only where an empty text has no previous one. `SheetProofs`
says what one entry more does to all the views of a stack (`ExtendsHistory`) and
what dropping the oldest ones does (`ShortensHistory`); an edit and a revert are
such a push, an undo is one read backwards, and a torn save is a drop. The
refinement then follows from `HistoryInv` and `FileIsCurrent`, action by action.

*The circular check.* `visit` is a recursive function, and what it computes has
to hold on sheets with cycles, which reverts leave behind. Its calls shrink
(`CallsShrink`): of the cells that the check can reach, fewer are unvisited, or
the callee has no formula; `Weight` counts this. Sets of natural numbers have a
least member (`NatMin`), so if some call had no result, or a wrong one, there
would be one of the least weight, whose calls are all right: `VisitReturns` builds
the function from there, and `VisitInduction` says that what holds of a call as
soon as it holds of its calls holds of every call. By it, "circular" is only said of an
edited cell that lies behind itself (`CircularIsReal`), an exception comes from a
stored blank behind it (`ThrowsAtBlank`), and, where no formula has two names,
the only call of a call decides, so that "acyclic" is right (`ChainIsOpen`). These
compare with `Precedents`, the cells behind one, as the least closed set
(`PrecedentsAre`); finitely many cells are stored in every sheet of a history
(`SheetInv`), which all three theorems need.

*The server.* `Basic` needs no assumption: the fields have their types (but for
the lists of sockets), the sheet of every client that sends requests is there
(`Linked`), and a file with a plain name is the state of its sheet. A restart
keeps it because what is saved, whole or torn, loads to a book, and because a
plain name is the stripped form of itself. `Audience` adds that the sockets of a
sheet are editors of it, each once (`OnlyEditors`), that every editor is among them
(`Subscribed`) and that each has been told every text. It needs the assumption `DistinctNames`,
that no two connections can have one user name; without it the property is
false (`ServerSharedName`). Neither half of the equality of sockets and editors
is inductive alone: `removeClient` looks for a name, so that it takes out the
right socket follows from all sockets being editors of other names, and that
nothing but the one entry goes from each being there once. `RemoveNamedIs` solves
the loop, with the entry it steps over after an erasure: if exactly one entry has
the name, the list left is the list without it. `RequestStores` brings the three
requests that change a text to one form: the new book shows one cell otherwise,
and that text is what is sent. `HistoriesKept` follows one plain name: what its
file would load is `Sound`, and while the server runs it is the book of that sheet
(`Basic`), so requests on this sheet are steps of its history by the lemmas about
`SheetOps`, and nothing else touches the file: not another sheet, not one of which
the stripped name is the same, since it is saved under its own.

*The graphs.* The invariant of the client's relates the two dictionaries: no pair
is in `dependentGraph` alone, and as long as no call has thrown none is in
`dependeeGraph` alone. A call that throws stops between the two dictionaries, in
a replacement at any name of the list it was at (each order of a hash set is an
outcome), so the first half has to hold of every such part of an operation. With
it, an operation that does not throw does to the set of pairs what
`DependencyRelation` says of the call. The counter has an invariant of its own
(`Sized`): each part of an operation takes pairs out of `dependentGraph`, or puts
pairs in, and adds or subtracts their number; an exception does not come between
the two. The server's counter only adds, so there the bound is kept by the first
loops, which add no pair, and by the second, which count what they add.

*The conversation.* The invariant says what a client's stream to the server holds
at each stage of the handshake on the server's side: a name and then perhaps a
choice, a choice and then requests, requests; and of which clients this is so:
those that chose before they sent requests (not `early`) and of which each read
was one message (not `cut`). For these, what the server takes for a name or a
choice is one, and `ChoicesAreKept` follows. For `ServerStaysUp` it also has to be
known where an edit that throws comes from (`Known`): every edit in a stream was
sent, and every cell without text that is stored was asked to be empty. In the other
direction, `Views` says of each client by stage that nothing but notices is on
its way, to a window without texts, until the choice is read (`Quiet`), and that
from then on the texts it has and those on their way come to those of its sheet
(`Follows`). `ViewsFollow` alone is not inductive: the greeting has no line for an
empty cell, so it is right only for a client that was quiet before. All is said of
one cell (`Has`): if its last update is taken it has that text, and else the cell
is one that the client misses. What the steps do to a stream is that a message more
is the last one (`HasAppend`), that reading a part now, of which some updates are
refused, and the rest later comes to the same (`HasSplit`), and that the greeting
names every stored cell (`GreetingIs`).

*The client's sheet.* All eight theorems follow from one invariant, `Sound`: the
sheet and graph of the connection and those of the window fit (`Fits`), and until
something has failed their values are `Fresh` and the grid has those of the window.
A graph fits a sheet if it is the one of some dependees (`GraphOf`, with its
counter), which are the names of the formula of each cell that is not emptied, if
there is a set around every cell that its dependents do not leave (`AllOpen`), and
if no formula in it is malformed. Openness has to be stated of the graph, not of
the formulas: emptied cells keep dependees there, and the check walks these.
`SetContentsOfCell` is shown to do one of three things (`Outcome`): refuse, with
the graph put back exactly; empty the cell; or take the text and recalculate. This
rests on two results about loops. `Visit` goes through sets in any order and
calls itself; its calls get smaller in the pair (names not visited, names left to
the loop), and so what holds of a call as soon as it holds of its calls holds of
every call (`LoopInduction`). It gives that each call has its results
(`LoopReturns`), that what it visits is the least closed set around the name
(`LoopsWalk`), which makes it a test for cycles through it (`CircularIs`), and
that on an open graph the list it puts together has every cell ahead of those that
name it, once (`Line`). `RecalcHelper` goes through this list: each cell it has
come by is current and stays so, since those behind it are named by none before it
(`Recalculates`); so every cell it has reached is current in the end, and of the
others none names one that changed (`StaysFresh`). Setting a text again finds every
cell of the list current and changes nothing (`SetAgain`). A file that was saved
has only names among the dependees of an open graph, so no part of it, in any
order, can close a cycle (`LoadEnds`). The assumptions: there are finitely many
cells, a file that is opened has texts for cells (`SheetAssumption`), and the kinds
of texts are disjoint and formulas name cells (`TextAssumption`). The sum of the
values is `SumFunction` of the community modules, of which the proof needs that it
is a number and depends on nothing but the summands.

*The loops of the graphs.* `AllLoopsAgree` says that a set of outcomes in closed
form is that of running the loops in all orders. A loop is a recursive function;
if a sequence of graphs begins with the first and each is the call's result on
the one before, it is that function (`RemovalStages`, `AdditionStages`, and the
server's). So for each loop the closed form is stated of the names gone by, and
one call is shown to add its name. The removals of the client are clean up to the
name that throws: without it, a loop takes out all its pairs (`RemovesAll`), and
with it, it stops with exactly those gone that the order has ahead
(`RemovesAround`); that any subset can be ahead (`OrderAround`) makes the sets of
outcomes equal, not just one part of the other. The dependents and the dependees
are one proof, by a parameter for the direction. On the server, `replaceDependees`
erases something only if the cell is its own dependee, and then what the order has
ahead of it (`DropsBackAround`); its second loop adds the names ahead of the cell's
own (`EarlyTo`), for a vector of any length. The assumption is `NodeAssumption`:
there are finitely many names.

*The formulas.* The reference is a grammar: `Meaning` divides a text at the
outermost operator that binds least. What a text's token does to the depth of
parentheses is a count, so no proof has to build trees: an inductive invariant of
the constructor, `Reads`, says of the tokens read so far what each may stand
beside, and that the two counters are the counts of their parentheses; the types
follow at once. For `ServerTakesFormulas`, the names that the server reads are
gathered token by token (`NamesOf`, `NamesFound`), and compared with the names of
the constructor's list, which are those of the text in their normal form
(`NormalNames`). For `TextsAreExpressions`, a span of a
text is `Right` if its neighbours are right, it returns to the depth it began at
and is not below it in between; a span of more than one token that is right
splits at an outermost operator into two right spans, or is a parenthesis around
one, which is what `Meaning` does, so by induction on the length of the span the
right ones are those with a meaning. For `EvaluateIsMeaning` the same induction
runs the machine: `OperandDone`, `TermDone` and `SumDone` say what the two stacks
are behind an operand, a term and a sum, when nothing, a product or a sign waits
below. A name that is skipped leaves the stack of values one short for the rest of
the run; `Lags` counts by how much it is behind the operators, and an end that is
behind has no value. All but what is said of skipped names is proved once for both
libraries, each with its arithmetic and its kind of failure (`Failure`). The
assumptions say that the kinds of
tokens are disjoint (`TokenAssumption`, `TextAssumption`) and that the numbers are
closed under the operations, but for a division by zero (`NumberAssumption`);
nothing else is known of either arithmetic, so the value is that of the expression
operation for operation. One case of C# is outside of it: the quotient of the least
`int` and -1, which is an `OverflowException`.

Every invariant that a passing run checks is also a theorem, and so are the
refinements `KeepsHistory`, `KeepsHistories` and `IsRelation`. Out of the prover's
reach and left to TLC: `ClientsCatchUp` (liveness) and the runs that find a
violation (`ControlC` is one of liveness). `EditorsCurrent`, `SubscribersKept` and
`ServerTypes` need the assumption that names are distinct, which the instance of
their run satisfies. `ValuesAreCurrent` and `PanelIsCurrent` say nothing after an
evaluation has thrown, which is what the code does: the cells behind it in the
list keep old values.

## Not modelled

- White space other than single blanks in a formula, and an exception of a
  `Lookup` of the older library that is no `ArgumentException`.
- The bytes: JSON, the cutting of a formula into tokens by regular expressions,
  the numbers in numerals. Of the 1024-byte buffers there is only what fits.
- The errors of a connection in the middle of a conversation (`Server` has the
  disconnections), and a write that is not done at once.
- The `Changed` flag, the user id of a client (read by nothing), the messages
  about other users' selections, which the client ignores.
- The rest of the window: selection, drawing, background, help. The window's
  thread reading while the network's thread writes (`Form1.cs:204`): it changes
  what is shown once and no state.
- The binary library beyond what a read delivers; the test programs, which are
  not part of the system; the vendored `json2` (nearly all of the C++ lines
  under `src`), Newtonsoft's and `boost`, which are other projects' code.

## Plan

1. Done: the server's spreadsheet, its file, its check, both graphs, the whole
   server, shutdown; the client's sheet, with files; the formulas of both sides;
   the conversation; a theorem for every invariant that a passing run checks.
2. The disconnection of a client in the conversation, with its update still in a
   stream; a death of the server there.
