---------------------------- MODULE Conversation ----------------------------
(***************************************************************************)
(* The clients and the server over TCP.  A stream keeps the order of the   *)
(* messages and not their limits: one read may get several messages, or a  *)
(* part of one.  The server takes what it reads for one name, one choice   *)
(* of a sheet or one request; the client cuts what it reads into lines,    *)
(* and most of the messages it is sent are not ended by a line end.        *)
(*                                                                         *)
(* Of the requests there are edits, for all those that change a text, and  *)
(* selections; Server has them all.  There is one sheet to choose; others  *)
(* come about when the server takes something else for the choice.  What a *)
(* formula names is left open: the check may take it, refuse it, or throw  *)
(* if some cell is stored without a text, and a client may refuse it.      *)
(***************************************************************************)
EXTENDS Naturals, Sequences, SequencesExt, FiniteSets

CONSTANTS
  Client,
  Cell,
  Text,         \* the texts that are put into cells
  Empty,        \* the empty one
  Formula,      \* the formulas that evaluateFormula takes
  Refused,      \* those that it refuses
  Bare,         \* those without anything behind the '='
  Long,         \* those whose request fits the 1024 bytes of the server's
                \* buffer, and whose update does not fit those of a write
  Edits,        \* bound: the edits that users make, cells with texts
  MaxRequests,  \* bound: the requests of all the clients
  MaxOdd        \* bound: the streams that are read otherwise than message by
                \* message (two between the server and each client)

ASSUME TextAssumption ==
  /\ Formula \cup Refused \cup Bare \cup Long \subseteq Text
  /\ Empty \in Text \ (Formula \cup Refused \cup Bare \cup Long)
  /\ Formula \cap (Refused \cup Bare) = {} /\ Refused \cap Bare = {}
  /\ {MaxRequests, MaxOdd} \subseteq Nat

VARIABLES
  phase,     \* how far the window of each client is: see Phases
  view,      \* the texts each client has
  stage,     \* how far the server is with each connection: see Stages
  sheetOf,   \* the name of the sheet of each connection: what was read for it
  texts,     \* the texts of the spreadsheets, from their names
  blanks,    \* the cells that are stored without a text, with their sheets
  toServer,  \* what each client has sent and the server not read
  toClient,  \* what the server has sent each client and it has not read
  up,        \* is the server's process running?
  requests,  \* how many requests were sent
  asked,     \* (history) the edits that were sent
  missed,    \* (history) the cells of which a client refused the last update
  early,     \* (history) who sent a request before the choice of the sheet
  cut,       \* (history) of whom the server read other than one message
  garbled    \* (history) who read a message with another in one line, or in parts

client  == <<phase, view>>
server  == <<stage, sheetOf, texts, blanks, up>>
streams == <<toServer, toClient>>
history == <<requests, asked, missed, early, cut, garbled>>
vars    == <<client, server, streams, history>>

\* Not connected; connected, with firstReceive still true; at the dialog that
\* asks for a sheet, with the window open behind it; after the choice.
Phases == {"off", "waiting", "asking", "open"}

\* No connection; the name, or the choice of a sheet, or requests are read.
Stages == {"absent", "accepted", "named", "editing"}

Blank == [c \in Cell |-> Empty]

-----------------------------------------------------------------------------
(* The messages.  One whose end is a line end is `ended`.                  *)

Plain(kind)  == [kind |-> kind, ended |-> FALSE]
Choice       == [kind |-> "choice", ended |-> TRUE]
Edit(c, text) == [kind |-> "edit", cell |-> c, text |-> text, ended |-> FALSE]

\* An update: of a long text, what the 1024 bytes hold of it.
Update(c, text, ended) ==
  IF text \in Long THEN Plain("cut off")
  ELSE [kind |-> "update", cell |-> c, text |-> text, ended |-> ended]

\* The reads of a stream: some messages, and perhaps the first part of one more
\* (bound: a message is parted once).
Reads(stream) ==
  {[got |-> SubSeq(stream, 1, n), left |-> SubSeq(stream, n + 1, Len(stream))] : n \in DOMAIN stream}
  \cup
  {[got  |-> Append(SubSeq(stream, 1, n - 1), Plain("part")),
    left |-> <<[kind |-> "rest", ended |-> stream[n].ended]>> \o SubSeq(stream, n + 1, Len(stream))] :
      n \in {m \in DOMAIN stream : stream[m].kind # "rest"}}

Bounded == Cardinality(cut') + Cardinality(garbled') <= MaxOdd

IsOne(got, kinds) == Len(got) = 1 /\ got[1].kind \in kinds

-----------------------------------------------------------------------------

TypeOK ==
  /\ phase \in [Client -> Phases] /\ view \in [Client -> [Cell -> Text]]
  /\ stage \in [Client -> Stages] /\ up \in BOOLEAN
  /\ \A k \in Client : stage[k] = "editing" => sheetOf[k] \in DOMAIN texts
  /\ \A n \in DOMAIN texts : texts[n] \in [Cell -> Text \ (Refused \cup Bare)]
  /\ blanks \subseteq (DOMAIN texts) \X Cell /\ \A b \in blanks : texts[b[1]][b[2]] = Empty
  /\ requests \in 0..MaxRequests
  /\ asked \subseteq Cell \X Text /\ missed \in [Client -> SUBSET Cell]
  /\ {early, cut, garbled} \subseteq SUBSET Client

Init ==
  /\ phase = [k \in Client |-> "off"] /\ view = [k \in Client |-> Blank]
  /\ stage = [k \in Client |-> "absent"] /\ sheetOf = [k \in Client |-> <<>>]
  /\ texts = [n \in {<<Choice>>} |-> Blank] /\ blanks = {} /\ up = TRUE
  /\ toServer = [k \in Client |-> <<>>] /\ toClient = [k \in Client |-> <<>>]
  /\ requests = 0 /\ asked = {} /\ missed = [k \in Client |-> {}] /\ early = {} /\ cut = {} /\ garbled = {}

-----------------------------------------------------------------------------
(* The client.                                                             *)

Send(k, message) == toServer' = [toServer EXCEPT ![k] = Append(@, message)]

\* Connect and OnConnect, and handle_accept of the server.
Connect(k) ==
  /\ phase[k] = "off" /\ up
  /\ phase' = [phase EXCEPT ![k] = "waiting"]
  /\ stage' = [stage EXCEPT ![k] = "accepted"]
  /\ Send(k, Plain("name"))
  /\ UNCHANGED <<view, sheetOf, texts, blanks, up, toClient, history>>

\* Whatever is read is shown as the names of the sheets.
ShowSheets(k) ==
  /\ \E read \in Reads(toClient[k]) :
       /\ toClient' = [toClient EXCEPT ![k] = read.left]
       /\ garbled' = IF IsOne(read.got, {"sheets"}) THEN garbled ELSE garbled \cup {k}
  /\ phase' = [phase EXCEPT ![k] = "asking"]
  /\ UNCHANGED <<view, server, toServer, requests, asked, missed, early, cut>>
  /\ Bounded

\* ReceiveData, the first time: the dialog that asks for a sheet opens, and the
\* network's thread waits for it.
ReceiveFirst(k) == phase[k] = "waiting" /\ ShowSheets(k)

\* RequestSpreadsheet, when the dialog is answered.
ChooseSheet(k) ==
  /\ phase[k] = "asking"
  /\ phase' = [phase EXCEPT ![k] = "open"]
  /\ Send(k, Choice)
  /\ UNCHANGED <<view, server, toClient, history>>

\* A line is parsed if it is one message.
IsLine(got, i) ==
  /\ got[i].kind \notin {"part", "rest"}
  /\ (i > 1 => got[i - 1].ended) /\ (i < Len(got) => got[i].ended)

\* Mutant of Parsed: only the first line of a read is parsed.
ParsedFirst(got) == {1} \cap {i \in DOMAIN got : IsLine(got, i)}

Parsed(got) == {i \in DOMAIN got : IsLine(got, i)}

\* SetContentsOfCell throws for any formula that it cannot parse or that closes
\* a cycle for the client, and the catch drops the update: the places of the
\* lines that are taken.
Takings(got) ==
  LET formulas == {i \in Parsed(got) : got[i].kind = "update" /\ got[i].text \in Formula}
  IN {Parsed(got) \ refused : refused \in SUBSET formulas}

Updates(messages, places, c) == {i \in places : messages[i].kind = "update" /\ messages[i].cell = c}

\* The texts after the messages at these places: of the updates of a cell, the
\* last one stays.
Latest(texts0, messages, places) ==
  [c \in Cell |-> LET updates == Updates(messages, places, c)
                  IN IF updates = {} THEN texts0[c] ELSE messages[Max(updates)].text]

\* The cells whose last update is not among those taken.
Missing(missed0, messages, places, taken) ==
  {c \in Cell : LET updates == Updates(messages, places, c)
                IN IF updates = {} THEN c \in missed0 ELSE Max(updates) \notin taken}

\* ReceiveData and ProcessData, from then on.  What is no line is dropped.
ReceiveData(k) ==
  /\ phase[k] = "open"
  /\ \E read \in Reads(toClient[k]) :
       /\ toClient' = [toClient EXCEPT ![k] = read.left]
       /\ \E taken \in Takings(read.got) :
            /\ view' = [view EXCEPT ![k] = Latest(@, read.got, taken)]
            /\ missed' = [missed EXCEPT ![k] = Missing(@, read.got, Parsed(read.got), taken)]
       /\ garbled' = IF \A i \in DOMAIN read.got : IsLine(read.got, i) THEN garbled ELSE garbled \cup {k}
  /\ UNCHANGED <<phase, server, toServer, requests, asked, early, cut>>
  /\ Bounded

\* SendCellEdit, SendCellSelect and the like ask for no more than that
\* firstReceive is false.
SendRequest(k, message) ==
  /\ phase[k] \in {"asking", "open"} /\ requests < MaxRequests
  /\ requests' = requests + 1
  /\ asked' = IF message.kind = "edit" THEN asked \cup {<<message.cell, message.text>>} ELSE asked
  /\ early' = IF phase[k] = "asking" THEN early \cup {k} ELSE early
  /\ Send(k, message)
  /\ UNCHANGED <<client, server, toClient, missed, cut, garbled>>

-----------------------------------------------------------------------------
(* The server: the handlers of a read, with what they make of it.          *)

Read(k, from, read) ==
  /\ up /\ stage[k] = from
  /\ read \in Reads(toServer[k])
  /\ toServer' = [toServer EXCEPT ![k] = read.left]
  /\ cut' = IF IsOne(read.got, {"name", "choice", "edit", "other"}) THEN cut ELSE cut \cup {k}
  /\ UNCHANGED <<client, requests, asked, missed, early, garbled>>
  /\ Bounded

\* clientConnected.
ReadName(k) ==
  /\ \E read \in Reads(toServer[k]) : Read(k, "accepted", read)
  /\ stage' = [stage EXCEPT ![k] = "named"]
  /\ toClient' = [toClient EXCEPT ![k] = Append(@, [kind |-> "sheets", ended |-> TRUE])]
  /\ UNCHANGED <<sheetOf, texts, blanks, up>>

Stored(name, book) == {c \in Cell : book[c] # Empty \/ <<name, c>> \in blanks}

Lines(book, cells) == [i \in 1..Len(cells) |-> Update(cells[i], book[cells[i]], TRUE)]

\* addClient: the stored cells, one line each, and then what is in memory
\* behind the literal "\n\n", of which the id is taken for the index: anything,
\* or nothing if the system does not let it be read.
Greetings(name, book) ==
  {Lines(book, cells) \o id :
     cells \in SetToSeqs(Stored(name, book)), id \in {<<Plain("id")>>, <<>>}}

\* Mutant of Named: the first line alone is the name.
FirstNamed(got) == <<got[1]>>

\* The text that is taken for the name of the sheet.
Named(got) == got

Opened(name) == [n \in DOMAIN texts \cup {name} |-> IF n \in DOMAIN texts THEN texts[n] ELSE Blank]

\* spreadsheetAllocate.
ReadChoice(k) ==
  /\ \E read \in Reads(toServer[k]) :
       /\ Read(k, "named", read)
       /\ sheetOf' = [sheetOf EXCEPT ![k] = Named(read.got)]
  /\ stage' = [stage EXCEPT ![k] = "editing"]
  /\ texts' = Opened(sheetOf'[k])
  /\ \E greeting \in Greetings(sheetOf'[k], texts'[sheetOf'[k]]) :
       toClient' = [toClient EXCEPT ![k] = @ \o greeting]
  /\ UNCHANGED <<blanks, up>>

\* Mutant of Broadcast: the sender is left out.
BroadcastToOthers(k, message) ==
  toClient' = [j \in Client |-> IF stage[j] = "editing" /\ sheetOf[j] = sheetOf[k] /\ j # k
                                THEN Append(toClient[j], message) ELSE toClient[j]]

\* sendCellUpdate, processSelection: no line end follows.
Broadcast(k, message) ==
  toClient' = [j \in Client |-> IF stage[j] = "editing" /\ sheetOf[j] = sheetOf[k]
                                THEN Append(toClient[j], message) ELSE toClient[j]]

\* Mutant of Accepted: an edit is stored without a check.
AcceptedEdit(got) == IsOne(got, {"edit"})

\* setCellContents may store the text: evaluateFormula takes it.
Accepted(got) == IsOne(got, {"edit"}) /\ got[1].text \notin Refused \cup Bare

\* It may refuse it: so may dependencyCheck what evaluateFormula takes.
Declined(got) == IsOne(got, {"edit"}) /\ got[1].text \in Refused \cup Formula

\* Mutant of EditFails: the check also reads the cells that are not stored.
EditFailsUnstored(name, got) ==
  /\ IsOne(got, {"edit"})
  /\ \/ got[1].text \in Bare
     \/ got[1].text \in Formula /\ \E c \in Cell \ {got[1].cell} : texts[name][c] = Empty

\* It may throw: evaluateFormula for the last character of nothing, and the
\* check of a formula for the first of a cell that is stored without a text.
EditFails(name, got) ==
  /\ IsOne(got, {"edit"})
  /\ \/ got[1].text \in Bare
     \/ got[1].text \in Formula /\ \E c \in Cell \ {got[1].cell} : <<name, c>> \in blanks

\* What setCellContents, undoChange or processRevert leave of a cell with its
\* new text: an empty one is erased if it was stored, which only a revert
\* leaves undone.
BlanksAfter(name, c, text) ==
  IF text # Empty \/ <<name, c>> \in blanks THEN {blanks \ {<<name, c>>}}
  ELSE {blanks \cup {<<name, c>>}} \cup (IF texts[name][c] = Empty THEN {} ELSE {blanks})

\* handleRecieve of an edit that is accepted.
ReadEdit(k) ==
  /\ \E read \in Reads(toServer[k]) :
       /\ Accepted(read.got) /\ Read(k, "editing", read)
       /\ texts' = [texts EXCEPT ![sheetOf[k]][read.got[1].cell] = read.got[1].text]
       /\ blanks' \in BlanksAfter(sheetOf[k], read.got[1].cell, read.got[1].text)
       /\ Broadcast(k, Update(read.got[1].cell, read.got[1].text, FALSE))
  /\ UNCHANGED <<stage, sheetOf, up>>

\* Of an edit that is refused: requestError.
ReadBadEdit(k) ==
  /\ \E read \in Reads(toServer[k]) : Declined(read.got) /\ Read(k, "editing", read)
  /\ toClient' = [toClient EXCEPT ![k] = Append(@, Plain("other"))]
  /\ UNCHANGED server

\* Of a selection: cellSelected, to all.
ReadOther(k) ==
  /\ \E read \in Reads(toServer[k]) : IsOne(read.got, {"other"}) /\ Read(k, "editing", read)
  /\ Broadcast(k, Plain("other"))
  /\ UNCHANGED server

\* An exception: of setCellContents, or of json::parse, for all that is not one
\* request.  Nothing catches it.
ReadThrows(k) ==
  /\ \E read \in Reads(toServer[k]) :
       /\ Read(k, "editing", read)
       /\ EditFails(sheetOf[k], read.got) \/ ~IsOne(read.got, {"edit", "other"})
  /\ up' = FALSE
  /\ UNCHANGED <<stage, sheetOf, texts, blanks, toClient>>

-----------------------------------------------------------------------------

ClientReads(k) == ReceiveFirst(k) \/ ReceiveData(k)

ServerReads(k) ==
  ReadName(k) \/ ReadChoice(k) \/ ReadEdit(k) \/ ReadBadEdit(k) \/ ReadOther(k) \/ ReadThrows(k)

Next ==
  \E k \in Client :
    \/ Connect(k) \/ ChooseSheet(k)
    \/ \E c \in Cell, text \in Text : <<c, text>> \in Edits /\ SendRequest(k, Edit(c, text))
    \/ SendRequest(k, Plain("other"))
    \/ ClientReads(k) \/ ServerReads(k)

\* io_service and the network library go on reading; no user has to do
\* anything.
Spec ==
  /\ Init /\ [][Next]_vars
  /\ \A k \in Client : WF_vars(ClientReads(k)) /\ WF_vars(ServerReads(k))

-----------------------------------------------------------------------------

Agrees(k, t, without) ==
  \A c \in Cell :
    LET text == texts[sheetOf[k]][c]
    IN text \notin Long /\ (text \in Formula => c \notin without) => t[c] = text

\* A client whose reads were lines each lacks nothing but what is on its way:
\* if it now reads message by message, it has the texts of its sheet, though
\* addClient and the broadcasts of other clients' edits write to one socket.
\* Only texts at the limit of the buffer are excepted, and formulas that the
\* client has refused since it was last sent another text of their cells.
ViewsFollow ==
  \A k \in Client : stage[k] = "editing" /\ k \notin garbled =>
    LET all == DOMAIN toClient[k]
    IN Agrees(k, Latest(view[k], toClient[k], all), Missing(missed[k], toClient[k], all, all))

\* The server ends only after it read more or less than one message at a time,
\* after a user clicked before choosing a sheet, after a '=' without a formula
\* was sent to it, or after it was asked to empty a cell, and to put a formula
\* into another.
ServerStaysUp ==
  ~up => \/ cut # {} \/ early # {}
         \/ \E a \in asked : a[2] \in Bare
         \/ \E a, b \in asked : a[1] # b[1] /\ a[2] = Empty /\ b[2] \in Formula

\* While the server runs, a client is on the sheet it chose if each of its
\* messages was read by itself and it sent none before the choice, and else
\* it never is: nothing brings it back.
ChoicesAreKept ==
  up => \A k \in Client : stage[k] = "editing" =>
          (sheetOf[k] = <<Choice>> <=> k \notin early /\ k \notin cut)

\* If the server stays up and a client's reads are lines each, the client has
\* the texts of its sheet in the end, once it has chosen and all requests are
\* made, but for formulas that it refused as the last texts of their cells.
ClientsCatchUp ==
  <>[](\A k \in Client :
         up /\ k \notin garbled /\ phase[k] = "open"
           => stage[k] = "editing" /\ Agrees(k, view[k], missed[k]))

=============================================================================
