------------------------- MODULE ConversationProofs -------------------------
(***************************************************************************)
(* Proofs about Conversation, for any clients, cells and texts and any     *)
(* bounds: what the server's end and a client's wrong sheet come from, and *)
(* that a client lacks nothing but what is on its way.                     *)
(***************************************************************************)
EXTENDS Conversation, SequenceTheorems, FiniteSetTheorems, NaturalsInduction, TLAPS

\* What a client sends, and what may be in the stream: also the rest of a
\* message that was read in part.
Whole == {Plain("name"), Plain("other"), Choice} \cup {Edit(c, text) : c \in Cell, text \in Text}

Message == Whole \cup {[kind |-> "rest", ended |-> m.ended] : m \in Whole}

Sent == {"name", "choice", "edit", "other"}

Asked == {"edit", "other"}

\* Nothing that client k sent was read too early, too late or in part.
Orderly(k) == k \notin early /\ k \notin cut

\* The messages of client k that are on their way, by how far the server is
\* with its connection.
Absent(k) == phase[k] = "off" /\ toServer[k] = <<>> /\ toClient[k] = <<>> /\ Orderly(k)

Accepting(k) ==
  phase[k] = "waiting" /\ toServer[k] = <<Plain("name")>> /\ toClient[k] = <<>> /\ Orderly(k)

Naming(k) ==
  /\ phase[k] \in {"waiting", "asking", "open"}
  /\ phase[k] # "open" => (Orderly(k) <=> toServer[k] = <<>>)
  /\ phase[k] = "open" => toServer[k] # <<>>
  /\ toServer[k] # <<>> =>
       IF Orderly(k) THEN /\ toServer[k][1] = Choice
                          /\ \A i \in 2..Len(toServer[k]) : toServer[k][i].kind \in Asked
                     ELSE toServer[k][1].kind # "choice"

Editing(k) ==
  /\ phase[k] # "off"
  /\ sheetOf[k] = <<Choice>> <=> Orderly(k)
  /\ Orderly(k) => /\ phase[k] = "open"
                   /\ \A i \in 1..Len(toServer[k]) : toServer[k][i].kind \in Asked

InOrder(k) ==
  /\ stage[k] = "absent" => Absent(k)
  /\ stage[k] = "accepted" => Accepting(k)
  /\ stage[k] = "named" => Naming(k)
  /\ stage[k] = "editing" => Editing(k)

Types ==
  /\ phase \in [Client -> Phases]
  /\ stage \in [Client -> Stages]
  /\ toServer \in [Client -> Seq(Message)]
  /\ DOMAIN toClient = Client
  /\ DOMAIN sheetOf = Client
  /\ up \in BOOLEAN
  /\ early \subseteq Client /\ cut \subseteq Client

\* The edits that are on their way were sent, and the cells without a text were
\* asked for.
Known ==
  /\ \A k \in Client : \A i \in 1..Len(toServer[k]) :
       toServer[k][i].kind = "edit" => <<toServer[k][i].cell, toServer[k][i].text>> \in asked
  /\ \A b \in blanks : <<b[2], Empty>> \in asked

\* What is sent may end the server.
Endable ==
  \/ \E a \in asked : a[2] \in Bare
  \/ \E a, b \in asked : a[1] # b[1] /\ a[2] = Empty /\ b[2] \in Formula

Inv == Types /\ (up => \A k \in Client : InOrder(k)) /\ ServerStaysUp

-----------------------------------------------------------------------------

\* A read that is one message takes the first of the stream, whole; a read of
\* the only message takes all of it or a part.
LEMMA ReadsOf ==
  ASSUME NEW stream \in Seq(Message), NEW read \in Reads(stream)
  PROVE  /\ stream # <<>>
         /\ read.left \in Seq(Message)
         /\ IsOne(read.got, Sent) =>
              read.got = <<stream[1]>> /\ read.left = SubSeq(stream, 2, Len(stream))
         /\ Len(stream) = 1 =>
              \/ read.got = <<stream[1]>> /\ read.left = <<>>
              \/ /\ Len(read.got) = 1 /\ read.got[1].kind = "part"
                 /\ read.left = <<[kind |-> "rest", ended |-> stream[1].ended]>>
<1>1. CASE \E n \in DOMAIN stream : read = [got |-> SubSeq(stream, 1, n), left |-> SubSeq(stream, n + 1, Len(stream))]
  <2>1. PICK n \in DOMAIN stream : read = [got |-> SubSeq(stream, 1, n), left |-> SubSeq(stream, n + 1, Len(stream))]
    BY <1>1
  <2>2. n \in 1..Len(stream) /\ Len(stream) \in Nat
    OBVIOUS
  <2>3. read.got = SubSeq(stream, 1, n) /\ read.left = SubSeq(stream, n + 1, Len(stream))
    BY <2>1
  <2>4. Len(read.got) = n
    BY <2>2, <2>3
  <2>5. n = 1 => read.got = <<stream[1]>>
    <3> SUFFICES ASSUME n = 1
                 PROVE  SubSeq(stream, 1, 1) = <<stream[1]>>
      BY <2>3
    <3> DEFINE one == SubSeq(stream, 1, 1)
    <3>1. one \in Seq(Message) /\ Len(one) = 1 /\ one[1] = stream[1]
      BY <2>2
    <3>2. <<stream[1]>> \in Seq(Message) /\ Len(<<stream[1]>>) = 1 /\ <<stream[1]>>[1] = stream[1]
      BY <2>2
    <3> HIDE DEF one
    <3>3. \A i \in 1..Len(one) : one[i] = <<stream[1]>>[i]
      BY <3>1, <3>2
    <3>4. one = <<stream[1]>>
      BY <3>1, <3>2, <3>3, SeqEqual
    <3> QED
      BY <3>4 DEF one
  <2>6. stream # <<>> /\ read.left \in Seq(Message)
    BY <2>2, <2>3
  <2>7. IsOne(read.got, Sent) => n = 1
    BY <2>4 DEF IsOne
  <2>8. Len(stream) = 1 => n = 1 /\ read.left = <<>>
    BY <2>2, <2>3
  <2>9. n = 1 => read.left = SubSeq(stream, 2, Len(stream))
    BY <2>3
  <2> QED
    BY <2>5, <2>6, <2>7, <2>8, <2>9, Zenon
<1>2. CASE \E n \in DOMAIN stream :
             /\ stream[n].kind # "rest"
             /\ read = [got  |-> Append(SubSeq(stream, 1, n - 1), Plain("part")),
                        left |-> <<[kind |-> "rest", ended |-> stream[n].ended]>>
                                   \o SubSeq(stream, n + 1, Len(stream))]
  <2>1. PICK n \in DOMAIN stream :
          /\ stream[n].kind # "rest"
          /\ read = [got  |-> Append(SubSeq(stream, 1, n - 1), Plain("part")),
                     left |-> <<[kind |-> "rest", ended |-> stream[n].ended]>>
                                \o SubSeq(stream, n + 1, Len(stream))]
    BY <1>2
  <2> DEFINE before == SubSeq(stream, 1, n - 1)
             after  == SubSeq(stream, n + 1, Len(stream))
             rest   == [kind |-> "rest", ended |-> stream[n].ended]
  <2>2. n \in 1..Len(stream) /\ Len(stream) \in Nat
    OBVIOUS
  <2>3. read.got = Append(before, Plain("part")) /\ read.left = <<rest>> \o after
    BY <2>1
  <2>4. before \in Seq(Message) /\ after \in Seq(Message) /\ Len(before) = n - 1
    BY <2>2
  <2>5. stream[n] \in Message
    BY <2>2
  <2>6. rest \in Message
    <3>1. stream[n] \in Whole
      BY <2>1, <2>5 DEF Message
    <3> QED
      BY <3>1 DEF Message
  <2>7. Len(read.got) = n /\ read.got[n].kind = "part"
    <3>1. Plain("part").kind = "part"
      BY DEF Plain
    <3> HIDE DEF before
    <3> QED
      BY <2>2, <2>3, <2>4, <3>1
  <2>8. read.left \in Seq(Message)
    <3> HIDE DEF rest, after
    <3> QED
      BY <2>3, <2>4, <2>6
  <2>9. ~IsOne(read.got, Sent)
    BY <2>2, <2>7 DEF IsOne, Sent
  <2>10. Len(stream) = 1 => n = 1 /\ read.left = <<[kind |-> "rest", ended |-> stream[1].ended]>>
    <3> SUFFICES ASSUME Len(stream) = 1
                 PROVE  n = 1 /\ read.left = <<[kind |-> "rest", ended |-> stream[1].ended]>>
      OBVIOUS
    <3>1. n = 1 /\ after = <<>>
      BY <2>2
    <3> HIDE DEF after
    <3>2. <<rest>> \o after = <<rest>>
      BY <3>1
    <3> QED
      BY <2>3, <3>1, <3>2
  <2> HIDE DEF before, after, rest
  <2> QED
    BY <2>2, <2>7, <2>8, <2>9, <2>10
<1> QED
  BY <1>1, <1>2 DEF Reads

\* A step that changes nothing of a client leaves its messages in order.
LEMMA Frame ==
  ASSUME NEW j, InOrder(j),
         phase'[j] = phase[j], stage'[j] = stage[j],
         toServer'[j] = toServer[j], sheetOf'[j] = sheetOf[j],
         stage[j] \in {"absent", "accepted"} => toClient'[j] = toClient[j],
         j \in early' <=> j \in early, j \in cut' <=> j \in cut
  PROVE  InOrder(j)'
  BY DEF InOrder, Absent, Accepting, Naming, Editing, Orderly

\* The invariant holds before anybody connects.
LEMMA InitInOrder == Init => Inv
<1> SUFFICES ASSUME Init
             PROVE  Inv
  OBVIOUS
<1>1. Types
  <2>1. <<>> \in Seq(Message)
    OBVIOUS
  <2> QED
    BY <2>1 DEF Init, Types, Phases, Stages
<1>2. \A k \in Client : InOrder(k)
  BY DEF Init, InOrder, Absent, Orderly
<1>3. ServerStaysUp
  BY DEF Init, ServerStaysUp
<1> QED
  BY <1>1, <1>2, <1>3 DEF Inv

\* The others than client k are left alone by a step of k.
LeftAlone(k) ==
  \A j \in Client \ {k} :
    /\ phase'[j] = phase[j] /\ stage'[j] = stage[j]
    /\ toServer'[j] = toServer[j] /\ sheetOf'[j] = sheetOf[j]
    /\ stage[j] \in {"absent", "accepted"} => toClient'[j] = toClient[j]
    /\ (j \in early' <=> j \in early) /\ (j \in cut' <=> j \in cut)

\* So only the order of k's own messages is to be shown.
LEMMA OneClient ==
  ASSUME Inv, up' => up, Types', ServerStaysUp',
         NEW k \in Client, up' => InOrder(k)', LeftAlone(k)
  PROVE  Inv'
<1>1. ASSUME up', NEW j \in Client \ {k}
      PROVE  InOrder(j)'
  <2>1. InOrder(j)
    BY <1>1 DEF Inv
  <2> QED
    BY <2>1, Frame DEF LeftAlone
<1>2. up' => \A j \in Client : InOrder(j)'
  BY <1>1
<1> QED
  BY <1>2 DEF Inv

-----------------------------------------------------------------------------
(* The steps of a client.                                                  *)

\* Connect sends the name, to a stream that was empty.
LEMMA ConnectInOrder == ASSUME Inv, NEW k \in Client, Connect(k) PROVE Inv'
<1>1. up /\ InOrder(k) /\ Types /\ ServerStaysUp
  BY DEF Connect, Inv
<1>2. phase[k] = "off" /\ stage[k] = "absent"
  BY <1>1 DEF Connect, InOrder, Accepting, Naming, Editing, Types, Stages
<1>3. Absent(k)
  BY <1>1, <1>2 DEF InOrder
<1>4. Plain("name") \in Message
  BY DEF Message, Whole
<1>5. Types'
  BY <1>1, <1>4 DEF Connect, Types, Send, Phases, Stages, server, history
<1>6. /\ phase'[k] = "waiting" /\ stage'[k] = "accepted" /\ toClient'[k] = toClient[k]
      /\ toServer'[k] = Append(toServer[k], Plain("name"))
      /\ early' = early /\ cut' = cut
  BY <1>1 DEF Connect, Types, Send, history
<1>7. toServer'[k] = <<Plain("name")>>
  BY <1>3, <1>6 DEF Absent
<1>8. InOrder(k)'
  BY <1>3, <1>6, <1>7 DEF InOrder, Absent, Accepting, Orderly
<1>9. LeftAlone(k)
  BY <1>1 DEF Connect, LeftAlone, Types, Send, history
<1>10. up' = up /\ ServerStaysUp'
  BY <1>1 DEF Connect, ServerStaysUp, history
<1> QED
  BY <1>5, <1>8, <1>9, <1>10, OneClient

\* The dialog opens only after the server has read the name.
LEMMA ReceiveFirstInOrder == ASSUME Inv, NEW k \in Client, ReceiveFirst(k) PROVE Inv'
<1>1. Types /\ ServerStaysUp /\ (up => InOrder(k)) /\ phase[k] = "waiting"
  BY DEF ReceiveFirst, Inv
<1>2. toClient[k] # <<>>
  <2>1. PICK read \in Reads(toClient[k]) : TRUE
    BY DEF ReceiveFirst, ShowSheets
  <2>2. DOMAIN <<>> = {}
    OBVIOUS
  <2> QED
    BY <2>1, <2>2 DEF Reads
<1>3. /\ phase' = [phase EXCEPT ![k] = "asking"]
      /\ stage' = stage /\ toServer' = toServer /\ sheetOf' = sheetOf /\ up' = up
      /\ early' = early /\ cut' = cut /\ asked' = asked
  BY DEF ReceiveFirst, ShowSheets, server
<1>4. DOMAIN toClient' = Client /\ \A j \in Client \ {k} : toClient'[j] = toClient[j]
  <2>1. PICK read \in Reads(toClient[k]) : toClient' = [toClient EXCEPT ![k] = read.left]
    BY DEF ReceiveFirst, ShowSheets
  <2> QED
    BY <1>1, <2>1 DEF Types
<1>5. Types'
  BY <1>1, <1>3, <1>4 DEF Types, Phases
<1>6. ASSUME up'
      PROVE  InOrder(k)'
  <2>1. stage[k] \in {"named", "editing"} /\ (stage[k] = "named" => Naming(k)) /\ (stage[k] = "editing" => Editing(k))
    BY <1>1, <1>2, <1>3, <1>6 DEF InOrder, Absent, Accepting, Types, Stages
  <2>2. phase'[k] = "asking"
    BY <1>1, <1>3 DEF Types
  <2> QED
    BY <1>1, <1>3, <2>1, <2>2 DEF InOrder, Naming, Editing, Orderly
<1>7. LeftAlone(k)
  BY <1>1, <1>3, <1>4 DEF LeftAlone, Types
<1>8. ServerStaysUp'
  BY <1>1, <1>3 DEF ServerStaysUp
<1> QED
  BY <1>3, <1>5, <1>6, <1>7, <1>8, OneClient

\* What a client reads later changes nothing of what it sends.
LEMMA ReceiveDataInOrder == ASSUME Inv, NEW k \in Client, ReceiveData(k) PROVE Inv'
<1>1. Types /\ ServerStaysUp /\ (up => InOrder(k)) /\ phase[k] = "open"
  BY DEF ReceiveData, Inv
<1>2. /\ phase' = phase
      /\ stage' = stage /\ toServer' = toServer /\ sheetOf' = sheetOf /\ up' = up
      /\ early' = early /\ cut' = cut /\ asked' = asked
  BY DEF ReceiveData, server
<1>3. DOMAIN toClient' = Client /\ \A j \in Client \ {k} : toClient'[j] = toClient[j]
  <2>1. PICK read \in Reads(toClient[k]) : toClient' = [toClient EXCEPT ![k] = read.left]
    BY DEF ReceiveData
  <2> QED
    BY <1>1, <2>1 DEF Types
<1>4. Types'
  BY <1>1, <1>2, <1>3 DEF Types
<1>5. ASSUME up'
      PROVE  InOrder(k)'
  <2>1. stage[k] \in {"named", "editing"} /\ (stage[k] = "named" => Naming(k)) /\ (stage[k] = "editing" => Editing(k))
    BY <1>1, <1>2, <1>5 DEF InOrder, Absent, Accepting, Types, Stages
  <2> QED
    BY <1>2, <2>1 DEF InOrder, Naming, Editing, Orderly
<1>6. LeftAlone(k)
  BY <1>2, <1>3 DEF LeftAlone
<1>7. ServerStaysUp'
  BY <1>1, <1>2 DEF ServerStaysUp
<1> QED
  BY <1>2, <1>4, <1>5, <1>6, <1>7, OneClient

\* The choice is behind whatever was sent before it.
LEMMA ChooseSheetInOrder == ASSUME Inv, NEW k \in Client, ChooseSheet(k) PROVE Inv'
<1>1. Types /\ ServerStaysUp /\ (up => InOrder(k)) /\ phase[k] = "asking"
  BY DEF ChooseSheet, Inv
<1>2. /\ phase' = [phase EXCEPT ![k] = "open"]
      /\ toServer' = [toServer EXCEPT ![k] = Append(@, Choice)]
      /\ stage' = stage /\ toClient' = toClient /\ sheetOf' = sheetOf /\ up' = up
      /\ early' = early /\ cut' = cut /\ asked' = asked
  BY DEF ChooseSheet, Send, server, history
<1>3. Types'
  <2>1. Choice \in Message
    BY DEF Message, Whole
  <2> QED
    BY <1>1, <1>2, <2>1 DEF Types, Phases
<1>4. ASSUME up'
      PROVE  InOrder(k)'
  <2> DEFINE old == toServer[k]
             new == toServer'[k]
  <2>1. stage[k] \in {"named", "editing"} /\ (stage[k] = "named" => Naming(k)) /\ (stage[k] = "editing" => Editing(k))
    BY <1>1, <1>2, <1>4 DEF InOrder, Absent, Accepting, Types, Stages
  <2>2. /\ phase'[k] = "open" /\ stage'[k] = stage[k] /\ sheetOf'[k] = sheetOf[k]
        /\ Orderly(k)' <=> Orderly(k)
    BY <1>1, <1>2 DEF Types, Orderly
  <2>3. old \in Seq(Message) /\ new = Append(old, Choice)
    BY <1>1, <1>2 DEF Types
  <2>4. /\ Len(new) = Len(old) + 1 /\ new # <<>> /\ Len(old) \in Nat
        /\ old = <<>> => new[1] = Choice /\ Len(new) = 1
        /\ old # <<>> => new[1] = old[1]
    BY <2>3
  <2> HIDE DEF old, new
  <2>5. CASE stage[k] = "named"
    <3>1. Orderly(k) <=> old = <<>>
      BY <1>1, <2>1, <2>5 DEF Naming, old
    <3>2. old # <<>> => old[1].kind # "choice"
      BY <1>1, <2>1, <2>5, <3>1 DEF Naming, old
    <3>3. Naming(k)'
      BY <2>2, <2>4, <3>1, <3>2 DEF Naming, new
    <3> QED
      BY <2>2, <2>5, <3>3 DEF InOrder
  <2>6. CASE stage[k] = "editing"
    <3>1. ~Orderly(k) /\ sheetOf[k] # <<Choice>>
      BY <1>1, <2>1, <2>6 DEF Editing
    <3> QED
      BY <2>2, <2>6, <3>1 DEF InOrder, Editing
  <2> QED
    BY <2>1, <2>5, <2>6
<1>5. LeftAlone(k)
  BY <1>1, <1>2 DEF LeftAlone, Types
<1>6. ServerStaysUp'
  BY <1>1, <1>2 DEF ServerStaysUp
<1> QED
  BY <1>2, <1>3, <1>4, <1>5, <1>6, OneClient

\* A request comes after the choice, or is early.
LEMMA SendRequestInOrder ==
  ASSUME Inv, NEW k \in Client, NEW message \in Message, message.kind \in Asked,
         SendRequest(k, message)
  PROVE  Inv'
<1>1. Types /\ ServerStaysUp /\ (up => InOrder(k)) /\ phase[k] \in {"asking", "open"}
  BY DEF SendRequest, Inv
<1>2. /\ toServer' = [toServer EXCEPT ![k] = Append(@, message)]
      /\ early' = IF phase[k] = "asking" THEN early \cup {k} ELSE early
      /\ phase' = phase /\ stage' = stage /\ toClient' = toClient /\ sheetOf' = sheetOf
      /\ up' = up /\ cut' = cut /\ asked \subseteq asked'
  BY DEF SendRequest, Send, client, server
<1>3. Types'
  BY <1>1, <1>2 DEF Types
<1>4. ASSUME up'
      PROVE  InOrder(k)'
  <2> DEFINE old == toServer[k]
             new == toServer'[k]
  <2>1. stage[k] \in {"named", "editing"} /\ (stage[k] = "named" => Naming(k)) /\ (stage[k] = "editing" => Editing(k))
    BY <1>1, <1>2, <1>4 DEF InOrder, Absent, Accepting, Types, Stages
  <2>2. /\ phase'[k] = phase[k] /\ stage'[k] = stage[k] /\ sheetOf'[k] = sheetOf[k]
        /\ Orderly(k)' <=> Orderly(k) /\ phase[k] # "asking"
    BY <1>1, <1>2 DEF Types, Orderly
  <2>3. old \in Seq(Message) /\ new = Append(old, message)
    BY <1>1, <1>2 DEF Types
  <2>4. /\ Len(new) = Len(old) + 1 /\ new # <<>> /\ Len(old) \in Nat /\ (old # <<>> => Len(old) >= 1)
        /\ old = <<>> => new[1] = message
        /\ \A i \in 1..Len(old) : new[i] = old[i]
        /\ new[Len(new)] = message
    BY <2>3
  <2>5. message.kind # "choice" /\ Choice.kind = "choice"
    BY DEF Asked, Choice
  <2> HIDE DEF old, new
  <2>6. CASE stage[k] = "named"
    <3>1. CASE phase[k] = "asking"
      <4>1. new[1].kind # "choice"
        BY <2>1, <2>4, <2>5, <2>6, <3>1 DEF Naming, old
      <4> QED
        BY <2>2, <2>4, <2>6, <3>1, <4>1 DEF InOrder, Naming, new
    <3>2. CASE phase[k] = "open"
      <4>1. /\ old # <<>>
            /\ IF Orderly(k) THEN old[1] = Choice /\ \A i \in 2..Len(old) : old[i].kind \in Asked
                             ELSE old[1].kind # "choice"
        BY <2>1, <2>6, <3>2 DEF Naming, old
      <4>2. IF Orderly(k) THEN new[1] = Choice /\ \A i \in 2..Len(new) : new[i].kind \in Asked
                          ELSE new[1].kind # "choice"
        BY <2>4, <4>1
      <4>3. Orderly(k)' <=> Orderly(k)
        BY <2>2, <3>2
      <4> QED
        BY <2>2, <2>4, <2>6, <3>2, <4>2, <4>3 DEF InOrder, Naming, new
    <3> QED
      BY <1>1, <3>1, <3>2
  <2>7. CASE stage[k] = "editing"
    <3>1. Editing(k)
      BY <2>1, <2>7
    <3>2. Orderly(k)' <=> Orderly(k)
      BY <2>2, <3>1 DEF Editing
    <3>3. Orderly(k) => \A i \in 1..Len(new) : new[i].kind \in Asked
      BY <2>4, <3>1 DEF Editing, old
    <3> QED
      BY <2>2, <2>7, <3>1, <3>2, <3>3 DEF InOrder, Editing, new
  <2> QED
    BY <2>1, <2>6, <2>7
<1>5. LeftAlone(k)
  BY <1>1, <1>2 DEF LeftAlone, Types
<1>6. ServerStaysUp'
  <2>1. early \subseteq early' /\ cut' = cut /\ up' = up /\ asked \subseteq asked'
    BY <1>2
  <2>2. Endable => Endable'
    BY <2>1 DEF Endable
  <2>3. ServerStaysUp <=> (~up => cut # {} \/ early # {} \/ Endable)
    BY DEF ServerStaysUp, Endable
  <2>4. ServerStaysUp' <=> (~up' => cut' # {} \/ early' # {} \/ Endable')
    BY DEF ServerStaysUp, Endable
  <2> QED
    BY <1>1, <2>1, <2>2, <2>3, <2>4
<1> QED
  BY <1>2, <1>3, <1>4, <1>5, <1>6, OneClient

-----------------------------------------------------------------------------
(* The steps of the server.                                                *)

\* What each of its reads does to the stream.
LEMMA ReadDoes ==
  ASSUME Types, NEW k \in Client, NEW from, NEW read, Read(k, from, read)
  PROVE  /\ up /\ stage[k] = from /\ toServer[k] \in Seq(Message) /\ read \in Reads(toServer[k])
         /\ toServer' \in [Client -> Seq(Message)] /\ toServer'[k] = read.left
         /\ \A j \in Client \ {k} : toServer'[j] = toServer[j]
         /\ phase' = phase /\ early' = early
         /\ cut' = IF IsOne(read.got, Sent) THEN cut ELSE cut \cup {k}
<1>1. /\ up /\ stage[k] = from /\ read \in Reads(toServer[k])
      /\ toServer' = [toServer EXCEPT ![k] = read.left]
      /\ phase' = phase /\ early' = early
  BY DEF Read, client
<1>2. toServer \in [Client -> Seq(Message)]
  BY DEF Types
<1>3. read.left \in Seq(Message)
  BY <1>1, <1>2, ReadsOf
<1>4. cut' = IF IsOne(read.got, Sent) THEN cut ELSE cut \cup {k}
  BY DEF Read, Sent
<1> QED
  BY <1>1, <1>2, <1>3, <1>4

\* Of the name, all is read or a part.
LEMMA ReadNameInOrder == ASSUME Inv, NEW k \in Client, ReadName(k) PROVE Inv'
<1>0. Types /\ ServerStaysUp
  BY DEF Inv
<1>1. PICK read : Read(k, "accepted", read)
  BY DEF ReadName
<1>2. /\ up /\ stage[k] = "accepted" /\ toServer[k] \in Seq(Message) /\ read \in Reads(toServer[k])
      /\ toServer' \in [Client -> Seq(Message)] /\ toServer'[k] = read.left
      /\ \A j \in Client \ {k} : toServer'[j] = toServer[j]
      /\ phase' = phase /\ early' = early
      /\ cut' = IF IsOne(read.got, Sent) THEN cut ELSE cut \cup {k}
  BY <1>0, <1>1, ReadDoes
<1>3. /\ stage' = [stage EXCEPT ![k] = "named"]
      /\ DOMAIN toClient' = Client /\ \A j \in Client \ {k} : toClient'[j] = toClient[j]
      /\ sheetOf' = sheetOf /\ up' = up
  BY <1>0 DEF ReadName, Types
<1>4. Types'
  BY <1>0, <1>2, <1>3 DEF Types, Stages
<1>5. Accepting(k)
  BY <1>2 DEF Inv, InOrder
<1>6. toServer[k] = <<Plain("name")>>
  BY <1>5 DEF Accepting
<1>7. \/ read.got = <<Plain("name")>> /\ read.left = <<>>
      \/ /\ Len(read.got) = 1 /\ read.got[1].kind = "part"
         /\ read.left # <<>> /\ read.left[1].kind = "rest"
  <2>1. Len(toServer[k]) = 1 /\ toServer[k][1] = Plain("name")
    BY <1>6
  <2>2. \/ read.got = <<toServer[k][1]>> /\ read.left = <<>>
        \/ /\ Len(read.got) = 1 /\ read.got[1].kind = "part"
           /\ read.left = <<[kind |-> "rest", ended |-> toServer[k][1].ended]>>
    BY <1>2, <2>1, ReadsOf, Zenon
  <2> DEFINE rest == [kind |-> "rest", ended |-> toServer[k][1].ended]
  <2>3. rest.kind = "rest"
    OBVIOUS
  <2> HIDE DEF rest
  <2>4. <<rest>> # <<>> /\ <<rest>>[1].kind = "rest"
    BY <2>3
  <2>5. CASE read.got = <<toServer[k][1]>> /\ read.left = <<>>
    BY <2>1, <2>5
  <2>6. CASE Len(read.got) = 1 /\ read.got[1].kind = "part" /\ read.left = <<rest>>
    BY <2>4, <2>6
  <2> QED
    BY <2>2, <2>5, <2>6 DEF rest
<1>8. phase'[k] = "waiting" /\ stage'[k] = "named"
  BY <1>0, <1>2, <1>3, <1>5 DEF Accepting, Types
<1>9. ASSUME read.got = <<Plain("name")>>, read.left = <<>>
      PROVE  InOrder(k)'
  <2>1. IsOne(read.got, Sent)
    BY <1>9 DEF IsOne, Sent, Plain
  <2>2. Orderly(k)' /\ toServer'[k] = <<>>
    BY <1>2, <1>5, <1>9, <2>1 DEF Accepting, Orderly
  <2> QED
    BY <1>8, <2>2 DEF InOrder, Naming
<1>10. ASSUME Len(read.got) = 1, read.got[1].kind = "part",
              read.left # <<>>, read.left[1].kind = "rest"
       PROVE  InOrder(k)'
  <2>1. ~IsOne(read.got, Sent)
    BY <1>10 DEF IsOne, Sent
  <2>2. ~Orderly(k)' /\ toServer'[k] # <<>> /\ toServer'[k][1].kind = "rest"
    BY <1>2, <1>10, <2>1 DEF Orderly
  <2> QED
    BY <1>8, <2>2 DEF InOrder, Naming
<1>11. LeftAlone(k)
  BY <1>0, <1>2, <1>3 DEF LeftAlone, Types
<1>12. ServerStaysUp'
  BY <1>2, <1>3 DEF ServerStaysUp
<1> QED
  BY <1>3, <1>4, <1>7, <1>9, <1>10, <1>11, <1>12, OneClient

\* What is read for the choice is the choice, if nothing was sent before it and
\* it is read by itself.
LEMMA ReadChoiceInOrder == ASSUME Inv, NEW k \in Client, ReadChoice(k) PROVE Inv'
<1>0. Types /\ ServerStaysUp
  BY DEF Inv
<1>1. PICK read : Read(k, "named", read) /\ sheetOf' = [sheetOf EXCEPT ![k] = read.got]
  BY DEF ReadChoice, Named
<1>2. /\ up /\ stage[k] = "named" /\ toServer[k] \in Seq(Message) /\ read \in Reads(toServer[k])
      /\ toServer' \in [Client -> Seq(Message)] /\ toServer'[k] = read.left
      /\ \A j \in Client \ {k} : toServer'[j] = toServer[j]
      /\ phase' = phase /\ early' = early
      /\ cut' = IF IsOne(read.got, Sent) THEN cut ELSE cut \cup {k}
  BY <1>0, <1>1, ReadDoes
<1>3. /\ stage' = [stage EXCEPT ![k] = "editing"]
      /\ DOMAIN toClient' = Client /\ \A j \in Client \ {k} : toClient'[j] = toClient[j]
      /\ sheetOf'[k] = read.got /\ DOMAIN sheetOf' = Client
      /\ \A j \in Client \ {k} : sheetOf'[j] = sheetOf[j]
      /\ up' = up
  BY <1>0, <1>1 DEF ReadChoice, Types
<1>4. Types'
  BY <1>0, <1>2, <1>3 DEF Types, Stages
<1>5. Naming(k)
  BY <1>2 DEF Inv, InOrder
<1>6. stage'[k] = "editing"
  BY <1>0, <1>3 DEF Types
<1>7. Editing(k)'
  <2> DEFINE stream == toServer[k]
  <2>1. /\ stream # <<>>
        /\ IsOne(read.got, Sent) =>
             read.got = <<stream[1]>> /\ read.left = SubSeq(stream, 2, Len(stream))
    BY <1>2, ReadsOf
  <2>2. IsOne(<<Choice>>, Sent) /\ Choice.kind = "choice"
    BY DEF IsOne, Sent, Choice
  <2>3. phase'[k] # "off"
    BY <1>2, <1>5 DEF Naming
  <2>4. CASE Orderly(k) /\ IsOne(read.got, Sent)
    <3>1. /\ phase[k] = "open" /\ stream[1] = Choice
          /\ \A i \in 2..Len(stream) : stream[i].kind \in Asked
      BY <1>5, <2>1, <2>4 DEF Naming
    <3>2. read.got = <<Choice>> /\ read.left = SubSeq(stream, 2, Len(stream))
      BY <2>1, <2>4, <3>1
    <3>3. \A i \in 1..Len(read.left) : read.left[i].kind \in Asked
      <4> HIDE DEF stream
      <4>1. stream \in Seq(Message)
        BY <1>2 DEF stream
      <4>2. Len(read.left) = Len(stream) - 1 /\ \A i \in 1..Len(read.left) : read.left[i] = stream[i + 1]
        BY <2>1, <3>2, <4>1
      <4> QED
        BY <3>1, <4>1, <4>2
    <3>4. Orderly(k)'
      BY <1>2, <2>4 DEF Orderly
    <3> QED
      BY <1>2, <1>3, <2>3, <3>1, <3>2, <3>3, <3>4 DEF Editing
  <2>5. CASE Orderly(k) /\ ~IsOne(read.got, Sent)
    <3>1. read.got # <<Choice>>
      BY <2>2, <2>5
    <3>2. ~Orderly(k)'
      BY <1>2, <2>5 DEF Orderly
    <3> QED
      BY <1>3, <2>3, <3>1, <3>2 DEF Editing
  <2>6. CASE ~Orderly(k)
    <3>1. stream[1].kind # "choice"
      BY <1>5, <2>1, <2>6 DEF Naming
    <3>2. read.got # <<Choice>>
      <4> SUFFICES ASSUME read.got = <<Choice>>
                   PROVE  FALSE
        OBVIOUS
      <4>1. <<Choice>> = <<stream[1]>>
        BY <2>1, <2>2
      <4>2. <<Choice>>[1] = <<stream[1]>>[1]
        BY <4>1
      <4>3. Choice = stream[1]
        BY <4>2
      <4> QED
        BY <2>2, <3>1, <4>3
    <3>3. ~Orderly(k)'
      BY <1>2, <2>6 DEF Orderly
    <3> QED
      BY <1>3, <2>3, <3>2, <3>3 DEF Editing
  <2> QED
    BY <2>4, <2>5, <2>6
<1>8. InOrder(k)'
  BY <1>6, <1>7 DEF InOrder
<1>9. LeftAlone(k)
  BY <1>0, <1>2, <1>3 DEF LeftAlone, Types
<1>10. ServerStaysUp'
  BY <1>2, <1>3 DEF ServerStaysUp
<1> QED
  BY <1>3, <1>4, <1>8, <1>9, <1>10, OneClient

\* Of what is read later, all that is orderly is a request, and so does not end
\* the server, unless it is an edit that may.
LEMMA ReadEditingInOrder ==
  ASSUME Inv, NEW k \in Client, NEW read, Read(k, "editing", read),
         stage' = stage, sheetOf' = sheetOf, DOMAIN toClient' = Client,
         \A j \in Client : stage[j] # "editing" => toClient'[j] = toClient[j],
         up' \in BOOLEAN, up' => IsOne(read.got, Asked),
         ~up' /\ IsOne(read.got, Asked) => Endable'
  PROVE  Inv'
<1>0. Types /\ ServerStaysUp
  BY DEF Inv
<1>1. /\ up /\ stage[k] = "editing" /\ toServer[k] \in Seq(Message) /\ read \in Reads(toServer[k])
      /\ toServer' \in [Client -> Seq(Message)] /\ toServer'[k] = read.left
      /\ \A j \in Client \ {k} : toServer'[j] = toServer[j]
      /\ phase' = phase /\ early' = early
      /\ cut' = IF IsOne(read.got, Sent) THEN cut ELSE cut \cup {k}
  BY <1>0, ReadDoes
<1>2. Types'
  BY <1>0, <1>1 DEF Types
<1>3. Editing(k)
  BY <1>1 DEF Inv, InOrder
<1> DEFINE stream == toServer[k]
<1>4. /\ stream # <<>> /\ stream \in Seq(Message)
      /\ IsOne(read.got, Sent) =>
           read.got = <<stream[1]>> /\ read.left = SubSeq(stream, 2, Len(stream))
  BY <1>1, ReadsOf
<1>5. IsOne(read.got, Asked) => IsOne(read.got, Sent)
  BY DEF IsOne, Asked, Sent
<1>6. ASSUME up'
      PROVE  InOrder(k)'
  <2>1. cut' = cut
    BY <1>1, <1>5, <1>6
  <2>2. Orderly(k)' <=> Orderly(k)
    BY <1>1, <2>1 DEF Orderly
  <2>3. Orderly(k) => \A i \in 1..Len(read.left) : read.left[i].kind \in Asked
    <3> SUFFICES ASSUME Orderly(k)
                 PROVE  \A i \in 1..Len(read.left) : read.left[i].kind \in Asked
      OBVIOUS
    <3>1. \A i \in 1..Len(stream) : stream[i].kind \in Asked
      BY <1>3 DEF Editing
    <3> HIDE DEF stream
    <3>2. Len(read.left) = Len(stream) - 1 /\ \A i \in 1..Len(read.left) : read.left[i] = stream[i + 1]
      BY <1>4, <1>5, <1>6
    <3> QED
      BY <1>4, <3>1, <3>2
  <2>4. Editing(k)'
    BY <1>1, <1>3, <2>2, <2>3 DEF Editing
  <2> QED
    BY <1>1, <2>4 DEF InOrder
<1>7. LeftAlone(k)
  BY <1>1 DEF LeftAlone
<1>8. ServerStaysUp'
  <2> SUFFICES ASSUME ~up', Orderly(k)', ~Endable'
               PROVE  FALSE
    BY DEF ServerStaysUp, Orderly, Endable
  <2>1. Orderly(k) /\ IsOne(read.got, Sent)
    BY <1>1 DEF Orderly
  <2>2. stream[1].kind \in Asked
    <3>1. \A i \in 1..Len(stream) : stream[i].kind \in Asked
      BY <1>3, <2>1 DEF Editing
    <3> HIDE DEF stream
    <3> QED
      BY <1>4, <3>1
  <2>3. IsOne(read.got, Asked)
    BY <1>4, <2>1, <2>2 DEF IsOne
  <2> QED
    BY <2>3
<1> QED
  BY <1>1, <1>2, <1>6, <1>7, <1>8, OneClient

-----------------------------------------------------------------------------

\* Of an edit that ends the server, the text was sent, and if it needs a cell
\* without a text, so was that.
LEMMA FailingEdit ==
  ASSUME Types, Known, NEW k \in Client, NEW read, Read(k, "editing", read),
         EditFails(sheetOf[k], read.got)
  PROVE  Endable'
<1>1. read \in Reads(toServer[k]) /\ asked' = asked /\ toServer[k] \in Seq(Message)
  BY DEF Read, Types
<1>2. IsOne(read.got, {"edit"}) /\ IsOne(read.got, Sent)
  BY DEF EditFails, IsOne, Sent
<1>3. read.got = <<toServer[k][1]>> /\ toServer[k] # <<>>
  BY <1>1, <1>2, ReadsOf
<1> DEFINE m == toServer[k][1]
<1>4. read.got[1] = m /\ m.kind = "edit" /\ 1 \in 1..Len(toServer[k])
  BY <1>1, <1>2, <1>3 DEF IsOne
<1>5. <<m.cell, m.text>> \in asked
  BY <1>4 DEF Known
<1> HIDE DEF m
<1>6. CASE m.text \in Bare
  BY <1>1, <1>5, <1>6 DEF Endable
<1>7. ASSUME m.text \in Formula, NEW c \in Cell \ {m.cell}, <<sheetOf[k], c>> \in blanks
      PROVE  Endable'
  <2>1. <<c, Empty>> \in asked
    BY <1>7 DEF Known
  <2> QED
    BY <1>1, <1>5, <1>7, <2>1 DEF Endable
<1> QED
  BY <1>4, <1>6, <1>7 DEF EditFails

\* Every step keeps the messages of every client in order.
LEMMA StepInOrder == Inv /\ Known /\ [Next]_vars => Inv'
<1> SUFFICES ASSUME Inv, Known, [Next]_vars
             PROVE  Inv'
  OBVIOUS
<1>0. Types
  BY DEF Inv
<1>1. ASSUME NEW k \in Client, NEW c \in Cell, NEW text \in Text, SendRequest(k, Edit(c, text))
      PROVE  Inv'
  <2>1. Edit(c, text) \in Message /\ Edit(c, text).kind \in Asked
    <3>1. Edit(c, text) \in Message
      BY DEF Message, Whole
    <3>2. Edit(c, text).kind = "edit"
      BY DEF Edit
    <3> QED
      BY <3>1, <3>2 DEF Asked
  <2> QED
    BY <1>1, <2>1, SendRequestInOrder
<1>2. ASSUME NEW k \in Client, SendRequest(k, Plain("other"))
      PROVE  Inv'
  <2>1. Plain("other") \in Message
    BY DEF Message, Whole
  <2>2. Plain("other").kind \in Asked
    BY DEF Plain, Asked
  <2> QED
    BY <1>2, <2>1, <2>2, SendRequestInOrder
<1>3. ASSUME NEW k \in Client, ReadEdit(k)
      PROVE  Inv'
  <2>1. PICK read : /\ Accepted(read.got) /\ Read(k, "editing", read)
                    /\ Broadcast(k, Update(read.got[1].cell, read.got[1].text, FALSE))
    BY <1>3 DEF ReadEdit
  <2>2. IsOne(read.got, Asked)
    BY <2>1 DEF Accepted, IsOne, Asked
  <2>3. /\ DOMAIN toClient' = Client
        /\ \A j \in Client : stage[j] # "editing" => toClient'[j] = toClient[j]
    BY <2>1 DEF Broadcast
  <2>4. stage' = stage /\ sheetOf' = sheetOf /\ up' = up /\ up
    BY <1>3, <2>1 DEF ReadEdit, Read
  <2> QED
    BY <1>0, <2>1, <2>2, <2>3, <2>4, ReadEditingInOrder DEF Types
<1>4. ASSUME NEW k \in Client, ReadBadEdit(k)
      PROVE  Inv'
  <2>1. PICK read : IsOne(read.got, {"edit"}) /\ Read(k, "editing", read)
    BY <1>4 DEF ReadBadEdit, Declined
  <2>2. IsOne(read.got, Asked)
    BY <2>1 DEF IsOne, Asked
  <2>3. stage' = stage /\ sheetOf' = sheetOf /\ up' = up /\ up /\ stage[k] = "editing"
    BY <1>4, <2>1 DEF ReadBadEdit, Read, server
  <2>4. /\ DOMAIN toClient' = Client
        /\ \A j \in Client : stage[j] # "editing" => toClient'[j] = toClient[j]
    BY <1>0, <1>4, <2>3 DEF ReadBadEdit, Types
  <2> QED
    BY <1>0, <2>1, <2>2, <2>3, <2>4, ReadEditingInOrder DEF Types
<1>5. ASSUME NEW k \in Client, ReadOther(k)
      PROVE  Inv'
  <2>1. PICK read : IsOne(read.got, {"other"}) /\ Read(k, "editing", read)
    BY <1>5 DEF ReadOther
  <2>2. IsOne(read.got, Asked)
    BY <2>1 DEF IsOne, Asked
  <2>3. stage' = stage /\ sheetOf' = sheetOf /\ up' = up /\ up
    BY <1>5, <2>1 DEF ReadOther, Read, server
  <2>4. /\ DOMAIN toClient' = Client
        /\ \A j \in Client : stage[j] # "editing" => toClient'[j] = toClient[j]
    BY <1>5 DEF ReadOther, Broadcast
  <2> QED
    BY <1>0, <2>1, <2>2, <2>3, <2>4, ReadEditingInOrder DEF Types
<1>6. ASSUME NEW k \in Client, ReadThrows(k)
      PROVE  Inv'
  <2>1. PICK read : /\ EditFails(sheetOf[k], read.got) \/ ~IsOne(read.got, Asked)
                    /\ Read(k, "editing", read)
    BY <1>6 DEF ReadThrows, Asked
  <2>2. stage' = stage /\ sheetOf' = sheetOf /\ toClient' = toClient /\ up' = FALSE
    BY <1>6 DEF ReadThrows
  <2>3. IsOne(read.got, Asked) => Endable'
    BY <1>0, <2>1, FailingEdit
  <2> QED
    BY <1>0, <2>1, <2>2, <2>3, ReadEditingInOrder DEF Types
<1>7. CASE UNCHANGED vars
  <2>1. /\ phase' = phase /\ stage' = stage /\ toServer' = toServer /\ toClient' = toClient
        /\ sheetOf' = sheetOf /\ up' = up /\ early' = early /\ cut' = cut /\ asked' = asked
    BY <1>7 DEF vars, client, server, streams, history
  <2> QED
    BY <2>1 DEF Inv, Types, ServerStaysUp, InOrder, Absent, Accepting, Naming, Editing, Orderly
<1> QED
  BY <1>1, <1>2, <1>3, <1>4, <1>5, <1>6, <1>7, ConnectInOrder, ReceiveFirstInOrder,
     ReceiveDataInOrder, ChooseSheetInOrder, ReadNameInOrder, ReadChoiceInOrder
  DEF Next, ClientReads, ServerReads

\* What is left of a stream was in it, or is the rest of a message.
LEMMA LeftOf ==
  ASSUME NEW stream \in Seq(Message), NEW read \in Reads(stream), NEW i \in 1..Len(read.left),
         read.left[i].kind = "edit"
  PROVE  \E j \in 1..Len(stream) : read.left[i] = stream[j]
<1>1. CASE \E n \in DOMAIN stream :
             read = [got |-> SubSeq(stream, 1, n), left |-> SubSeq(stream, n + 1, Len(stream))]
  <2>0. PICK n \in DOMAIN stream :
          read = [got |-> SubSeq(stream, 1, n), left |-> SubSeq(stream, n + 1, Len(stream))]
    BY <1>1
  <2>1. read.left = SubSeq(stream, n + 1, Len(stream))
    BY <2>0
  <2>2. n \in 1..Len(stream) /\ Len(stream) \in Nat
    OBVIOUS
  <2>3. Len(read.left) = Len(stream) - n /\ \A m \in 1..Len(read.left) : read.left[m] = stream[n + m]
    BY <2>1, <2>2
  <2>4. n + i \in 1..Len(stream)
    BY <2>2, <2>3
  <2> QED
    BY <2>3, <2>4
<1>2. CASE \E n \in DOMAIN stream :
             read = [got  |-> Append(SubSeq(stream, 1, n - 1), Plain("part")),
                     left |-> <<[kind |-> "rest", ended |-> stream[n].ended]>> \o SubSeq(stream, n + 1, Len(stream))]
  <2>0. PICK n \in DOMAIN stream :
          read = [got  |-> Append(SubSeq(stream, 1, n - 1), Plain("part")),
                  left |-> <<[kind |-> "rest", ended |-> stream[n].ended]>> \o SubSeq(stream, n + 1, Len(stream))]
    BY <1>2
  <2>1. read.left = <<[kind |-> "rest", ended |-> stream[n].ended]>> \o SubSeq(stream, n + 1, Len(stream))
    BY <2>0
  <2> DEFINE rest  == [kind |-> "rest", ended |-> stream[n].ended]
             after == SubSeq(stream, n + 1, Len(stream))
  <2>2. n \in 1..Len(stream) /\ Len(stream) \in Nat /\ rest.kind = "rest"
    OBVIOUS
  <2>3. after \in Seq(Message) /\ Len(after) = Len(stream) - n /\ \A m \in 1..Len(after) : after[m] = stream[n + m]
    BY <2>2
  <2>4. read.left = <<rest>> \o after
    BY <2>1
  <2> HIDE DEF rest, after
  <2>5. CASE i = 1
    <3>1. read.left[1] = rest
      BY <2>3, <2>4
    <3> QED
      BY <2>2, <2>5, <3>1
  <2>6. CASE i # 1
    <3>1. i - 1 \in 1..Len(after) /\ read.left[i] = after[i - 1]
      BY <2>3, <2>4, <2>6
    <3>2. n + (i - 1) \in 1..Len(stream) /\ read.left[i] = stream[n + (i - 1)]
      BY <2>2, <2>3, <3>1
    <3> QED
      BY <3>2
  <2> QED
    BY <2>5, <2>6
<1> QED
  BY <1>1, <1>2 DEF Reads

\* The streams and the cells without a text, after a step that asks for no more.
LEMMA KnownFrame ==
  ASSUME Known, asked \subseteq asked',
         \A k \in Client : \A i \in 1..Len(toServer'[k]) :
           toServer'[k][i].kind = "edit" =>
             \/ \E j \in 1..Len(toServer[k]) : toServer'[k][i] = toServer[k][j]
             \/ <<toServer'[k][i].cell, toServer'[k][i].text>> \in asked',
         \A b \in blanks' : b \in blanks \/ <<b[2], Empty>> \in asked'
  PROVE  Known'
  BY DEF Known

\* A client appends a message that is an edit only if it was asked.
LEMMA KnownSend ==
  ASSUME Types, Known, NEW k \in Client, NEW m, m \in Message,
         toServer' = [toServer EXCEPT ![k] = Append(@, m)], asked \subseteq asked', blanks' = blanks,
         m.kind = "edit" => <<m.cell, m.text>> \in asked'
  PROVE  Known'
<1>1. ASSUME NEW j \in Client, NEW i \in 1..Len(toServer'[j]), toServer'[j][i].kind = "edit"
      PROVE  \/ \E l \in 1..Len(toServer[j]) : toServer'[j][i] = toServer[j][l]
             \/ <<toServer'[j][i].cell, toServer'[j][i].text>> \in asked'
  <2>1. CASE j # k
    <3>1. toServer'[j] = toServer[j]
      BY <2>1 DEF Types
    <3> QED
      BY <1>1, <3>1
  <2>2. CASE j = k
    <3>1. toServer'[j] = Append(toServer[j], m) /\ toServer[j] \in Seq(Message)
      BY <2>2 DEF Types
    <3>2. toServer'[j][i] = IF i \in 1..Len(toServer[j]) THEN toServer[j][i] ELSE m
      BY <1>1, <3>1
    <3> QED
      BY <1>1, <3>2
  <2> QED
    BY <2>1, <2>2
<1> QED
  BY <1>1, KnownFrame

\* A read of the server leaves what was there.
LEMMA KnownRead ==
  ASSUME Types, Known, NEW k \in Client, NEW from, NEW read, Read(k, from, read),
         \A b \in blanks' : b \in blanks \/ <<b[2], Empty>> \in asked
  PROVE  Known'
<1>1. read \in Reads(toServer[k]) /\ asked' = asked /\ toServer' = [toServer EXCEPT ![k] = read.left]
  BY DEF Read
<1>2. ASSUME NEW j \in Client, NEW i \in 1..Len(toServer'[j]), toServer'[j][i].kind = "edit"
      PROVE  \E l \in 1..Len(toServer[j]) : toServer'[j][i] = toServer[j][l]
  <2>1. CASE j # k
    <3>1. toServer'[j] = toServer[j]
      BY <1>1, <2>1 DEF Types
    <3> QED
      BY <1>2, <3>1
  <2>2. CASE j = k
    <3>1. toServer'[j] = read.left /\ toServer[j] \in Seq(Message)
      BY <1>1, <2>2 DEF Types
    <3> QED
      BY <1>1, <1>2, <2>2, <3>1, LeftOf
  <2> QED
    BY <2>1, <2>2
<1> QED
  BY <1>1, <1>2, KnownFrame

LEMMA StepKnown == Inv /\ Known /\ [Next]_vars => Known'
<1> SUFFICES ASSUME Inv, Known, [Next]_vars
             PROVE  Known'
  OBVIOUS
<1>0. Types
  BY DEF Inv
<1>1. ASSUME NEW k \in Client, Connect(k) PROVE Known'
  <2>1. Plain("name") \in Message /\ Plain("name").kind = "name"
    BY DEF Message, Whole, Plain
  <2> QED
    BY <1>0, <1>1, <2>1, KnownSend DEF Connect, Send, history
<1>2. ASSUME NEW k \in Client, ChooseSheet(k) PROVE Known'
  <2>1. Choice \in Message /\ Choice.kind = "choice"
    BY DEF Message, Whole, Choice
  <2> QED
    BY <1>0, <1>2, <2>1, KnownSend DEF ChooseSheet, Send, server, history
<1>3. ASSUME NEW k \in Client, NEW c \in Cell, NEW text \in Text, SendRequest(k, Edit(c, text))
      PROVE  Known'
  <2> DEFINE m == Edit(c, text)
  <2>1. m \in Message /\ m.kind = "edit" /\ m.cell = c /\ m.text = text
    <3>1. m \in Message
      BY DEF Message, Whole
    <3> QED
      BY <3>1 DEF Edit
  <2> HIDE DEF m
  <2>2. asked' = asked \cup {<<m.cell, m.text>>}
    BY <1>3, <2>1 DEF SendRequest, m
  <2>3. toServer' = [toServer EXCEPT ![k] = Append(@, m)] /\ blanks' = blanks
    BY <1>3 DEF SendRequest, Send, server, m
  <2> QED
    BY <1>0, <2>1, <2>2, <2>3, KnownSend
<1>4. ASSUME NEW k \in Client, SendRequest(k, Plain("other")) PROVE Known'
  <2>1. Plain("other") \in Message /\ Plain("other").kind = "other"
    BY DEF Message, Whole, Plain
  <2> QED
    BY <1>0, <1>4, <2>1, KnownSend DEF SendRequest, Send, server
<1>5. ASSUME NEW k \in Client, ClientReads(k) PROVE Known'
  <2>1. toServer' = toServer /\ asked' = asked /\ blanks' = blanks
    BY <1>5 DEF ClientReads, ReceiveFirst, ShowSheets, ReceiveData, server
  <2> QED
    BY <2>1 DEF Known
<1>6. ASSUME NEW k \in Client, ServerReads(k), ~ReadEdit(k) PROVE Known'
  <2>1. blanks' = blanks /\ \E from, read : Read(k, from, read)
    BY <1>6 DEF ServerReads, ReadName, ReadChoice, ReadBadEdit, ReadOther, ReadThrows, server
  <2> QED
    BY <1>0, <2>1, KnownRead
<1>7. ASSUME NEW k \in Client, ReadEdit(k) PROVE Known'
  <2>1. PICK read : /\ Accepted(read.got) /\ Read(k, "editing", read)
                    /\ blanks' \in BlanksAfter(sheetOf[k], read.got[1].cell, read.got[1].text)
    BY <1>7 DEF ReadEdit
  <2>2. read \in Reads(toServer[k]) /\ toServer[k] \in Seq(Message) /\ IsOne(read.got, Sent)
    BY <1>0, <2>1 DEF Read, Types, Accepted, IsOne, Sent
  <2>3. read.got = <<toServer[k][1]>> /\ toServer[k] # <<>>
    BY <2>2, ReadsOf
  <2>4. read.got[1] = toServer[k][1] /\ read.got[1].kind = "edit" /\ 1 \in 1..Len(toServer[k])
    BY <2>1, <2>2, <2>3 DEF Accepted, IsOne
  <2>5. <<read.got[1].cell, read.got[1].text>> \in asked
    BY <2>4 DEF Known
  <2> DEFINE c == read.got[1].cell
             text == read.got[1].text
  <2> HIDE DEF c, text
  <2>6. \A b \in blanks' : b \in blanks \/ (b = <<sheetOf[k], c>> /\ text = Empty)
    BY <2>1 DEF BlanksAfter, c, text
  <2>7. \A b \in blanks' : b \in blanks \/ <<b[2], Empty>> \in asked
    BY <2>5, <2>6 DEF c, text
  <2> QED
    BY <1>0, <2>1, <2>7, KnownRead
<1>8. CASE UNCHANGED vars
  BY <1>8 DEF vars, server, streams, history, Known
<1> QED
  BY <1>1, <1>2, <1>3, <1>4, <1>5, <1>6, <1>7, <1>8 DEF Next

\* The invariant holds of every conversation, at every time.
LEMMA InOrderAlways == Spec => []Inv
<1>1. Init => Known
  BY DEF Init, Known
<1>2. Init => Inv
  BY InitInOrder
<1>3. Inv /\ Known /\ [Next]_vars => (Inv /\ Known)'
  BY StepInOrder, StepKnown
<1> QED
  BY <1>1, <1>2, <1>3, PTL DEF Spec

\* With any number of clients and requests, the server ends only after it read
\* more or less than one message at a time, after a user clicked before
\* choosing a sheet (network_controller.cpp:176, 206), or after edits that may
\* end setCellContents in an exception: a '=' without a formula
\* (spreadsheet.cpp:383), or an emptied cell, which may be stored without a
\* text, and a formula in another (spreadsheet.cpp:546).
THEOREM ServerEndsForAReason == Spec => []ServerStaysUp
<1>1. Inv => ServerStaysUp
  BY DEF Inv
<1> QED
  BY <1>1, InOrderAlways, PTL

\* While the server runs, the clients on the sheet they chose are those of whom
\* it read each message by itself, and that sent none before the choice.
THEOREM ChoicesKept == Spec => []ChoicesAreKept
<1>1. Inv => ChoicesAreKept
  BY DEF Inv, InOrder, Editing, Orderly, ChoicesAreKept
<1> QED
  BY <1>1, InOrderAlways, PTL

-----------------------------------------------------------------------------
(* The texts that a sequence of messages leaves.                           *)

\* The last of some places of a sequence.
LEMMA LastOf ==
  ASSUME NEW n \in Nat, NEW T \in SUBSET (1..n), T # {}
  PROVE  Max(T) \in T /\ \A i \in T : i <= Max(T)
<1> DEFINE U == {n - i : i \in T}
           R == OpToRel(<, Nat)
<1>1. U \in SUBSET Nat /\ U # {}
  <2>1. \A i \in T : i \in 1..n
    OBVIOUS
  <2>2. \A i \in T : n - i \in Nat
    BY <2>1
  <2>3. \A j \in U : j \in Nat
    BY <2>2
  <2>4. PICK i \in T : TRUE
    OBVIOUS
  <2>5. n - i \in U
    OBVIOUS
  <2> QED
    BY <2>3, <2>5
<1>2. \A x, y \in Nat : <<x, y>> \in R <=> x < y
  BY DEF OpToRel
<1>3. \E x \in U : \A y \in U : ~ (<<y, x>> \in R)
  <2>1. IsWellFoundedOn(R, Nat)
    BY NatLessThanWellFounded
  <2> HIDE DEF R, U
  <2> QED
    BY <1>1, <2>1, WFMin, Zenon
<1> HIDE DEF R
<1>4. PICK x \in U : \A y \in U : ~ (<<y, x>> \in R)
  BY <1>3
<1>5. PICK m \in T : x = n - m
  BY <1>4
<1>6. ASSUME NEW i \in T PROVE i <= m
  <2>1. n - i \in U /\ n - m \in U /\ n - i \in Nat /\ n - m \in Nat
    BY <1>1
  <2>2. ~(n - i < n - m)
    BY <1>2, <1>4, <1>5, <2>1
  <2>3. i \in 1..n /\ m \in 1..n
    OBVIOUS
  <2> QED
    BY <2>2, <2>3
<1>7. \A i \in T : (\A j \in T : i >= j) => i = m
  <2>1. \A i \in T : i \in 1..n
    OBVIOUS
  <2> QED
    BY <1>6, <2>1
<1>8. m \in T /\ \A j \in T : m >= j
  <2>1. \A i \in T : i \in 1..n
    OBVIOUS
  <2> QED
    BY <1>6, <2>1
<1>9. Max(T) = m
  BY <1>7, <1>8 DEF Max
<1> QED
  BY <1>6, <1>9

IsUpdate(m, c) == m.kind = "update" /\ m.cell = c

\* None of the messages at these places is an update of the cell; this is the
\* last one.
Without(s, places, c) == \A i \in places : ~IsUpdate(s[i], c)

IsLast(s, places, c, i) ==
  i \in places /\ IsUpdate(s[i], c) /\ \A j \in places : IsUpdate(s[j], c) => j <= i

\* The last update of a cell decides its text.
LEMMA LatestWithout ==
  ASSUME NEW t, NEW s, NEW places, NEW c \in Cell, Without(s, places, c)
  PROVE  Latest(t, s, places)[c] = t[c]
<1>1. Updates(s, places, c) = {}
  BY DEF Without, IsUpdate, Updates
<1> QED
  BY <1>1 DEF Latest

LEMMA MissingWithout ==
  ASSUME NEW m0, NEW s, NEW places, NEW taken, NEW c \in Cell, Without(s, places, c)
  PROVE  c \in Missing(m0, s, places, taken) <=> c \in m0
<1>1. Updates(s, places, c) = {}
  BY DEF Without, IsUpdate, Updates
<1> QED
  BY <1>1 DEF Missing

\* The last of the updates is the one at that place.
LEMMA LastIs ==
  ASSUME NEW s, NEW places \in SUBSET Nat, NEW c, NEW i, IsLast(s, places, c, i)
  PROVE  Updates(s, places, c) # {} /\ Max(Updates(s, places, c)) = i
<1> DEFINE T == Updates(s, places, c)
<1>1. i \in T /\ T \in SUBSET Nat /\ \A j \in T : j <= i
  BY DEF IsLast, IsUpdate, Updates
<1> HIDE DEF T
<1>2. Max(T) = i
  <2>1. \A x \in T : (\A y \in T : x >= y) => x = i
    BY <1>1
  <2>2. \A y \in T : i >= y
    BY <1>1
  <2> QED
    BY <1>1, <2>1, <2>2 DEF Max
<1> QED
  BY <1>1, <1>2 DEF T

LEMMA LatestAt ==
  ASSUME NEW t, NEW s, NEW places \in SUBSET Nat, NEW c \in Cell, NEW i, IsLast(s, places, c, i)
  PROVE  Latest(t, s, places)[c] = s[i].text
  BY LastIs DEF Latest

LEMMA MissingAt ==
  ASSUME NEW m0, NEW s, NEW places \in SUBSET Nat, NEW taken, NEW c \in Cell, NEW i, IsLast(s, places, c, i)
  PROVE  c \in Missing(m0, s, places, taken) <=> i \notin taken
  BY LastIs DEF Missing

LEMMA LastUpdate ==
  ASSUME NEW s, NEW n \in Nat, NEW places \in SUBSET (1..n), NEW c \in Cell,
         ~Without(s, places, c)
  PROVE  \E i : IsLast(s, places, c, i)
<1> DEFINE T == {j \in places : IsUpdate(s[j], c)}
<1>1. T # {} /\ T \in SUBSET (1..n)
  BY DEF Without
<1>2. PICK i \in T : \A j \in T : j <= i
  BY <1>1, LastOf
<1> QED
  BY <1>2 DEF IsLast

\* So two sequences leave a cell alike if their last updates of it do.
LEMMA LatestCases ==
  ASSUME NEW t, NEW s, NEW n \in Nat, NEW places \in SUBSET (1..n), NEW c \in Cell
  PROVE  \/ Without(s, places, c) /\ Latest(t, s, places)[c] = t[c]
         \/ \E i \in places : IsLast(s, places, c, i) /\ Latest(t, s, places)[c] = s[i].text
<1>1. places \in SUBSET Nat
  OBVIOUS
<1>2. CASE Without(s, places, c)
  BY <1>2, LatestWithout
<1>3. CASE ~Without(s, places, c)
  <2>1. PICK i : IsLast(s, places, c, i)
    BY <1>3, LastUpdate
  <2>2. Latest(t, s, places)[c] = s[i].text
    BY <1>1, <2>1, LatestAt
  <2> QED
    BY <2>1, <2>2 DEF IsLast
<1> QED
  BY <1>2, <1>3

\* A cell whose updates all say the same has that text if there are any, or
\* if it had it before.
LEMMA LatestAgrees ==
  ASSUME NEW t, NEW s, NEW n \in Nat, NEW places \in SUBSET (1..n), NEW c \in Cell, NEW w,
         \A i \in places : IsUpdate(s[i], c) => s[i].text = w,
         t[c] # w => \E i \in places : IsUpdate(s[i], c)
  PROVE  Latest(t, s, places)[c] = w
  BY LatestCases DEF Without, IsLast

\* What the server sends, and what may be in the stream.
Notice == [kind : {"other", "id", "cut off", "sheets", "rest"}, ended : BOOLEAN]

Told == Notice \cup [kind : {"update"}, cell : Cell, text : Text, ended : BOOLEAN]

\* What a message is of.
LEMMA ToldIs ==
  ASSUME NEW m \in Told
  PROVE  /\ m.ended \in BOOLEAN
         /\ m.kind # "part"
         /\ m.kind = "update" => m.cell \in Cell /\ m.text \in Text
  BY DEF Told, Notice

LEMMA UpdateIs ==
  ASSUME NEW c \in Cell, NEW text \in Text, NEW ended \in BOOLEAN
  PROVE  /\ Update(c, text, ended) \in Told
         /\ text \notin Long => IsUpdate(Update(c, text, ended), c) /\ Update(c, text, ended).text = text
         /\ text \in Long => Update(c, text, ended).kind # "update"
         /\ \A d : IsUpdate(Update(c, text, ended), d) => d = c /\ Update(c, text, ended).text = text
<1>1. CASE text \in Long
  BY <1>1 DEF Update, Plain, Told, Notice, IsUpdate
<1>2. CASE text \notin Long
  <2> DEFINE u == [kind |-> "update", cell |-> c, text |-> text, ended |-> ended]
  <2>1. Update(c, text, ended) = u
    BY <1>2 DEF Update
  <2>2. u \in Told /\ u.kind = "update" /\ u.cell = c /\ u.text = text
    BY DEF Told
  <2> HIDE DEF u
  <2> QED
    BY <1>2, <2>1, <2>2 DEF IsUpdate
<1> QED
  BY <1>1, <1>2

LEMMA UpdateOf ==
  ASSUME NEW c \in Cell, NEW text \in Text, NEW ended \in BOOLEAN, NEW d,
         IsUpdate(Update(c, text, ended), d)
  PROVE  d = c /\ Update(c, text, ended).text = text
  BY UpdateIs

\* The texts stay texts.
LEMMA LatestType ==
  ASSUME NEW t \in [Cell -> Text], NEW s, NEW n \in Nat, NEW places \in SUBSET (1..n),
         \A i \in places : s[i].kind = "update" => s[i].text \in Text
  PROVE  Latest(t, s, places) \in [Cell -> Text]
<1>1. ASSUME NEW c \in Cell PROVE Latest(t, s, places)[c] \in Text
  BY LatestCases DEF IsLast, IsUpdate
<1>2. Latest(t, s, places) = [c \in Cell |-> Latest(t, s, places)[c]]
  BY DEF Latest
<1> QED
  BY <1>1, <1>2

\* Nothing but updates counts.
LEMMA LatestNone ==
  ASSUME NEW t \in [Cell -> Text], NEW s, NEW places,
         \A i \in places : s[i].kind # "update"
  PROVE  Latest(t, s, places) = t
<1>1. ASSUME NEW c \in Cell PROVE Latest(t, s, places)[c] = t[c]
  <2>1. Without(s, places, c)
    BY DEF Without, IsUpdate
  <2> QED
    BY <2>1, LatestWithout
<1>2. Latest(t, s, places) = [c \in Cell |-> Latest(t, s, places)[c]]
  BY DEF Latest
<1> QED
  BY <1>1, <1>2

\* What is on its way brings a client with these texts and these missed cells to
\* the text w of the cell, with the exceptions of Agrees.
Has(t, m0, s, c, w) ==
  w \notin Long /\ (w \in Formula => c \notin Missing(m0, s, DOMAIN s, DOMAIN s))
    => Latest(t, s, DOMAIN s)[c] = w

\* Without an update on its way, the client has the text; else the last one is it.
LEMMA HasWithout ==
  ASSUME NEW t, NEW m0, NEW s \in Seq(Told), NEW c \in Cell, NEW w, Without(s, DOMAIN s, c)
  PROVE  Has(t, m0, s, c, w) <=> (w \notin Long /\ (w \in Formula => c \notin m0) => t[c] = w)
  BY LatestWithout, MissingWithout DEF Has

LEMMA HasAt ==
  ASSUME NEW t, NEW m0, NEW s \in Seq(Told), NEW c \in Cell, NEW w, NEW i, IsLast(s, DOMAIN s, c, i)
  PROVE  Has(t, m0, s, c, w) <=> (w \notin Long => s[i].text = w)
<1>1. DOMAIN s \in SUBSET Nat
  OBVIOUS
<1>2. Latest(t, s, DOMAIN s)[c] = s[i].text
  BY <1>1, LatestAt
<1>3. c \notin Missing(m0, s, DOMAIN s, DOMAIN s)
  BY <1>1, MissingAt DEF IsLast
<1> QED
  BY <1>2, <1>3 DEF Has

LEMMA LastOrNone ==
  ASSUME NEW s \in Seq(Told), NEW c \in Cell
  PROVE  Without(s, DOMAIN s, c) \/ \E i \in DOMAIN s : IsLast(s, DOMAIN s, c, i)
<1>1. Len(s) \in Nat /\ DOMAIN s \in SUBSET (1..Len(s))
  OBVIOUS
<1> QED
  BY <1>1, LastUpdate DEF IsLast

\* A message at the end.
LEMMA HasAppend ==
  ASSUME NEW t, NEW m0, NEW s \in Seq(Told), NEW m \in Told, NEW c \in Cell, NEW w,
         IF IsUpdate(m, c) THEN m.text = w ELSE Has(t, m0, s, c, w)
  PROVE  Has(t, m0, Append(s, m), c, w)
<1> DEFINE a == Append(s, m)
<1>1. /\ Len(s) \in Nat /\ Len(a) = Len(s) + 1 /\ DOMAIN s = 1..Len(s) /\ DOMAIN a = 1..Len(a)
      /\ a[Len(a)] = m /\ (\A i \in 1..Len(s) : a[i] = s[i]) /\ a \in Seq(Told)
  OBVIOUS
<1> HIDE DEF a
<1>2. CASE IsUpdate(m, c)
  <2>1. IsLast(a, DOMAIN a, c, Len(a))
    BY <1>1, <1>2 DEF IsLast
  <2>2. Has(t, m0, a, c, w) <=> (w \notin Long => a[Len(a)].text = w)
    BY <1>1, <2>1, HasAt
  <2> QED
    BY <1>1, <1>2, <2>2 DEF a
<1>3. CASE ~IsUpdate(m, c)
  <2>1. \A i \in DOMAIN a : IsUpdate(a[i], c) => i \in DOMAIN s
    BY <1>1, <1>3
  <2>2. CASE Without(s, DOMAIN s, c)
    <3>1. Without(a, DOMAIN a, c)
      BY <1>1, <2>1, <2>2 DEF Without
    <3>2. Has(t, m0, a, c, w) <=> Has(t, m0, s, c, w)
      BY <1>1, <2>2, <3>1, HasWithout
    <3> QED
      BY <1>3, <3>2 DEF a
  <2>3. ASSUME NEW i \in DOMAIN s, IsLast(s, DOMAIN s, c, i)
        PROVE  Has(t, m0, Append(s, m), c, w)
    <3>1. IsLast(a, DOMAIN a, c, i) /\ a[i] = s[i]
      BY <1>1, <2>1, <2>3 DEF IsLast
    <3>2. Has(t, m0, a, c, w) <=> Has(t, m0, s, c, w)
      BY <1>1, <2>3, <3>1, HasAt
    <3> QED
      BY <1>3, <3>2 DEF a
  <2> QED
    BY <2>2, <2>3, LastOrNone
<1> QED
  BY <1>2, <1>3

\* Some messages are read now, of which formulas may be refused, and the others
\* later.
LEMMA HasParts ==
  ASSUME NEW t, NEW m0, NEW s \in Seq(Told), NEW got \in Seq(Told), NEW left \in Seq(Told),
         NEW n \in Nat, NEW N \in Nat, n <= N, DOMAIN s = 1..N, DOMAIN got = 1..n, DOMAIN left = 1..(N - n),
         \A i \in 1..n : got[i] = s[i], \A i \in 1..(N - n) : left[i] = s[n + i],
         NEW c \in Cell, NEW w,
         NEW taken \in SUBSET DOMAIN got, \A i \in DOMAIN got \ taken : got[i].text \in Formula,
         Has(t, m0, s, c, w)
  PROVE  Has(Latest(t, got, taken), Missing(m0, got, DOMAIN got, taken), left, c, w)
<1> DEFINE mid == Latest(t, got, taken)
           mis == Missing(m0, got, DOMAIN got, taken)
<1>2. ASSUME NEW i \in DOMAIN s, i \notin DOMAIN got
      PROVE  i - n \in DOMAIN left /\ left[i - n] = s[i]
  <2>1. i \in Int /\ 1 <= i /\ i <= N /\ n < i
    BY <1>2
  <2>2. i - n \in 1..(N - n) /\ n + (i - n) = i
    BY <2>1
  <2> QED
    BY <2>2
<1>3. /\ DOMAIN got \in SUBSET Nat /\ DOMAIN left \in SUBSET Nat /\ DOMAIN s \in SUBSET Nat
      /\ DOMAIN got \subseteq DOMAIN s /\ \A i \in DOMAIN got : got[i] = s[i] /\ i <= n
      /\ \A i \in DOMAIN left : n + i \in DOMAIN s /\ left[i] = s[n + i] /\ n < n + i
  OBVIOUS
<1> HIDE DEF mid, mis
<1>4. ASSUME NEW i \in DOMAIN left, IsLast(left, DOMAIN left, c, i)
      PROVE  Has(mid, mis, left, c, w)
  <2>1. i \in Nat /\ n \in Nat
    BY <1>3
  <2>2. ASSUME NEW j \in DOMAIN s, IsUpdate(s[j], c) PROVE j <= n + i
    <3>1. CASE j \in DOMAIN got
      BY <1>3, <2>1, <3>1
    <3>2. CASE j \notin DOMAIN got
      <4>1. j - n \in DOMAIN left /\ j - n <= i
        BY <1>2, <1>4, <2>2, <3>2 DEF IsLast
      <4>2. j \in Nat
        BY <1>3
      <4> QED
        BY <2>1, <4>1, <4>2
    <3> QED
      BY <3>1, <3>2
  <2>3. IsLast(s, DOMAIN s, c, n + i) /\ left[i] = s[n + i]
    BY <1>3, <1>4, <2>2 DEF IsLast
  <2>4. w \notin Long => s[n + i].text = w
    BY <2>3, HasAt
  <2>5. Has(mid, mis, left, c, w) <=> (w \notin Long => left[i].text = w)
    BY <1>4, HasAt
  <2> QED
    BY <2>3, <2>4, <2>5
<1>5. CASE Without(left, DOMAIN left, c)
  <2>1. SUFFICES ASSUME w \notin Long, w \in Formula => c \notin mis
                 PROVE  mid[c] = w
    <3>1. Has(mid, mis, left, c, w) <=> (w \notin Long /\ (w \in Formula => c \notin mis) => mid[c] = w)
      BY <1>5, HasWithout
    <3> QED
      BY <3>1 DEF mid, mis
  <2>2. \A j \in DOMAIN s : IsUpdate(s[j], c) => j \in DOMAIN got
    BY <1>2, <1>5 DEF Without
  <2>3. CASE Without(got, DOMAIN got, c)
    <3>1. Without(s, DOMAIN s, c)
      BY <1>3, <2>2, <2>3 DEF Without
    <3>2. w \notin Long /\ (w \in Formula => c \notin m0) => t[c] = w
      BY <3>1, HasWithout
    <3>3. c \in mis <=> c \in m0
      BY <2>3, MissingWithout DEF mis
    <3>4. Without(got, taken, c)
      BY <2>3 DEF Without
    <3>5. mid[c] = t[c]
      BY <3>4, LatestWithout DEF mid
    <3> QED
      BY <2>1, <3>2, <3>3, <3>5
  <2>4. ASSUME NEW i \in DOMAIN got, IsLast(got, DOMAIN got, c, i)
        PROVE  mid[c] = w
    <3>1. IsLast(s, DOMAIN s, c, i) /\ got[i] = s[i]
      BY <1>3, <2>2, <2>4 DEF IsLast
    <3>2. got[i].text = w
      BY <2>1, <3>1, HasAt
    <3>3. c \in mis <=> i \notin taken
      BY <1>3, <2>4, MissingAt DEF mis
    <3>4. i \in taken
      BY <2>1, <3>2, <3>3
    <3>5. IsLast(got, taken, c, i) /\ taken \in SUBSET Nat
      BY <1>3, <2>4, <3>4 DEF IsLast
    <3>6. mid[c] = got[i].text
      BY <3>5, LatestAt DEF mid
    <3> QED
      BY <3>2, <3>6
  <2> QED
    BY <2>3, <2>4, LastOrNone
<1> QED
  BY <1>4, <1>5, LastOrNone DEF mid, mis

LEMMA HasSplit ==
  ASSUME NEW t, NEW m0, NEW s \in Seq(Told), NEW n \in 1..Len(s), NEW c \in Cell, NEW w,
         NEW got, got = SubSeq(s, 1, n), NEW left, left = SubSeq(s, n + 1, Len(s)),
         NEW taken \in SUBSET DOMAIN got, \A i \in DOMAIN got \ taken : got[i].text \in Formula,
         Has(t, m0, s, c, w)
  PROVE  Has(Latest(t, got, taken), Missing(m0, got, DOMAIN got, taken), left, c, w)
<1>1. n \in Nat /\ Len(s) \in Nat /\ n <= Len(s) /\ DOMAIN s = 1..Len(s)
  OBVIOUS
<1>2. got \in Seq(Told) /\ DOMAIN got = 1..n /\ \A i \in 1..n : got[i] = s[i]
  OBVIOUS
<1>3. left \in Seq(Told) /\ DOMAIN left = 1..(Len(s) - n) /\ \A i \in 1..(Len(s) - n) : left[i] = s[n + i]
  OBVIOUS
<1> QED
  BY <1>1, <1>2, <1>3, HasParts

-----------------------------------------------------------------------------
(* The reads of a client, and what addClient sends.                        *)

NoUpdate(s) == \A i \in DOMAIN s : s[i].kind # "update"

\* What a client reads is lines of whole messages, or is not all lines.
LEMMA LinesOf ==
  ASSUME NEW s \in Seq(Told), NEW read \in Reads(s)
  PROVE  /\ read.left \in Seq(Told)
         /\ \E n \in Nat : DOMAIN read.got = 1..n
         /\ \A i \in DOMAIN read.got : read.got[i].kind = "update" => read.got[i].text \in Text
         /\ NoUpdate(s) => NoUpdate(read.got) /\ NoUpdate(read.left)
         /\ IsOne(read.got, {"sheets"}) \/ (\A i \in DOMAIN read.got : IsLine(read.got, i))
              => \E n \in 1..Len(s) :
                   read.got = SubSeq(s, 1, n) /\ read.left = SubSeq(s, n + 1, Len(s))
<1>1. CASE \E n \in DOMAIN s : read = [got |-> SubSeq(s, 1, n), left |-> SubSeq(s, n + 1, Len(s))]
  <2>1. PICK n \in DOMAIN s : read = [got |-> SubSeq(s, 1, n), left |-> SubSeq(s, n + 1, Len(s))]
    BY <1>1
  <2>2. n \in 1..Len(s) /\ Len(s) \in Nat /\ DOMAIN s = 1..Len(s)
    OBVIOUS
  <2>3. read.got = SubSeq(s, 1, n) /\ read.left = SubSeq(s, n + 1, Len(s))
    BY <2>1
  <2>4. /\ read.left \in Seq(Told) /\ DOMAIN read.got = 1..n /\ n \in Nat
        /\ \A i \in 1..n : i \in DOMAIN s /\ read.got[i] = s[i]
    BY <2>2, <2>3
  <2>5. \A i \in DOMAIN read.left : \E j \in DOMAIN s : read.left[i] = s[j]
    BY <2>2, <2>3
  <2>6. \A i \in DOMAIN s : s[i] \in Told
    OBVIOUS
  <2>7. \A i \in DOMAIN read.got : read.got[i].kind = "update" => read.got[i].text \in Text
    BY <2>4, <2>6, ToldIs
  <2>8. NoUpdate(s) => NoUpdate(read.got) /\ NoUpdate(read.left)
    BY <2>4, <2>5 DEF NoUpdate
  <2> QED
    BY <2>2, <2>3, <2>4, <2>7, <2>8
<1>2. CASE \E n \in DOMAIN s :
             read = [got  |-> Append(SubSeq(s, 1, n - 1), Plain("part")),
                     left |-> <<[kind |-> "rest", ended |-> s[n].ended]>> \o SubSeq(s, n + 1, Len(s))]
  <2>1. PICK n \in DOMAIN s :
          read = [got  |-> Append(SubSeq(s, 1, n - 1), Plain("part")),
                  left |-> <<[kind |-> "rest", ended |-> s[n].ended]>> \o SubSeq(s, n + 1, Len(s))]
    BY <1>2
  <2> DEFINE before == SubSeq(s, 1, n - 1)
             after  == SubSeq(s, n + 1, Len(s))
             rest   == [kind |-> "rest", ended |-> s[n].ended]
             part   == Plain("part")
  <2>2. n \in 1..Len(s) /\ Len(s) \in Nat /\ DOMAIN s = 1..Len(s)
    OBVIOUS
  <2>3. read.got = Append(before, part) /\ read.left = <<rest>> \o after
    BY <2>1
  <2>4. /\ before \in Seq(Told) /\ Len(before) = n - 1
        /\ \A i \in 1..(n - 1) : i \in DOMAIN s /\ before[i] = s[i]
    BY <2>2
  <2>5. /\ after \in Seq(Told)
        /\ \A i \in DOMAIN after : \E j \in DOMAIN s : after[i] = s[j]
    <3>1. /\ after \in Seq(Told) /\ DOMAIN after = 1..(Len(s) - n)
          /\ \A i \in 1..(Len(s) - n) : after[i] = s[n + i]
      BY <2>2
    <3>2. \A i \in 1..(Len(s) - n) : n + i \in DOMAIN s
      BY <2>2
    <3> QED
      BY <3>1, <3>2
  <2>6. rest \in Told /\ rest.kind = "rest"
    <3>1. s[n] \in Told
      BY <2>2
    <3>2. s[n].ended \in BOOLEAN
      BY <3>1, ToldIs
    <3> QED
      BY <3>2 DEF Told, Notice
  <2>7. part.kind = "part"
    BY DEF Plain
  <2>8. \A i \in DOMAIN s : s[i] \in Told
    OBVIOUS
  <2> HIDE DEF before, after, rest, part
  <2>9. /\ DOMAIN read.got = 1..n /\ n \in Nat /\ Len(read.got) = n
        /\ read.got[n] = part /\ \A i \in 1..(n - 1) : read.got[i] = before[i]
    BY <2>2, <2>3, <2>4
  <2>10. /\ read.left \in Seq(Told)
         /\ \A i \in DOMAIN read.left :
              read.left[i] = rest \/ \E j \in DOMAIN s : read.left[i] = s[j]
    <3>1. <<rest>> \in Seq(Told) /\ Len(<<rest>>) = 1 /\ <<rest>>[1] = rest
      BY <2>6
    <3>2. <<rest>> \o after \in Seq(Told) /\ DOMAIN (<<rest>> \o after) = 1..(1 + Len(after))
      BY <2>5, <3>1
    <3>3. ASSUME NEW i \in 1..(1 + Len(after))
          PROVE  (<<rest>> \o after)[i] = rest \/ \E j \in DOMAIN s : (<<rest>> \o after)[i] = s[j]
      <4>1. CASE i = 1
        BY <2>5, <3>1, <4>1
      <4>2. CASE i # 1
        <5>1. i - 1 \in DOMAIN after /\ (<<rest>> \o after)[i] = after[i - 1]
          BY <2>5, <3>1, <4>2
        <5> QED
          BY <2>5, <5>1
      <4> QED
        BY <4>1, <4>2
    <3> QED
      BY <2>3, <3>2, <3>3
  <2>11. \A i \in DOMAIN read.got : i = n \/ (i \in DOMAIN s /\ read.got[i] = s[i])
    BY <2>2, <2>4, <2>9
  <2>12. \A i \in DOMAIN read.got : read.got[i].kind = "update" => read.got[i].text \in Text
    BY <2>7, <2>8, <2>9, <2>11, ToldIs
  <2>13. NoUpdate(s) => NoUpdate(read.got) /\ NoUpdate(read.left)
    BY <2>6, <2>7, <2>9, <2>10, <2>11 DEF NoUpdate
  <2>14. ~IsOne(read.got, {"sheets"}) /\ ~IsLine(read.got, n) /\ n \in DOMAIN read.got
    BY <2>2, <2>7, <2>9 DEF IsOne, IsLine
  <2> QED
    BY <2>9, <2>10, <2>12, <2>13, <2>14
<1> QED
  BY <1>1, <1>2 DEF Reads

\* addClient sends each stored cell, if its text fits a write, and no other.
LEMMA GreetingIs ==
  ASSUME NEW name, NEW book \in [Cell -> Text], IsFiniteSet(Stored(name, book)),
         NEW greeting \in Greetings(name, book)
  PROVE  /\ greeting \in Seq(Told)
         /\ \A c \in Cell : \A i \in DOMAIN greeting :
              IsUpdate(greeting[i], c) => greeting[i].text = book[c]
         /\ \A c \in Cell : book[c] # Empty /\ book[c] \notin Long
              => \E i \in DOMAIN greeting : IsUpdate(greeting[i], c)
<1> DEFINE S == Stored(name, book)
           n == Cardinality(S)
           A == SetToSeqs(S)
           B == {<<Plain("id")>>, <<>>}
<1>0. greeting \in {Lines(book, cells) \o id : cells \in A, id \in B}
  BY DEF Greetings
<1> HIDE DEF A, B
<1>1. PICK cells \in A, id \in B : greeting = Lines(book, cells) \o id
  BY <1>0
<1>2. n \in Nat /\ IsFiniteSet(S)
  BY FS_CardinalityType
<1>3. cells \in [1..n -> S] /\ \A i, j \in 1..n : i # j => cells[i] # cells[j]
  BY DEF A, SetToSeqs
<1>4. \A c \in S : \E i \in 1..n : cells[i] = c
  <2>1. cells \in Injection(1..n, S)
    BY <1>3 DEF Injection, IsInjective
  <2>2. Cardinality(1..n) = n
    BY <1>2, FS_Interval
  <2>3. cells \in Surjection(1..n, S)
    <3> HIDE DEF S
    <3> QED
      BY <1>2, <2>1, <2>2, FS_Injection
  <2> QED
    BY <2>3 DEF Surjection
<1>5. \A i \in 1..n : cells[i] \in Cell /\ book[cells[i]] \in Text
  BY <1>3 DEF Stored
<1> HIDE DEF S, n
<1>6. cells \in Seq(S) /\ Len(cells) = n
  BY <1>2, <1>3
<1> DEFINE lines == [i \in 1..n |-> Update(cells[i], book[cells[i]], TRUE)]
<1>7. \A i \in 1..n : lines[i] = Update(cells[i], book[cells[i]], TRUE)
  OBVIOUS
<1>8. lines \in Seq(Told) /\ Len(lines) = n /\ DOMAIN lines = 1..n
  <2>1. \A i \in 1..n : Update(cells[i], book[cells[i]], TRUE) \in Told
    BY <1>5, UpdateIs
  <2>2. lines \in [1..n -> Told]
    BY <2>1
  <2> HIDE DEF lines
  <2> QED
    BY <1>2, <2>2
<1>9. id \in Seq(Told) /\ \A i \in DOMAIN id : id[i].kind # "update"
  <2>1. Plain("id") \in Told /\ Plain("id").kind = "id"
    BY DEF Plain, Told, Notice
  <2>2. CASE id = <<Plain("id")>>
    <3> DEFINE m == Plain("id")
    <3>1. m \in Told /\ m.kind = "id" /\ id = <<m>>
      BY <2>1, <2>2
    <3> HIDE DEF m
    <3> QED
      BY <3>1
  <2>3. CASE id = <<>>
    BY <2>3
  <2> QED
    BY <2>2, <2>3 DEF B
<1>10. greeting = lines \o id
  BY <1>1, <1>6 DEF Lines
<1> HIDE DEF lines
<1>11. /\ greeting \in Seq(Told)
       /\ \A i \in 1..n : i \in DOMAIN greeting /\ greeting[i] = lines[i]
       /\ \A i \in DOMAIN greeting :
            \/ i \in 1..n
            \/ \E j \in DOMAIN id : greeting[i] = id[j]
  <2>1. greeting \in Seq(Told) /\ DOMAIN greeting = 1..(n + Len(id))
    BY <1>8, <1>9, <1>10
  <2>2. \A i \in 1..n : i \in DOMAIN greeting /\ greeting[i] = lines[i]
    BY <1>2, <1>8, <1>9, <1>10
  <2>3. ASSUME NEW i \in DOMAIN greeting, i \notin 1..n
        PROVE  \E j \in DOMAIN id : greeting[i] = id[j]
    <3>1. i - n \in DOMAIN id /\ greeting[i] = id[i - n]
      BY <1>2, <1>8, <1>9, <1>10, <2>1, <2>3
    <3> QED
      BY <3>1
  <2> QED
    BY <2>1, <2>2, <2>3
<1>12. ASSUME NEW c \in Cell, NEW i \in DOMAIN greeting, IsUpdate(greeting[i], c)
       PROVE  greeting[i].text = book[c]
  <2>1. i \in 1..n
    BY <1>9, <1>11, <1>12 DEF IsUpdate
  <2>2. cells[i] = c /\ greeting[i].text = book[cells[i]]
    <3>1. IsUpdate(Update(cells[i], book[cells[i]], TRUE), c) /\ greeting[i] = Update(cells[i], book[cells[i]], TRUE)
      BY <1>7, <1>11, <1>12, <2>1
    <3> QED
      BY <1>5, <2>1, <3>1, UpdateOf
  <2> QED
    BY <1>5, <2>1, <2>2
<1>13. ASSUME NEW c \in Cell, book[c] # Empty, book[c] \notin Long
       PROVE  \E i \in DOMAIN greeting : IsUpdate(greeting[i], c)
  <2>1. PICK i \in 1..n : cells[i] = c
    BY <1>4, <1>13 DEF S, Stored
  <2>2. IsUpdate(Update(c, book[c], TRUE), c)
    BY <1>13, UpdateIs
  <2> QED
    BY <1>7, <1>11, <2>1, <2>2
<1> QED
  BY <1>11, <1>12, <1>13

-----------------------------------------------------------------------------
(* The texts of the clients.                                               *)

BlankCells ==
  \A b \in blanks :
    b = <<b[1], b[2]>> /\ b[1] \in DOMAIN texts /\ b[2] \in Cell /\ texts[b[1]][b[2]] = Empty

Storable == Text \ (Refused \cup Bare)

ViewTypes ==
  /\ view \in [Client -> [Cell -> Text]]
  /\ toClient \in [Client -> Seq(Told)]
  /\ \A k \in Client : stage[k] = "editing" => sheetOf[k] \in DOMAIN texts
  /\ \A n \in DOMAIN texts : texts[n] \in [Cell -> Storable] /\ IsFiniteSet(Stored(n, texts[n]))
  /\ BlankCells
  /\ requests \in 0..MaxRequests
  /\ asked \subseteq Cell \X Text
  /\ missed \in [Client -> SUBSET Cell]
  /\ garbled \subseteq Client

\* Before it is on a sheet, a client has no text and none is sent to it; from
\* then on, what is on its way brings it to the texts of its sheet.
Quiet(k) == view[k] = Blank /\ NoUpdate(toClient[k])

Follows(k) ==
  k \notin garbled => \A c \in Cell : Has(view[k], missed[k], toClient[k], c, texts[sheetOf[k]][c])

ViewOf(k) == IF stage[k] = "editing" THEN Follows(k) ELSE Quiet(k)

Views == ViewTypes /\ \A k \in Client : ViewOf(k)

LEMMA InitViews == Init => Views
<1> SUFFICES ASSUME Init
             PROVE  Views
  OBVIOUS
<1>1. /\ Blank \in [Cell -> Storable] /\ Blank \in [Cell -> Text] /\ blanks = {}
      /\ \A n : Stored(n, Blank) = {}
  BY TextAssumption DEF Blank, Stored, Storable, Init
<1>2. <<>> \in Seq(Told) /\ NoUpdate(<<>>)
  BY DEF NoUpdate
<1>3. \A k \in Client : stage[k] = "absent" /\ view[k] = Blank /\ toClient[k] = <<>>
  BY DEF Init
<1>4. \A n \in DOMAIN texts : texts[n] = Blank
  BY DEF Init
<1>5. view \in [Client -> [Cell -> Text]] /\ toClient \in [Client -> Seq(Told)]
  BY <1>1, <1>2 DEF Init
<1>6. /\ requests \in 0..MaxRequests /\ garbled \subseteq Client
      /\ asked \subseteq Cell \X Text /\ missed \in [Client -> SUBSET Cell]
  BY TextAssumption DEF Init
<1>7. ViewTypes
  BY <1>1, <1>3, <1>4, <1>5, <1>6, FS_EmptySet DEF ViewTypes, BlankCells
<1> QED
  BY <1>2, <1>3, <1>7 DEF Views, ViewOf, Quiet

\* A step that changes nothing of a client or of the texts of its sheet.
LEMMA ViewFrame ==
  ASSUME NEW j, ViewOf(j),
         stage'[j] = stage[j], view'[j] = view[j], toClient'[j] = toClient[j],
         sheetOf'[j] = sheetOf[j], missed'[j] = missed[j], j \notin garbled' => j \notin garbled,
         stage[j] = "editing" => texts'[sheetOf[j]] = texts[sheetOf[j]]
  PROVE  ViewOf(j)'
  BY DEF ViewOf, Follows, Quiet

\* Messages that are no updates do not change what a client will have.
LEMMA ViewAppend ==
  ASSUME NEW j, ViewOf(j), toClient[j] \in Seq(Told), NEW m \in Told, m.kind # "update",
         stage'[j] = stage[j], view'[j] = view[j], toClient'[j] = Append(toClient[j], m),
         sheetOf'[j] = sheetOf[j], missed'[j] = missed[j], j \notin garbled' => j \notin garbled,
         stage[j] = "editing" => texts'[sheetOf[j]] = texts[sheetOf[j]]
  PROVE  ViewOf(j)'
<1> DEFINE s == toClient[j]
<1>1. CASE stage[j] = "editing"
  <2>1. \A c \in Cell : ~IsUpdate(m, c)
    BY DEF IsUpdate
  <2>2. \A c \in Cell : \A w : Has(view[j], missed[j], s, c, w) => Has(view[j], missed[j], Append(s, m), c, w)
    BY <2>1, HasAppend
  <2> HIDE DEF s
  <2>3. Follows(j) => Follows(j)'
    BY <1>1, <2>2 DEF Follows, s
  <2> QED
    BY <1>1, <2>3 DEF ViewOf
<1>2. CASE stage[j] # "editing"
  <2>1. NoUpdate(s) => NoUpdate(Append(s, m))
    <3>1. DOMAIN Append(s, m) = 1..(Len(s) + 1) /\ DOMAIN s = 1..Len(s) /\ Len(s) \in Nat
          /\ Append(s, m)[Len(s) + 1] = m /\ \A i \in 1..Len(s) : Append(s, m)[i] = s[i]
      OBVIOUS
    <3> HIDE DEF s
    <3> QED
      BY <3>1 DEF NoUpdate
  <2> QED
    BY <1>2, <2>1 DEF ViewOf, Quiet
<1> QED
  BY <1>1, <1>2

AllLines(got) == \A i \in DOMAIN got : IsLine(got, i)

\* What a client reads without loss comes to the same, read now or later, but
\* for the formulas that it refuses.
LEMMA ViewRead ==
  ASSUME NEW j, view[j] \in [Cell -> Text], toClient[j] \in Seq(Told), NEW read \in Reads(toClient[j]),
         missed[j] \in SUBSET Cell,
         ViewOf(j), stage'[j] = stage[j], sheetOf'[j] = sheetOf[j], texts' = texts,
         toClient'[j] = read.left, j \notin garbled' => j \notin garbled,
         \/ /\ j \notin garbled' => IsOne(read.got, {"sheets"})
            /\ view'[j] = view[j] /\ missed'[j] = missed[j]
         \/ /\ j \notin garbled' => AllLines(read.got)
            /\ \E taken \in Takings(read.got) :
                 /\ view'[j] = Latest(view[j], read.got, taken)
                 /\ missed'[j] = Missing(missed[j], read.got, Parsed(read.got), taken)
  PROVE  ViewOf(j)'
<1> DEFINE s == toClient[j]
           got == read.got
<1>1. /\ NoUpdate(s) => NoUpdate(got) /\ NoUpdate(read.left)
      /\ IsOne(got, {"sheets"}) \/ AllLines(got)
           => \E n \in 1..Len(s) : got = SubSeq(s, 1, n) /\ read.left = SubSeq(s, n + 1, Len(s))
  BY LinesOf DEF AllLines
<1>2. CASE stage[j] # "editing"
  <2>1. NoUpdate(got) /\ NoUpdate(read.left) /\ view[j] = Blank
    BY <1>1, <1>2 DEF ViewOf, Quiet
  <2>2. \A taken \in Takings(got) : taken \subseteq DOMAIN got
    BY DEF Takings, Parsed
  <2>3. \A taken \in Takings(got) : Latest(view[j], got, taken) = view[j]
    BY <2>1, <2>2, LatestNone DEF NoUpdate
  <2> QED
    BY <1>2, <2>1, <2>3 DEF ViewOf, Quiet
<1>3. CASE stage[j] = "editing" /\ j \notin garbled'
  <2>1. /\ \E taken \in SUBSET DOMAIN got :
             /\ \A i \in DOMAIN got \ taken : got[i].text \in Formula
             /\ view'[j] = Latest(view[j], got, taken)
             /\ missed'[j] = Missing(missed[j], got, DOMAIN got, taken)
    <3>1. CASE IsOne(got, {"sheets"}) /\ view'[j] = view[j] /\ missed'[j] = missed[j]
      <4>1. PICK n \in 1..Len(s) : got = SubSeq(s, 1, n)
        BY <1>1, <3>1
      <4>2. DOMAIN got = 1..Len(got)
        BY <4>1
      <4>3. \A i \in DOMAIN got : got[i].kind # "update"
        BY <3>1, <4>2 DEF IsOne
      <4>4. view'[j] = Latest(view[j], got, DOMAIN got)
        BY <3>1, <4>3, LatestNone
      <4>5. \A c \in Cell : Without(got, DOMAIN got, c)
        BY <4>3 DEF Without, IsUpdate
      <4>6. \A c \in Cell : c \in Missing(missed[j], got, DOMAIN got, DOMAIN got) <=> c \in missed[j]
        BY <4>5, MissingWithout
      <4>7. Missing(missed[j], got, DOMAIN got, DOMAIN got) \subseteq Cell
        BY DEF Missing
      <4>8. missed'[j] = Missing(missed[j], got, DOMAIN got, DOMAIN got)
        BY <3>1, <4>6, <4>7
      <4> QED
        BY <4>4, <4>8
    <3>2. ASSUME AllLines(got), NEW taken \in Takings(got), view'[j] = Latest(view[j], got, taken),
                 missed'[j] = Missing(missed[j], got, Parsed(got), taken)
          PROVE  /\ \E T \in SUBSET DOMAIN got :
                      /\ \A i \in DOMAIN got \ T : got[i].text \in Formula
                      /\ view'[j] = Latest(view[j], got, T)
                      /\ missed'[j] = Missing(missed[j], got, DOMAIN got, T)
      <4>1. Parsed(got) = DOMAIN got
        BY <3>2 DEF AllLines, Parsed
      <4>2. taken \in SUBSET DOMAIN got /\ \A i \in DOMAIN got \ taken : got[i].text \in Formula
        BY <3>2, <4>1 DEF Takings
      <4> QED
        BY <3>2, <4>1, <4>2
    <3> QED
      BY <1>3, <3>1, <3>2
  <2>2. PICK n \in 1..Len(s) : got = SubSeq(s, 1, n) /\ read.left = SubSeq(s, n + 1, Len(s))
    BY <1>1, <1>3
  <2>3. PICK taken \in SUBSET DOMAIN got :
             /\ \A i \in DOMAIN got \ taken : got[i].text \in Formula
             /\ view'[j] = Latest(view[j], got, taken)
             /\ missed'[j] = Missing(missed[j], got, DOMAIN got, taken)
    BY <2>1
  <2>4. s \in Seq(Told)
    OBVIOUS
  <2> DEFINE left == read.left
  <2> HIDE DEF s, got, left
  <2>5. ASSUME NEW c \in Cell, NEW w, Has(view[j], missed[j], s, c, w)
        PROVE  Has(view'[j], missed'[j], left, c, w)
    <3>1. Has(Latest(view[j], got, taken), Missing(missed[j], got, DOMAIN got, taken), left, c, w)
      BY <2>2, <2>3, <2>4, <2>5, HasSplit DEF left
    <3> QED
      BY <2>3, <3>1
  <2>6. Follows(j)
    BY <1>3 DEF ViewOf
  <2>7. Follows(j)'
    BY <1>3, <2>5, <2>6 DEF Follows, s, left
  <2> QED
    BY <1>3, <2>7 DEF ViewOf
<1>4. CASE stage[j] = "editing" /\ j \in garbled'
  BY <1>4 DEF ViewOf, Follows
<1> QED
  BY <1>2, <1>3, <1>4

\* A client connects that no connection was there for.
LEMMA ConnectViews == ASSUME Inv, Views, NEW k \in Client, Connect(k) PROVE Views'
<1>1. Types /\ up /\ InOrder(k) /\ ViewTypes
  BY DEF Connect, Inv, Views
<1>2. stage[k] = "absent"
  BY <1>1 DEF Connect, InOrder, Accepting, Naming, Editing, Types, Stages
<1>3. /\ stage' = [stage EXCEPT ![k] = "accepted"]
      /\ view' = view /\ toClient' = toClient /\ sheetOf' = sheetOf /\ texts' = texts
      /\ requests' = requests /\ garbled' = garbled
      /\ asked' = asked /\ missed' = missed /\ blanks' = blanks
  BY DEF Connect, history
<1>4. ViewTypes'
  BY <1>1, <1>3 DEF ViewTypes, BlankCells, Types, Stored
<1>5. ASSUME NEW j \in Client PROVE ViewOf(j)'
  <2>1. ViewOf(j)
    BY DEF Views
  <2>2. CASE j = k
    BY <1>1, <1>2, <1>3, <2>1, <2>2 DEF ViewOf, Quiet, Types
  <2>3. CASE j # k
    <3>1. stage'[j] = stage[j]
      BY <1>1, <1>3, <2>3 DEF Types
    <3> QED
      BY <1>3, <2>1, <3>1, ViewFrame
  <2> QED
    BY <2>2, <2>3
<1> QED
  BY <1>4, <1>5 DEF Views

\* Steps of which the clients' texts and their streams know nothing.
LEMMA OtherViews ==
  ASSUME Views, stage' = stage, view' = view, toClient' = toClient, sheetOf' = sheetOf,
         texts' = texts, blanks' = blanks, missed' = missed, garbled' = garbled,
         requests' \in 0..MaxRequests, asked' \subseteq Cell \X Text
  PROVE  Views'
<1>1. ViewTypes'
  BY DEF ViewTypes, BlankCells, Views, Stored
<1>2. ASSUME NEW j \in Client PROVE ViewOf(j)'
  BY ViewFrame DEF Views
<1> QED
  BY <1>1, <1>2 DEF Views

\* Steps that leave the server and the requests alone.
LEMMA ViewTypesFrame ==
  ASSUME ViewTypes, stage' = stage, sheetOf' = sheetOf, texts' = texts, blanks' = blanks,
         requests' = requests, asked' = asked,
         view' \in [Client -> [Cell -> Text]], toClient' \in [Client -> Seq(Told)],
         missed' \in [Client -> SUBSET Cell], garbled' \subseteq Client
  PROVE  ViewTypes'
  BY DEF ViewTypes, BlankCells, Stored

\* The reads of a client.
LEMMA ReadViews ==
  ASSUME Inv, Views, NEW k \in Client, NEW read \in Reads(toClient[k]),
         toClient' = [toClient EXCEPT ![k] = read.left],
         stage' = stage, sheetOf' = sheetOf, texts' = texts, requests' = requests,
         asked' = asked, blanks' = blanks,
         \/ /\ garbled' = IF IsOne(read.got, {"sheets"}) THEN garbled ELSE garbled \cup {k}
            /\ view' = view /\ missed' = missed
         \/ /\ garbled' = IF \A i \in DOMAIN read.got : IsLine(read.got, i)
                          THEN garbled ELSE garbled \cup {k}
            /\ \E taken \in Takings(read.got) :
                 /\ view' = [view EXCEPT ![k] = Latest(@, read.got, taken)]
                 /\ missed' = [missed EXCEPT ![k] = Missing(@, read.got, Parsed(read.got), taken)]
  PROVE  Views'
<1>1. ViewTypes
  BY DEF Views
<1>2. view \in [Client -> [Cell -> Text]] /\ toClient \in [Client -> Seq(Told)] /\ garbled \subseteq Client
  BY <1>1 DEF ViewTypes
<1>3. /\ read.left \in Seq(Told)
      /\ \E n \in Nat : DOMAIN read.got = 1..n
      /\ \A i \in DOMAIN read.got : read.got[i].kind = "update" => read.got[i].text \in Text
  BY <1>2, LinesOf
<1>4. \A taken \in Takings(read.got) : Latest(view[k], read.got, taken) \in [Cell -> Text]
  <2>1. PICK n \in Nat : DOMAIN read.got = 1..n
    BY <1>3
  <2>2. ASSUME NEW taken \in Takings(read.got)
        PROVE  Latest(view[k], read.got, taken) \in [Cell -> Text]
    <3>1. taken \in SUBSET (1..n) /\ \A i \in taken : read.got[i].kind = "update" => read.got[i].text \in Text
      BY <1>3, <2>1 DEF Takings, Parsed
    <3> QED
      BY <1>2, <3>1, LatestType
  <2> QED
    BY <2>2
<1>5. missed \in [Client -> SUBSET Cell]
  BY <1>1 DEF ViewTypes
<1>6. /\ view' \in [Client -> [Cell -> Text]] /\ toClient' \in [Client -> Seq(Told)]
      /\ garbled' \subseteq Client /\ missed' \in [Client -> SUBSET Cell]
  <2>1. ASSUME NEW m0, NEW taken PROVE Missing(m0, read.got, Parsed(read.got), taken) \in SUBSET Cell
    BY DEF Missing
  <2>2. toClient' \in [Client -> Seq(Told)]
    BY <1>2, <1>3
  <2>3. garbled' \subseteq Client
    BY <1>2
  <2>4. CASE view' = view /\ missed' = missed
    BY <1>2, <1>5, <2>2, <2>3, <2>4
  <2>5. ASSUME NEW taken \in Takings(read.got),
               view' = [view EXCEPT ![k] = Latest(@, read.got, taken)],
               missed' = [missed EXCEPT ![k] = Missing(@, read.got, Parsed(read.got), taken)]
        PROVE  view' \in [Client -> [Cell -> Text]] /\ missed' \in [Client -> SUBSET Cell]
    <3>1. Latest(view[k], read.got, taken) \in [Cell -> Text]
      BY <1>4
    <3>2. Missing(missed[k], read.got, Parsed(read.got), taken) \in SUBSET Cell
      BY <2>1
    <3>3. view' \in [Client -> [Cell -> Text]]
      BY <1>2, <2>5, <3>1
    <3>4. missed' \in [Client -> SUBSET Cell]
      BY <1>5, <2>5, <3>2
    <3> QED
      BY <3>3, <3>4
  <2> QED
    BY <2>2, <2>3, <2>4, <2>5
<1>7. ViewTypes'
  BY <1>1, <1>6, ViewTypesFrame
<1>8. ASSUME NEW j \in Client PROVE ViewOf(j)'
  <2>1. ViewOf(j)
    BY DEF Views
  <2>2. CASE j = k
    <3>1. /\ toClient'[k] = read.left
          /\ k \notin garbled' => k \notin garbled
          /\ \/ /\ k \notin garbled' => IsOne(read.got, {"sheets"})
                /\ view'[k] = view[k] /\ missed'[k] = missed[k]
             \/ /\ k \notin garbled' => AllLines(read.got)
                /\ \E taken \in Takings(read.got) :
                     /\ view'[k] = Latest(view[k], read.got, taken)
                     /\ missed'[k] = Missing(missed[k], read.got, Parsed(read.got), taken)
      BY <1>2, <1>5 DEF AllLines
    <3>2. ViewOf(k)
      BY <2>1, <2>2
    <3>3. view[k] \in [Cell -> Text] /\ toClient[k] \in Seq(Told) /\ missed[k] \in SUBSET Cell
      BY <1>2, <1>5
    <3>4. ViewOf(k)'
      BY <3>1, <3>2, <3>3, ViewRead
    <3> QED
      BY <2>2, <3>4
  <2>3. CASE j # k
    <3>1. /\ view'[j] = view[j] /\ toClient'[j] = toClient[j] /\ missed'[j] = missed[j]
          /\ j \notin garbled' => j \notin garbled
      BY <1>2, <1>5, <2>3
    <3> QED
      BY <2>1, <3>1, ViewFrame
  <2> QED
    BY <2>2, <2>3
<1> QED
  BY <1>7, <1>8 DEF Views

\* The list of the sheets is sent to a client without texts.
LEMMA ReadNameViews == ASSUME Inv, Views, NEW k \in Client, ReadName(k) PROVE Views'
<1> DEFINE m == [kind |-> "sheets", ended |-> TRUE]
<1>1. /\ stage' = [stage EXCEPT ![k] = "named"]
      /\ toClient' = [toClient EXCEPT ![k] = Append(@, m)]
      /\ sheetOf' = sheetOf /\ texts' = texts /\ view' = view
      /\ requests' = requests /\ garbled' = garbled /\ stage[k] = "accepted"
      /\ asked' = asked /\ missed' = missed /\ blanks' = blanks
  BY DEF ReadName, Read, client
<1>2. m \in Told /\ m.kind # "update"
  BY DEF Told, Notice
<1> HIDE DEF m
<1>3. ViewTypes /\ Types /\ ViewOf(k)
  BY DEF Views, Inv
<1>4. toClient \in [Client -> Seq(Told)] /\ stage \in [Client -> Stages]
  BY <1>3 DEF ViewTypes, Types
<1>5. ViewTypes'
  <2>1. toClient' \in [Client -> Seq(Told)]
    BY <1>1, <1>2, <1>4
  <2>2. \A j \in Client : stage'[j] = "editing" => stage[j] = "editing"
    BY <1>1, <1>4
  <2> QED
    BY <1>1, <1>3, <2>1, <2>2 DEF ViewTypes, BlankCells, Stored
<1>6. ASSUME NEW j \in Client PROVE ViewOf(j)'
  <2>1. CASE j = k
    <3> DEFINE s == toClient[k]
    <3>1. NoUpdate(s) /\ view[k] = Blank
      BY <1>1, <1>3 DEF ViewOf, Quiet
    <3>2. DOMAIN Append(s, m) = 1..(Len(s) + 1) /\ DOMAIN s = 1..Len(s) /\ Len(s) \in Nat
          /\ Append(s, m)[Len(s) + 1] = m /\ \A i \in 1..Len(s) : Append(s, m)[i] = s[i]
      BY <1>2, <1>4
    <3>3. toClient'[k] = Append(s, m) /\ view'[k] = view[k] /\ stage'[k] = "named"
      BY <1>1, <1>4
    <3> HIDE DEF s
    <3>4. NoUpdate(Append(s, m))
      BY <1>2, <3>1, <3>2 DEF NoUpdate
    <3> QED
      BY <2>1, <3>1, <3>3, <3>4 DEF ViewOf, Quiet
  <2>2. CASE j # k
    <3>1. ViewOf(j) /\ stage'[j] = stage[j] /\ toClient'[j] = toClient[j]
      BY <1>1, <1>4, <2>2 DEF Views
    <3> QED
      BY <1>1, <3>1, ViewFrame
  <2> QED
    BY <2>1, <2>2
<1> QED
  BY <1>5, <1>6 DEF Views

\* addClient brings a client without texts to those of its sheet.
LEMMA ReadChoiceViews == ASSUME Inv, Views, NEW k \in Client, ReadChoice(k) PROVE Views'
<1>1. PICK read : Read(k, "named", read) /\ sheetOf' = [sheetOf EXCEPT ![k] = Named(read.got)]
  BY DEF ReadChoice
<1>2. /\ stage' = [stage EXCEPT ![k] = "editing"]
      /\ view' = view /\ requests' = requests /\ garbled' = garbled /\ stage[k] = "named"
      /\ asked' = asked /\ missed' = missed /\ blanks' = blanks
  BY <1>1 DEF ReadChoice, Read, client
<1> DEFINE name == Named(read.got)
           book == texts'[name]
<1>3. ViewTypes /\ Types /\ ViewOf(k)
  BY DEF Views, Inv
<1>4. /\ toClient \in [Client -> Seq(Told)] /\ stage \in [Client -> Stages] /\ DOMAIN sheetOf = Client
      /\ view \in [Client -> [Cell -> Text]]
  BY <1>3 DEF ViewTypes, Types
<1>5. sheetOf'[k] = name /\ \A j \in Client \ {k} : sheetOf'[j] = sheetOf[j]
  BY <1>1, <1>4
<1>6. /\ DOMAIN texts' = DOMAIN texts \cup {name}
      /\ \A n \in DOMAIN texts : texts'[n] = texts[n]
      /\ \A n \in DOMAIN texts' : texts'[n] \in [Cell -> Storable] /\ IsFiniteSet(Stored(n, texts'[n]))
      /\ \A b \in blanks : b[1] \in DOMAIN texts
  <2>1. texts' = [n \in DOMAIN texts \cup {name} |-> IF n \in DOMAIN texts THEN texts[n] ELSE Blank]
    BY <1>5 DEF ReadChoice, Opened
  <2>2. \A b \in blanks : b[1] \in DOMAIN texts
    BY <1>3 DEF ViewTypes, BlankCells
  <2>3. Blank \in [Cell -> Storable]
    BY TextAssumption DEF Blank, Storable
  <2>4. ASSUME NEW n, n \notin DOMAIN texts PROVE IsFiniteSet(Stored(n, Blank))
    <3>1. Stored(n, Blank) = {}
      BY <2>2, <2>4 DEF Blank, Stored
    <3> QED
      BY <3>1, FS_EmptySet
  <2> HIDE DEF name
  <2> QED
    BY <1>3, <2>1, <2>2, <2>3, <2>4 DEF ViewTypes
<1>7. PICK greeting \in Greetings(name, book) : toClient' = [toClient EXCEPT ![k] = @ \o greeting]
  BY <1>5 DEF ReadChoice
<1>8. book \in [Cell -> Text] /\ IsFiniteSet(Stored(name, book))
  BY <1>6 DEF Storable
<1> HIDE DEF book, name
<1>9. /\ greeting \in Seq(Told)
      /\ \A c \in Cell : \A i \in DOMAIN greeting :
           IsUpdate(greeting[i], c) => greeting[i].text = book[c]
      /\ \A c \in Cell : book[c] # Empty /\ book[c] \notin Long
           => \E i \in DOMAIN greeting : IsUpdate(greeting[i], c)
  BY <1>8, GreetingIs
<1>10. ViewTypes'
  <2>1. toClient' \in [Client -> Seq(Told)]
    BY <1>4, <1>7, <1>9
  <2>2. ASSUME NEW j \in Client, stage'[j] = "editing" PROVE sheetOf'[j] \in DOMAIN texts'
    <3>1. CASE j = k
      BY <1>5, <1>6, <3>1
    <3>2. CASE j # k
      <4>1. stage[j] = "editing" /\ sheetOf'[j] = sheetOf[j]
        BY <1>2, <1>4, <1>5, <2>2, <3>2
      <4> QED
        BY <1>3, <1>6, <4>1 DEF ViewTypes
    <3> QED
      BY <3>1, <3>2
  <2>3. \A n \in DOMAIN texts' : IsFiniteSet(Stored(n, texts[n])')
    BY <1>2, <1>6 DEF Stored
  <2>4. BlankCells'
    BY <1>2, <1>3, <1>6 DEF ViewTypes, BlankCells
  <2> QED
    BY <1>2, <1>3, <1>6, <2>1, <2>2, <2>3, <2>4 DEF ViewTypes
<1>11. ViewOf(k)'
  <2> DEFINE old == toClient[k]
             new == old \o greeting
  <2>1. NoUpdate(old) /\ view[k] = Blank
    BY <1>2, <1>3 DEF ViewOf, Quiet
  <2>2. /\ new \in Seq(Told) /\ DOMAIN new = 1..Len(new) /\ Len(new) \in Nat
        /\ \A i \in DOMAIN greeting : \E j \in DOMAIN new : new[j] = greeting[i]
        /\ \A i \in DOMAIN new : (i \in DOMAIN old /\ new[i] = old[i])
                                 \/ \E j \in DOMAIN greeting : new[i] = greeting[j]
    <3>1. old \in Seq(Told) /\ greeting \in Seq(Told)
      BY <1>4, <1>9
    <3> HIDE DEF old
    <3>2. /\ new \in Seq(Told) /\ DOMAIN new = 1..Len(new) /\ Len(new) \in Nat
          /\ Len(new) = Len(old) + Len(greeting) /\ Len(old) \in Nat /\ Len(greeting) \in Nat
          /\ DOMAIN old = 1..Len(old) /\ DOMAIN greeting = 1..Len(greeting)
          /\ \A i \in 1..Len(old) : new[i] = old[i]
          /\ \A i \in 1..Len(greeting) : new[Len(old) + i] = greeting[i]
      BY <3>1
    <3> HIDE DEF new
    <3>3. ASSUME NEW i \in DOMAIN greeting PROVE Len(old) + i \in DOMAIN new
      BY <3>2
    <3>4. ASSUME NEW i \in DOMAIN new, i \notin DOMAIN old
          PROVE  \E j \in DOMAIN greeting : new[i] = greeting[j]
      <4>1. i - Len(old) \in DOMAIN greeting /\ Len(old) + (i - Len(old)) = i
        BY <3>2, <3>4
      <4> QED
        BY <3>2, <4>1
    <3> QED
      BY <3>2, <3>3, <3>4
  <2>3. toClient'[k] = new /\ view'[k] = Blank
    BY <1>2, <1>4, <1>7, <2>1
  <2> HIDE DEF old, new
  <2>4. ASSUME NEW c \in Cell, book[c] \notin Long
        PROVE  Latest(Blank, new, DOMAIN new)[c] = book[c]
    <3>1. \A i \in DOMAIN new : IsUpdate(new[i], c) => new[i].text = book[c]
      BY <1>9, <2>1, <2>2 DEF NoUpdate, IsUpdate
    <3>2. book[c] # Empty => \E i \in DOMAIN new : IsUpdate(new[i], c)
      BY <1>9, <2>2, <2>4
    <3>3. Blank[c] = Empty
      BY DEF Blank
    <3>4. Len(new) \in Nat /\ DOMAIN new \in SUBSET (1..Len(new))
      BY <2>2
    <3> DEFINE n == Len(new)
               w == book[c]
               places == DOMAIN new
    <3>5. /\ n \in Nat /\ places \in SUBSET (1..n)
          /\ \A i \in places : IsUpdate(new[i], c) => new[i].text = w
          /\ Blank[c] # w => \E i \in places : IsUpdate(new[i], c)
      BY <3>1, <3>2, <3>3, <3>4
    <3>6. c \in Cell
      OBVIOUS
    <3> HIDE DEF n, w, places
    <3>7. Latest(Blank, new, places)[c] = w
      <4>1. PICK s, t, P : s = new /\ t = Blank /\ P = places
        OBVIOUS
      <4>2. n \in Nat /\ P \in SUBSET (1..n)
        BY <3>5, <4>1
      <4>3. \A i \in P : IsUpdate(s[i], c) => s[i].text = w
        BY <3>5, <4>1
      <4>4. t[c] # w => \E i \in P : IsUpdate(s[i], c)
        BY <3>5, <4>1
      <4>5. Latest(t, s, P)[c] = w
        BY <3>6, <4>2, <4>3, <4>4, LatestAgrees
      <4> QED
        BY <4>1, <4>5
    <3> QED
      BY <3>7 DEF w, places
  <2>5. Follows(k)'
    BY <1>5, <2>3, <2>4 DEF Follows, Has, book
  <2>6. stage'[k] = "editing"
    BY <1>2, <1>4
  <2> QED
    BY <2>5, <2>6 DEF ViewOf
<1>12. ASSUME NEW j \in Client \ {k} PROVE ViewOf(j)'
  <2>1. /\ ViewOf(j) /\ stage'[j] = stage[j] /\ toClient'[j] = toClient[j] /\ sheetOf'[j] = sheetOf[j]
        /\ view'[j] = view[j] /\ missed'[j] = missed[j]
    BY <1>2, <1>4, <1>5, <1>7 DEF Views
  <2>2. stage[j] = "editing" => texts'[sheetOf[j]] = texts[sheetOf[j]]
    BY <1>3, <1>6 DEF ViewTypes
  <2> QED
    BY <1>2, <2>1, <2>2, ViewFrame
<1> QED
  BY <1>10, <1>11, <1>12 DEF Views

\* Messages to some of the clients on sheets, without a change of a text.
LEMMA NoticeViews ==
  ASSUME Inv, Views, NEW m \in Told, m.kind # "update", NEW S \in SUBSET Client,
         \A j \in Client : toClient'[j] = IF j \in S THEN Append(toClient[j], m) ELSE toClient[j],
         toClient' = [j \in Client |-> toClient'[j]],
         stage' = stage, view' = view, sheetOf' = sheetOf, texts' = texts, blanks' = blanks,
         requests' = requests, asked' = asked, missed' = missed, garbled' = garbled
  PROVE  Views'
<1>1. ViewTypes
  BY DEF Views
<1>2. toClient \in [Client -> Seq(Told)]
  BY <1>1 DEF ViewTypes
<1>3. \A j \in Client : toClient'[j] \in Seq(Told)
  BY <1>2
<1>4. toClient' \in [Client -> Seq(Told)]
  BY <1>3
<1>5. ViewTypes'
  BY <1>1, <1>4 DEF ViewTypes, BlankCells, Stored
<1>6. ASSUME NEW j \in Client PROVE ViewOf(j)'
  <2>1. ViewOf(j) /\ toClient[j] \in Seq(Told)
    BY <1>2 DEF Views
  <2>2. CASE j \in S
    BY <2>1, <2>2, ViewAppend
  <2>3. CASE j \notin S
    BY <2>1, <2>3, ViewFrame
  <2> QED
    BY <2>2, <2>3
<1> QED
  BY <1>5, <1>6 DEF Views

\* What the server takes for an edit is one of a cell.
LEMMA EditIs ==
  ASSUME NEW m \in Message, m.kind = "edit"
  PROVE  m.cell \in Cell /\ m.text \in Text
  BY DEF Message, Whole, Plain, Choice, Edit

\* An edit changes one text of one sheet, and its update goes to all clients of
\* that sheet; of a long text no client has to have what it was.
LEMMA ReadEditViews == ASSUME Inv, Views, NEW k \in Client, ReadEdit(k) PROVE Views'
<1>0. Types /\ ViewTypes
  BY DEF Inv, Views
<1>1. PICK read : /\ Accepted(read.got) /\ Read(k, "editing", read)
                  /\ texts' = [texts EXCEPT ![sheetOf[k]][read.got[1].cell] = read.got[1].text]
                  /\ blanks' \in BlanksAfter(sheetOf[k], read.got[1].cell, read.got[1].text)
                  /\ Broadcast(k, Update(read.got[1].cell, read.got[1].text, FALSE))
  BY DEF ReadEdit
<1> DEFINE c    == read.got[1].cell
           text == read.got[1].text
           n    == sheetOf[k]
           m    == Update(c, text, FALSE)
<1>2. c \in Cell /\ text \in Storable
  <2>1. read \in Reads(toServer[k]) /\ toServer[k] \in Seq(Message)
    BY <1>0, <1>1 DEF Read, Types
  <2>2. IsOne(read.got, Sent) /\ read.got[1].kind = "edit" /\ text \notin Refused \cup Bare
    BY <1>1 DEF Accepted, IsOne, Sent
  <2>3. read.got = <<toServer[k][1]>> /\ toServer[k] # <<>>
    BY <2>1, <2>2, ReadsOf
  <2>4. toServer[k][1] \in Message /\ read.got[1] = toServer[k][1]
    BY <2>1, <2>3
  <2> QED
    BY <2>2, <2>4, EditIs DEF Storable
<1>3. /\ view' = view /\ stage' = stage /\ sheetOf' = sheetOf
      /\ requests' = requests /\ garbled' = garbled /\ stage[k] = "editing"
      /\ asked' = asked /\ missed' = missed
  BY <1>1 DEF ReadEdit, Read, client
<1>4. n \in DOMAIN texts
  BY <1>0, <1>3 DEF ViewTypes
<1>5. texts' = [texts EXCEPT ![n] = [texts[n] EXCEPT ![c] = text]]
  BY <1>1
<1>6. /\ toClient' = [j \in Client |-> IF stage[j] = "editing" /\ sheetOf[j] = n
                                       THEN Append(toClient[j], m) ELSE toClient[j]]
      /\ toClient \in [Client -> Seq(Told)]
  BY <1>0, <1>1 DEF Broadcast, ViewTypes
<1>7. /\ m \in Told
      /\ text \notin Long => IsUpdate(m, c) /\ m.text = text
      /\ \A d : IsUpdate(m, d) => d = c /\ m.text = text
  BY <1>2, UpdateIs DEF Storable
<1>12. \A b \in blanks' : (b \in blanks /\ (b = <<n, c>> => text = Empty)) \/ (b = <<n, c>> /\ text = Empty)
  BY <1>1 DEF BlanksAfter
<1> HIDE DEF m, c, text, n
<1>8. /\ texts[n] \in [Cell -> Storable] /\ IsFiniteSet(Stored(n, texts[n]))
      /\ DOMAIN texts' = DOMAIN texts
      /\ texts'[n] = [texts[n] EXCEPT ![c] = text]
      /\ \A x \in DOMAIN texts \ {n} : texts'[x] = texts[x]
  BY <1>0, <1>4, <1>5 DEF ViewTypes
<1>9. /\ texts'[n] \in [Cell -> Storable]
      /\ \A x \in DOMAIN texts' : IsFiniteSet(Stored(x, texts[x])) /\ Stored(x, texts[x])' \subseteq Stored(x, texts[x]) \cup {c}
  <2>1. ASSUME NEW x \in DOMAIN texts', NEW d \in Cell, d # c, d \in Stored(x, texts[x])'
        PROVE  d \in Stored(x, texts[x])
    <3>1. texts'[x][d] = texts[x][d]
      BY <1>8, <2>1
    <3>2. <<x, d>> \in blanks' => <<x, d>> \in blanks
      BY <1>12, <2>1
    <3>3. texts'[x][d] # Empty \/ <<x, d>> \in blanks'
      BY <2>1 DEF Stored
    <3> QED
      BY <3>1, <3>2, <3>3 DEF Stored
  <2>2. \A x \in DOMAIN texts' : Stored(x, texts[x])' \subseteq Cell
    BY DEF Stored
  <2>3. \A x \in DOMAIN texts' : Stored(x, texts[x])' \subseteq Stored(x, texts[x]) \cup {c}
    BY <2>1, <2>2
  <2> QED
    BY <1>0, <1>2, <1>8, <2>3 DEF ViewTypes
<1>10. ViewTypes'
  <2>1. toClient' \in [Client -> Seq(Told)]
    BY <1>6, <1>7
  <2>2. ASSUME NEW x \in DOMAIN texts'
        PROVE  texts'[x] \in [Cell -> Storable] /\ IsFiniteSet(Stored(x, texts[x])')
    <3>1. IsFiniteSet(Stored(x, texts[x]) \cup {c})
      BY <1>9, FS_AddElement
    <3>2. IsFiniteSet(Stored(x, texts[x])')
      BY <1>9, <3>1, FS_Subset
    <3> QED
      BY <1>0, <1>8, <1>9, <3>2 DEF ViewTypes
  <2>3. BlankCells
    BY <1>0 DEF ViewTypes
  <2>4. ASSUME NEW b \in blanks'
        PROVE  b = <<b[1], b[2]>> /\ b[1] \in DOMAIN texts' /\ b[2] \in Cell /\ texts'[b[1]][b[2]] = Empty
    <3>1. CASE b = <<n, c>>
      <4>1. text = Empty
        BY <1>12, <3>1
      <4>2. b[1] = n /\ b[2] = c
        BY <3>1
      <4>3. texts'[n][c] = text
        BY <1>2, <1>8
      <4>4. n \in DOMAIN texts' /\ c \in Cell
        BY <1>2, <1>4, <1>8
      <4> QED
        BY <3>1, <4>1, <4>2, <4>3, <4>4
    <3>2. CASE b # <<n, c>>
      <4>1. b \in blanks
        BY <1>12, <3>2
      <4>2. b = <<b[1], b[2]>> /\ b[1] \in DOMAIN texts /\ b[2] \in Cell /\ texts[b[1]][b[2]] = Empty
        BY <2>3, <4>1 DEF BlankCells
      <4>3. b[1] # n \/ b[2] # c
        BY <3>2, <4>2
      <4>4. texts'[b[1]][b[2]] = texts[b[1]][b[2]]
        BY <1>2, <1>8, <4>2, <4>3
      <4> QED
        BY <1>8, <4>2, <4>4
    <3> QED
      BY <3>1, <3>2
  <2>5. BlankCells'
    BY <2>4 DEF BlankCells
  <2> QED
    BY <1>0, <1>3, <1>8, <2>1, <2>2, <2>5 DEF ViewTypes
<1>11. ASSUME NEW j \in Client PROVE ViewOf(j)'
  <2>1. ViewOf(j)
    BY DEF Views
  <2>2. CASE stage[j] = "editing" /\ sheetOf[j] = n
    <3> DEFINE s == toClient[j]
    <3>1. toClient'[j] = Append(s, m) /\ s \in Seq(Told)
      BY <1>6, <2>2
    <3> HIDE DEF s
    <3>3. ASSUME j \notin garbled, NEW d \in Cell
          PROVE  Has(view[j], missed[j], Append(s, m), d, texts'[n][d])
      <4>1. CASE d = c
        <5>1. texts'[n][d] = text
          BY <1>8, <4>1
        <5>2. CASE text \in Long
          BY <5>1, <5>2 DEF Has
        <5>3. CASE text \notin Long
          BY <1>7, <3>1, <4>1, <5>1, <5>3, HasAppend
        <5> QED
          BY <5>2, <5>3
      <4>2. CASE d # c
        <5>1. texts'[n][d] = texts[n][d]
          BY <1>8, <4>2
        <5>2. Has(view[j], missed[j], s, d, texts[n][d])
          BY <2>1, <2>2, <3>3 DEF ViewOf, Follows, s
        <5>3. ~IsUpdate(m, d)
          BY <1>7, <4>2
        <5> QED
          BY <1>7, <3>1, <5>1, <5>2, <5>3, HasAppend
      <4> QED
        BY <4>1, <4>2
    <3>4. Follows(j)'
      BY <1>3, <2>2, <3>1, <3>3 DEF Follows
    <3> QED
      BY <1>3, <2>2, <3>4 DEF ViewOf
  <2>3. CASE ~(stage[j] = "editing" /\ sheetOf[j] = n)
    <3>1. toClient'[j] = toClient[j]
      BY <1>6, <2>3
    <3>2. stage[j] = "editing" => texts'[sheetOf[j]] = texts[sheetOf[j]]
      BY <1>0, <1>8, <2>3 DEF ViewTypes
    <3> QED
      BY <1>3, <2>1, <3>1, <3>2, ViewFrame
  <2> QED
    BY <2>2, <2>3
<1> QED
  BY <1>10, <1>11 DEF Views

-----------------------------------------------------------------------------

LEMMA StepViews == Inv /\ Views /\ [Next]_vars => Views'
<1> SUFFICES ASSUME Inv, Views, [Next]_vars
             PROVE  Views'
  OBVIOUS
<1>0. ViewTypes /\ Types
  BY DEF Views, Inv
<1>1. requests \in 0..MaxRequests /\ MaxRequests \in Nat /\ asked \subseteq Cell \X Text
  BY <1>0, TextAssumption DEF ViewTypes
<1>2. ASSUME NEW k \in Client, ChooseSheet(k) PROVE Views'
  BY <1>1, <1>2, OtherViews DEF ChooseSheet, server, history
<1>3. ASSUME NEW k \in Client, NEW c \in Cell, NEW text \in Text,
             SendRequest(k, Edit(c, text))
      PROVE  Views'
  <2>1. requests' \in 0..MaxRequests
    BY <1>1, <1>3 DEF SendRequest
  <2>2. asked' \subseteq Cell \X Text
    BY <1>1, <1>3 DEF SendRequest, Edit, Plain
  <2> QED
    BY <1>3, <2>1, <2>2, OtherViews DEF SendRequest, client, server
<1>10. ASSUME NEW k \in Client, SendRequest(k, Plain("other")) PROVE Views'
  <2>1. requests' \in 0..MaxRequests
    BY <1>1, <1>10 DEF SendRequest
  <2>2. asked' \subseteq Cell \X Text
    BY <1>1, <1>10 DEF SendRequest, Plain
  <2> QED
    BY <1>10, <2>1, <2>2, OtherViews DEF SendRequest, client, server
<1>4. ASSUME NEW k \in Client, ReceiveFirst(k) PROVE Views'
  <2>1. PICK read \in Reads(toClient[k]) :
          /\ toClient' = [toClient EXCEPT ![k] = read.left]
          /\ garbled' = IF IsOne(read.got, {"sheets"}) THEN garbled ELSE garbled \cup {k}
    BY <1>4 DEF ReceiveFirst, ShowSheets
  <2>2. /\ view' = view /\ stage' = stage /\ sheetOf' = sheetOf /\ texts' = texts
        /\ requests' = requests /\ asked' = asked /\ missed' = missed /\ blanks' = blanks
    BY <1>4 DEF ReceiveFirst, ShowSheets, server
  <2> QED
    BY <2>1, <2>2, ReadViews
<1>5. ASSUME NEW k \in Client, ReceiveData(k) PROVE Views'
  <2>1. PICK read \in Reads(toClient[k]) :
          /\ toClient' = [toClient EXCEPT ![k] = read.left]
          /\ garbled' = IF \A i \in DOMAIN read.got : IsLine(read.got, i) THEN garbled ELSE garbled \cup {k}
          /\ \E taken \in Takings(read.got) :
               /\ view' = [view EXCEPT ![k] = Latest(@, read.got, taken)]
               /\ missed' = [missed EXCEPT ![k] = Missing(@, read.got, Parsed(read.got), taken)]
    BY <1>5 DEF ReceiveData
  <2>2. /\ stage' = stage /\ sheetOf' = sheetOf /\ texts' = texts /\ requests' = requests
        /\ asked' = asked /\ blanks' = blanks
    BY <1>5 DEF ReceiveData, server
  <2> QED
    BY <2>1, <2>2, ReadViews
<1>6. ASSUME NEW k \in Client, ReadBadEdit(k) PROVE Views'
  <2>1. Plain("other") \in Told /\ Plain("other").kind # "update"
    BY DEF Plain, Told, Notice
  <2>2. /\ toClient' = [toClient EXCEPT ![k] = Append(@, Plain("other"))]
        /\ stage' = stage /\ view' = view /\ sheetOf' = sheetOf /\ texts' = texts
        /\ requests' = requests /\ garbled' = garbled
        /\ asked' = asked /\ missed' = missed /\ blanks' = blanks
    BY <1>6 DEF ReadBadEdit, Read, client, server
  <2>3. /\ \A j \in Client : toClient'[j] = IF j \in {k} THEN Append(toClient[j], Plain("other")) ELSE toClient[j]
        /\ toClient' = [j \in Client |-> toClient'[j]]
    BY <1>0, <2>2 DEF Types
  <2> QED
    BY <2>1, <2>2, <2>3, NoticeViews
<1>7. ASSUME NEW k \in Client, ReadOther(k) PROVE Views'
  <2>1. Plain("other") \in Told /\ Plain("other").kind # "update"
    BY DEF Plain, Told, Notice
  <2> DEFINE S == {j \in Client : stage[j] = "editing" /\ sheetOf[j] = sheetOf[k]}
  <2>2. /\ toClient' = [j \in Client |-> IF stage[j] = "editing" /\ sheetOf[j] = sheetOf[k]
                                         THEN Append(toClient[j], Plain("other")) ELSE toClient[j]]
        /\ stage' = stage /\ view' = view /\ sheetOf' = sheetOf /\ texts' = texts
        /\ requests' = requests /\ garbled' = garbled
        /\ asked' = asked /\ missed' = missed /\ blanks' = blanks
    BY <1>7 DEF ReadOther, Broadcast, Read, client, server
  <2>3. /\ \A j \in Client : toClient'[j] = IF j \in S THEN Append(toClient[j], Plain("other")) ELSE toClient[j]
        /\ toClient' = [j \in Client |-> toClient'[j]]
    BY <2>2
  <2> HIDE DEF S
  <2>4. S \in SUBSET Client
    BY DEF S
  <2> QED
    BY <2>1, <2>2, <2>3, <2>4, NoticeViews
<1>8. ASSUME NEW k \in Client, ReadThrows(k) PROVE Views'
  BY <1>1, <1>8, OtherViews DEF ReadThrows, Read, client
<1>9. CASE UNCHANGED vars
  BY <1>1, <1>9, OtherViews DEF vars, client, server, streams, history
<1> QED
  BY <1>2, <1>3, <1>4, <1>5, <1>6, <1>7, <1>8, <1>9, <1>10, ConnectViews, ReadNameViews, ReadChoiceViews, ReadEditViews
  DEF Next, ClientReads, ServerReads

LEMMA ViewsAlways == Spec => []Views
<1>1. Init => Views
  BY InitViews
<1>2. Inv /\ Views /\ [Next]_vars => Views'
  BY StepViews
<1> QED
  BY <1>1, <1>2, InOrderAlways, PTL DEF Spec

\* With any clients, requests and reads of the streams, the fields of clients
\* and server keep their types, and a spreadsheet keeps no text that the server
\* refuses.
THEOREM ConversationTypes == Spec => []TypeOK
<1>1. ASSUME BlankCells
      PROVE  blanks \subseteq (DOMAIN texts) \X Cell /\ \A b \in blanks : texts[b[1]][b[2]] = Empty
  <2>1. ASSUME NEW b \in blanks PROVE b \in (DOMAIN texts) \X Cell
    <3>1. PICK x, y : x = b[1] /\ y = b[2]
      OBVIOUS
    <3>2. b = <<x, y>> /\ x \in DOMAIN texts /\ y \in Cell
      BY <1>1, <3>1 DEF BlankCells
    <3>3. x \in DOMAIN texts /\ y \in Cell
      BY <3>2
    <3>4. <<x, y>> \in (DOMAIN texts) \X Cell
      BY <3>3
    <3> QED
      BY <3>2, <3>4, Zenon
  <2> QED
    BY <1>1, <2>1 DEF BlankCells
<1>2. Inv /\ Views => TypeOK
  BY <1>1 DEF Inv, Types, Views, ViewTypes, TypeOK, Storable
<1> QED
  BY <1>2, InOrderAlways, ViewsAlways, PTL

\* With any clients, requests and reads of the streams, what is on its way to a
\* client whose reads were lines each brings it to the texts of its sheet, but
\* for those at the limit of the buffer and for formulas that the client has
\* refused (Spreadsheet.cs:673).  An edit that the server reads before
\* the client's choice is in the greeting of addClient (spreadsheet.cpp:489), and
\* the update of a later one comes behind that greeting.
THEOREM ViewsKept == Spec => []ViewsFollow
<1>1. Views => ViewsFollow
  BY DEF Views, ViewOf, Follows, Has, Agrees, ViewsFollow
<1> QED
  BY <1>1, ViewsAlways, PTL
=============================================================================
