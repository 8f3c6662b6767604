---------------------------- MODULE HistoryViews ----------------------------
(***************************************************************************)
(* The histories of UndoHistory, and what each request and each death may  *)
(* make of one.                                                            *)
(***************************************************************************)
EXTENDS Naturals, Sequences, SequencesExt

CONSTANTS
  Cell,     \* the cells
  Content,  \* the texts
  Empty     \* the text of a cell nobody has written

Blank == [content |-> Empty, prev |-> Empty]

View == [Cell -> [content : Content, prev : Content]]

History == [current : View, past : Seq(View)]

-----------------------------------------------------------------------------

\* To empty a cell forgets its previous text too.
Edited(h, c, text) ==
  [current |-> [h.current EXCEPT
                  ![c] = IF text = Empty
                         THEN Blank
                         ELSE [content |-> text, prev |-> @.content]],
   past    |-> Append(h.past, h.current)]

Reverted(h, c) ==
  [current |-> [h.current EXCEPT ![c] = [content |-> @.prev, prev |-> @.prev]],
   past    |-> Append(h.past, h.current)]

Undone(h) == [current |-> Last(h.past), past |-> Front(h.past)]

Changes(h) ==
  {Edited(h, c, text) : c \in Cell, text \in Content}
  \cup {Reverted(h, c) : c \in {r \in Cell : h.current[r].content # h.current[r].prev}}
  \cup (IF h.past = << >> THEN {} ELSE {Undone(h)})

\* The newest k of the views that can be undone to are left.
Newest(h, k) ==
  [current |-> h.current, past |-> SubSeq(h.past, Len(h.past) - k + 1, Len(h.past))]

\* Only the given cells are left, and there is nothing to undo.
Only(h, cells) ==
  [current |-> [c \in Cell |-> IF c \in cells THEN h.current[c] ELSE Blank],
   past    |-> << >>]

\* What a death may leave of a history.
Remains(h) == {Newest(h, k) : k \in 0..Len(h.past)} \cup {Only(h, cells) : cells \in SUBSET Cell}

=============================================================================
