--------------------------- MODULE MCConversation ---------------------------
(***************************************************************************)
(* Conversation with two clients.  Users may empty A1 or put a formula     *)
(* there, and put formulas into B1: one that is too long for an update,    *)
(* one that is only its '=', and one that the server refuses.              *)
(***************************************************************************)
EXTENDS Conversation

CONSTANTS
  k1, k2,   \* clients
  A1, B1,   \* cells
  none, sum, long, lone, bad  \* texts

SampleEdits ==
  {<<A1, none>>, <<A1, sum>>, <<B1, long>>, <<B1, lone>>, <<B1, bad>>}

=============================================================================
