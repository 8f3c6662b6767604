------------------------------ MODULE MCServer ------------------------------
(***************************************************************************)
(* Instances of Server for TLC: two connections, and sheets with           *)
(* and without a space in their names.                                     *)
(***************************************************************************)
EXTENDS ServerHistories, SampleTexts

CONSTANTS
  k1, k2,    \* connections
  ann, bob,  \* user names
  budget,    \* the name of a sheet, without a space
  spaced     \* "bud get", which becomes budget

\* Each connection has a name of its own.
OwnNames == [k \in Conn |-> IF k = k1 THEN {ann} ELSE {bob}]

\* Any connection may come to have any of the names.
AnyNames == [k \in Conn |-> User]

Stripped == [n \in SheetName |-> IF n = spaced THEN budget ELSE n]

=============================================================================
