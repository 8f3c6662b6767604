--------------------------- MODULE MCSpreadsheet ---------------------------
(* Spreadsheet on two or three cells and a few of the sample texts.        *)
EXTENDS SpreadsheetCycles, SampleTexts

=============================================================================
