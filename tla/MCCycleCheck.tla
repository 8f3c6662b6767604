---------------------------- MODULE MCCycleCheck ----------------------------
(* CycleCheck on three cells and the sample texts.                         *)
EXTENDS CycleCheck, SampleTexts

=============================================================================
