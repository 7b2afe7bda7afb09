----------------------------- MODULE MCQrLabels -----------------------------
(* Two workers, two keys and two resources, one of which may have a label   *)
(* from before tokens were stored encrypted.                                *)
EXTENDS QrLabels, TLC

LabelSymmetry == Permutations(Workers) \cup Permutations(Keys) \cup Permutations(Resources)

=============================================================================
