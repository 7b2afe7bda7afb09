---------------------------- MODULE LabelRegistry ----------------------------
(***************************************************************************)
(* What the QR routes promise: a resource has no label or exactly one that *)
(* scans; it gets its first one once, and each later one takes the place   *)
(* of the one before.  Tokens are numbered in the order they were made.    *)
(***************************************************************************)
EXTENDS Naturals

CONSTANTS Resources, NoLabel

VARIABLES label,  \* the token that scans, of each resource
          made    \* how many tokens there have been

\* The first label of a resource.
Issue(r) ==
  /\ label[r] = NoLabel
  /\ made' = made + 1
  /\ label' = [label EXCEPT ![r] = made']

\* The one on the wall is replaced.
Replace(r) ==
  /\ label[r] # NoLabel
  /\ made' = made + 1
  /\ label' = [label EXCEPT ![r] = made']

Init ==
  /\ made \in Nat
  /\ label \in [Resources -> {NoLabel} \cup 1..made]
  /\ \A r1, r2 \in Resources : label[r1] = label[r2] /\ label[r1] # NoLabel => r1 = r2

Spec == Init /\ [][\E r \in Resources : Issue(r) \/ Replace(r)]_<<label, made>>

=============================================================================
