----------------------------- MODULE SlidingLog -----------------------------
(***************************************************************************)
(* What the circular log promises its users: a window that slides over an  *)
(* unbounded sequence of numbered entries.  Entries enter at the right and *)
(* are immutable while they are retained; the committed and the applied    *)
(* positions only advance, in this order; an entry leaves at the left only *)
(* when it has been applied.                                               *)
(***************************************************************************)
EXTENDS Integers, Sequences

VARIABLES window,      \* the retained entries, oldest first
          committed,   \* index of the last committed entry
          applied      \* index of the last applied entry

vars == <<window, committed, applied>>

\* Consecutive indices, and the applied and committed positions inside.
WellFormed(w, c, a) ==
  /\ w # << >>
  /\ \A k \in 2 .. Len(w) : w[k].idx = w[k - 1].idx + 1
  /\ w[1].idx - 1 <= a
  /\ a <= c
  /\ c <= w[Len(w)].idx

Init ==
  /\ \E w \in {window} : WellFormed(w, 0, 0) /\ w[1].idx = 1
  /\ committed = 0
  /\ applied = 0

\* Append entries, commit, apply and drop applied ones.
Slide ==
  \E old \in {window}, new \in {window'}, c \in {committed'}, a \in {applied'} :
    LET dropped == new[1].idx - old[1].idx
        kept    == Len(old) - dropped
    IN  /\ WellFormed(new, c, a)
        /\ committed <= c
        /\ applied <= a
        /\ dropped >= 0
        /\ kept <= Len(new)
        /\ SubSeq(old, dropped + 1, Len(old)) = SubSeq(new, 1, kept)

Spec == Init /\ [][Slide]_vars
=============================================================================
