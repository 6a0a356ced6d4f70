------------------------------- MODULE Lists -------------------------------
(***************************************************************************)
(* What the loops leave of a list that go through it once and delete the   *)
(* entries to which a condition applies.                                   *)
(***************************************************************************)
EXTENDS Integers, Sequences

\* what such a loop over the list s leaves of it, del being the entries that it deletes
Without(s, del) ==
  LET kept[i \in 0..Len(s)] ==
        IF i = 0 THEN <<>>
        ELSE IF s[i] \in del THEN kept[i - 1] ELSE Append(kept[i - 1], s[i])
  IN  kept[Len(s)]
=============================================================================
