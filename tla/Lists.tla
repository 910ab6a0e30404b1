-------------------------------- MODULE Lists --------------------------------
(***************************************************************************)
(* The few operators on lists that the modules with proofs share.  They    *)
(* mean what their namesakes in SequencesExt mean; with that whole module  *)
(* in scope an obligation takes the prover several times as long.          *)
(***************************************************************************)
EXTENDS Integers, FiniteSets, Sequences, FiniteSetsExt

\* The list without its element at i.
RemoveAt(s, i) == SubSeq(s, 1, i - 1) \o SubSeq(s, i + 1, Len(s))

\* The first index of s where Test holds, or 0.
SelectInSeq(s, Test(_)) ==
    LET found == {i \in 1 .. Len(s) : Test(s[i])} IN IF found # {} THEN Min(found) ELSE 0

\* The list without the first occurrence of e.
RemoveFirst(s, e) ==
    IF e \in Range(s) THEN RemoveAt(s, Min({i \in 1 .. Len(s) : s[i] = e})) ELSE s

Reverse(s) == [i \in 1 .. Len(s) |-> s[Len(s) + 1 - i]]

\* The enumerations of a finite set, and one of them.
SetToSeqs(S) == {f \in [1 .. Cardinality(S) -> S] : IsInjective(f)}
SetToSeq(S)  == CHOOSE f \in [1 .. Cardinality(S) -> S] : IsInjective(f)
=============================================================================
