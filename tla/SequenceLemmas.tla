--------------------------- MODULE SequenceLemmas ---------------------------
(***************************************************************************)
(* The two ways the state machines change a sequence: a new last element   *)
(* and a replaced element.                                                 *)
(***************************************************************************)
EXTENDS Naturals, Sequences, TLAPS

\* Appending keeps the old elements and adds the new one at the end.
LEMMA AppendFacts ==
    ASSUME NEW S, NEW s \in Seq(S), NEW x \in S
    PROVE  /\ Append(s, x) \in Seq(S)
           /\ Len(Append(s, x)) = Len(s) + 1
           /\ DOMAIN s = 1..Len(s)
           /\ DOMAIN Append(s, x) = 1..(Len(s) + 1)
           /\ Len(s) \in Nat
           /\ \A i \in 1..Len(s) : Append(s, x)[i] = s[i]
           /\ Append(s, x)[Len(s) + 1] = x
  OBVIOUS

\* Replacing one element keeps the others.
LEMMA UpdateFacts ==
    ASSUME NEW S, NEW s \in Seq(S), NEW i \in DOMAIN s, NEW x \in S
    PROVE  /\ [s EXCEPT ![i] = x] \in Seq(S)
           /\ DOMAIN [s EXCEPT ![i] = x] = DOMAIN s
           /\ [s EXCEPT ![i] = x][i] = x
           /\ \A j \in DOMAIN s : j # i => [s EXCEPT ![i] = x][j] = s[j]
           /\ Len([s EXCEPT ![i] = x]) = Len(s)
  OBVIOUS
=============================================================================
