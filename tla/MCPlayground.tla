---------------------------- MODULE MCPlayground ----------------------------
(* Instances of Playground for TLC. *)
EXTENDS Playground

\* The first upstream sends what is new, the second the text so far.
MCKind == <<"delta", "snapshot">>

\* A heading, and a stretch of text with another: the second may follow the first, while the
\* first after the first begins with what is there.
MCDelta == {<<1>>, <<2, 1>>}

\* In the last visit nothing is added to an answer.
MCMaxText == [n \in 0..MaxMounts |-> IF n = MaxMounts THEN 0 ELSE 3]

=============================================================================
