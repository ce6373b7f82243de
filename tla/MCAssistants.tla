---------------------------- MODULE MCAssistants ----------------------------
(* A small instance of Assistants: two sources, two contents.               *)
EXTENDS Assistants, TLC

\* One source that no instruction names; both, and an instruction that
\* searches the second.
DeuxFiches == {[sources |-> {"s1"}, consignes |-> {}],
               [sources |-> {"s1", "s2"}, consignes |-> {"s2"}]}

Symetrie == Permutations(Requetes)
=============================================================================
