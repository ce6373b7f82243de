---------------------------- MODULE CycleDemande ----------------------------
(***************************************************************************)
(* What docs/collectif.md and services/etats.py promise of a demande, with *)
(* no table, no transaction and no clock: a state, whether its conditions  *)
(* to start ("N soutiens distincts ET un garant") are met, and whether the *)
(* author's e-mail is kept.                                                *)
(***************************************************************************)
CONSTANT Dem

VARIABLES etat, appui, courriel

vars == <<etat, appui, courriel>>

Finies == {"realisee", "close"}

Init == /\ etat = [d \in Dem |-> "absente"]
        /\ appui = [d \in Dem |-> FALSE]
        /\ courriel = [d \in Dem |-> FALSE]

\* A demande is deposited: open, with or without an e-mail.
Deposer(d) ==
    /\ etat[d] = "absente"
    /\ etat' = [etat EXCEPT ![d] = "ouverte"]
    /\ \E c \in BOOLEAN : courriel' = [courriel EXCEPT ![d] = c]
    /\ UNCHANGED appui

\* A person supports it or withdraws.  The moment an open demande has both
\* the supporters and the guarantor, the work starts, and at no other moment.
Appuyer(d) ==
    /\ etat[d] \in {"ouverte", "chantier", "a_confirmer"}
    /\ \E suffisant \in BOOLEAN :
         /\ appui' = [appui EXCEPT ![d] = suffisant]
         /\ etat' = [etat EXCEPT ![d] =
                       IF @ = "ouverte" /\ suffisant THEN "chantier" ELSE @]
    /\ UNCHANGED courriel

\* Supporters may withdraw from a demande that is over.
Desister(d) ==
    /\ etat[d] \in Finies
    /\ appui' = [appui EXCEPT ![d] = FALSE]
    /\ UNCHANGED <<etat, courriel>>

\* Its collection is published to all: the author is asked.
Livrer(d) ==
    /\ etat[d] \in {"ouverte", "chantier"}
    /\ etat' = [etat EXCEPT ![d] = "a_confirmer"]
    /\ UNCHANGED <<appui, courriel>>

\* He is not satisfied: the work goes on.
Reprendre(d) ==
    /\ etat[d] = "a_confirmer"
    /\ etat' = [etat EXCEPT ![d] = "chantier"]
    /\ UNCHANGED <<appui, courriel>>

\* The demandes of S are over, and their e-mails erased: answered, left
\* without an answer, or closed.
Terminer(S, fin) ==
    /\ fin = "realisee" => \A d \in S : etat[d] = "a_confirmer"
    /\ \A d \in S : etat[d] # "absente"
    /\ etat' = [d \in Dem |-> IF d \in S THEN fin ELSE etat[d]]
    /\ courriel' = [d \in Dem |-> d \notin S /\ courriel[d]]
    /\ UNCHANGED appui

Next == \/ \E d \in Dem : \/ Deposer(d)
                          \/ Appuyer(d)
                          \/ Desister(d)
                          \/ Livrer(d)
                          \/ Reprendre(d)
        \/ \E S \in SUBSET Dem, fin \in Finies : Terminer(S, fin)

Spec == Init /\ [][Next]_vars
=============================================================================
