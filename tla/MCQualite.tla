----------------------------- MODULE MCQualite -----------------------------
(* Small instances of Qualite.  `sujet` is chosen once: what a behaviour is *)
(* about, which keeps apart parts of the state that read nothing of each    *)
(* other.  `serie` and `calme` are history: what only holds of requests     *)
(* that follow one another, or while no commit was refused, is asked of     *)
(* them alone, in the same run as the rest.                                 *)
EXTENDS Qualite

CONSTANTS t1, t2, q1, q2, r1, r2, m1, m2

VARIABLES sujet, serie, calme

Histoire == <<vars, sujet, serie, calme>>

SansChangement ==
    [texte |-> Rien, relecture |-> Rien, horsSujet |-> Rien, fiable |-> Rien]

\* The modifications the screens send: each field alone, and the answer of
\* the collection taken for reference.
MCCorps ==
    {[SansChangement EXCEPT !.texte = t2], [SansChangement EXCEPT !.texte = t1],
     [SansChangement EXCEPT !.relecture = "valide"],
     [SansChangement EXCEPT !.relecture = "rejete"],
     [SansChangement EXCEPT !.horsSujet = TRUE], [SansChangement EXCEPT !.horsSujet = FALSE],
     [SansChangement EXCEPT !.fiable = TRUE], [SansChangement EXCEPT !.fiable = FALSE],
     [SansChangement EXCEPT !.texte = t2, !.relecture = "valide"]}

Crees(t) == Cardinality({j \in DOMAIN t : t[j].etat # "absent"})
Demandes == {p \in Requetes :
               requete[p].etape \in {"creerRun", "rassembler", "verifierMesure", "creerMesure"}}
Promis(t) == Crees(t) + Cardinality(Demandes)
EnVol == Cardinality({p \in Requetes : requete[p] # Repos})
Modifications == {requete[p] : p \in {k \in Requetes : Etape(k, "modifier")}}

Utilisees == {q \in Questions : jeu[q] # Rien}

\* The identifiers are taken in order, and a job is only asked for when there
\* is one left.  Two requests edit one question; or two requests launch two runs or
\* measurements on one question; or, one request at a time, the questions a
\* run wrote are reviewed, or those a measurement asks are edited.
Borne ==
    /\ jeu[q2] # Rien => jeu[q1] # Rien
    /\ runs[r2].etat # "absent" => runs[r1].etat # "absent"
    /\ mesures[m2].etat # "absent" => mesures[m1].etat # "absent"
    /\ sujet = "edition" =>
          /\ Crees(runs) = 0 /\ Crees(mesures) = 0
          /\ Cardinality(Utilisees) <= 1
          /\ \A p \in Requetes : requete[p].etape \in {"repos", "creer", "modifier"}
    /\ sujet \in {"lancement", "mesure"} =>
          \A p \in Requetes : Etape(p, "creer") =>
              /\ EnVol = 1 /\ Crees(runs) = 0 /\ Crees(mesures) = 0
              /\ requete[p].voulu.relecture = "valide"
    /\ sujet = "lancement" =>
          /\ Promis(runs) + Crees(mesures) <= 2
          /\ Cardinality(Utilisees) <= 1 /\ Utilisees = Presentes
          /\ Modifications = {} /\ calme
    /\ sujet \in {"edition", "lancement"} => arrets = 0
    /\ sujet \in {"run", "mesure"} => EnVol <= 1
    /\ sujet = "run" => Promis(runs) <= 1 /\ Crees(mesures) = 0
    /\ sujet = "mesure" => Crees(runs) = 0 /\ Promis(mesures) <= 1
    /\ sujet # "edition" =>
          \A q \in Presentes : ~jeu[q].horsSujet /\ ~jeu[q].fiable
    /\ sujet \in {"lancement", "run"} => \A q \in Presentes : jeu[q].texte = t1
    /\ sujet = "mesure" =>
          /\ \A q \in Presentes : jeu[q].relecture = "valide"
          /\ \A r \in Modifications : /\ \E m \in Mesures : mesures[m].etat \in Existants
                                    /\ r.question = q1 /\ r.voulu.texte # r.lu.texte
          /\ jeu[q2] # Effacee

MCInit == Init /\ sujet \in {"edition", "lancement", "run", "mesure"} /\ serie = TRUE /\ calme = TRUE

MCNext == /\ \/ Marche /\ calme' = calme
             \/ Panne /\ calme' = FALSE
          /\ serie' = (serie /\ EnVol' <= 1)
          /\ UNCHANGED sujet
          /\ Borne'

MCSpec == MCInit /\ [][MCNext]_Histoire

MCFairSpec == MCSpec /\ Fairness

FiableVoulue == serie => FiableValidee

\* execution.executer, "un run se termine toujours, motive": what is active
\* ends, though the model never answers, another one waits for its turn or
\* the process stops - as long as no commit was refused, after which a row
\* may stay active until the next start.
TravailAboutit ==
    /\ \A r \in Runs : runs[r].etat \in ACTIFS ~> runs[r].etat \notin ACTIFS \/ ~calme
    /\ \A m \in Mesures : mesures[m].etat \in ACTIFS ~> mesures[m].etat \notin ACTIFS \/ ~calme
=============================================================================
