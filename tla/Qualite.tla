------------------------------ MODULE Qualite ------------------------------
(***************************************************************************)
(* The reference questions of a collection, the runs that write some, the  *)
(* measurements that ask them, and the requests that edit them meanwhile.  *)
(* One collection.                                                         *)
(*                                                                         *)
(* A run or a measurement is a row and a task of the process; rows are     *)
(* committed at each stage, tasks die with the process, and the next start *)
(* marks the active rows as interrupted.  A measurement starts from the    *)
(* questions as they were when it was asked for.                           *)
(***************************************************************************)
EXTENDS Naturals, FiniteSets

CONSTANTS
    Questions,  \* identifiers of questions
    Textes,     \* what a question and its reference answer may say
    Runs,       \* identifiers of runs of generation
    Mesures,    \* identifiers of measurements
    Requetes,   \* how many requests can be in flight together
    Corps,      \* the bodies of the modifications asked for
    Pannes,     \* whether the database may refuse a commit
    MaxArrets,  \* bound: stops of the process
    Rien,       \* NULL
    Effacee     \* the question that was deleted

RELECTURES_PAIRE == {"brut", "valide", "rejete"}

ASSUME QuestionsAssumption == IsFiniteSet(Questions)
ASSUME RequetesAssumption == IsFiniteSet(Requetes)
ASSUME RienAssumption == Rien \notin Textes \cup Runs \cup Mesures
ASSUME CorpsAssumption ==
    Corps \subseteq [texte : Textes \cup {Rien}, relecture : RELECTURES_PAIRE \cup {Rien},
                     horsSujet : BOOLEAN \cup {Rien}, fiable : BOOLEAN \cup {Rien}]
ASSUME BornesAssumption == MaxArrets \in Nat

VARIABLES
    jeu,      \* the rows of paire_qa
    runs,     \* the rows of generation, with their tasks
    mesures,  \* the rows of mesure, with their tasks
    requete,  \* what each request in flight has read and wants
    arrets    \* how many times the process has stopped

vars == <<jeu, runs, mesures, requete, arrets>>

\* verdict: the text the last verdict was given to, when there is one.
Question == [texte : Textes, relecture : RELECTURES_PAIRE, horsSujet : BOOLEAN,
             fiable : BOOLEAN, run : Runs \cup {Rien},
             verdict : Textes \cup {Rien}, mesure : Mesures \cup {Rien}]

ASSUME LignesAssumption == Rien # Effacee /\ Rien \notin Question /\ Effacee \notin Question

ACTIFS == {"en_attente", "en_cours"}
Existants == ACTIFS \cup {"termine", "erreur"}
Etats == Existants \cup {"absent", "supprime"}

Run == [etat : Etats,
        tache : {"aucune", "file", "redige", "enregistrer", "terminer", "echouer"}]

\* liste: the questions to ask, as read; resultats: the rows of
\* mesure_resultat; reponse: how far each question is; traitees: a column.
Mesure == [etat : Etats, tache : {"aucune", "file", "interroge", "conclure"},
           erreur : BOOLEAN, liste : [Questions -> Textes \cup {Rien}],
           resultats : [Questions -> {"aucun", "juge", "erreur"}],
           reponse : [Questions -> {"aucune", "attend", "ranger", "rangerErreur",
                                    "noter", "fini"}],
           traitees : Nat]

Repos == [etape |-> "repos"]
Personne == [q \in Questions |-> Rien]

Init == /\ jeu = [q \in Questions |-> Rien]
        /\ runs = [r \in Runs |-> [etat |-> "absent", tache |-> "aucune"]]
        /\ mesures = [m \in Mesures |->
              [etat |-> "absent", tache |-> "aucune", erreur |-> FALSE, liste |-> Personne,
               resultats |-> [q \in Questions |-> "aucun"],
               reponse |-> [q \in Questions |-> "aucune"], traitees |-> 0]]
        /\ requete = [p \in Requetes |-> Repos]
        /\ arrets = 0

-----------------------------------------------------------------------------
Presentes == {q \in Questions : jeu[q] \notin {Rien, Effacee}}
Neuves == {q \in Questions : jeu[q] = Rien}

ActifParmi(t) == \E j \in DOMAIN t : t[j].etat \in ACTIFS

Etape(p, e) == requete[p].etape = e
Aller(p, r) == requete' = [requete EXCEPT ![p] = r]

\* The columns a session changed, on the row as it is at the commit.
Colonnes(ligne, lu, voulu) ==
    [c \in DOMAIN ligne |-> IF voulu[c] # lu[c] THEN voulu[c] ELSE ligne[c]]

Nouvelle(texte, relecture, horsSujet, run) ==
    [texte |-> texte, relecture |-> relecture, horsSujet |-> horsSujet, fiable |-> FALSE,
     run |-> run, verdict |-> Rien, mesure |-> Rien]

\* _questions_pliees: the texts a new question may not repeat.
Pliees == {jeu[q].texte : q \in {k \in Presentes : jeu[k].relecture # "rejete"}}

-----------------------------------------------------------------------------
(* The set of questions.                                                   *)

\* A question that is in the set already is refused (409), and inserted by
\* the same session.
CreerLire(p, texte, relecture, horsSujet) ==
    /\ Etape(p, "repos")
    /\ texte \notin Pliees
    /\ Aller(p, [etape |-> "creer", voulu |-> Nouvelle(texte, relecture, horsSujet, Rien)])
    /\ UNCHANGED <<jeu, runs, mesures, arrets>>

CreerEcrire(p) ==
    /\ Etape(p, "creer")
    /\ \E q \in Neuves : jeu' = [jeu EXCEPT ![q] = requete[p].voulu]
    /\ Aller(p, Repos)
    /\ UNCHANGED <<runs, mesures, arrets>>

\* The body is applied in the order of the code: the text, the subject, the
\* review, then the flag "fiable".
Fourni(champ, ancien) == IF champ = Rien THEN ancien ELSE champ

Retire(c) == c.horsSujet = TRUE \/ c.relecture \in {"brut", "rejete"}

\* Plausible bug, in no specification: a review that is not sent is erased.
Modifiee_Nulle(l, c) ==
    [l EXCEPT !.texte = Fourni(c.texte, @),
              !.verdict = IF Fourni(c.texte, l.texte) # l.texte THEN Rien ELSE @,
              !.horsSujet = Fourni(c.horsSujet, @),
              !.relecture = c.relecture,
              !.fiable = Fourni(c.fiable, @ /\ ~Retire(c))]

\* Plausible bug, in no specification: a rejection keeps the flag.
Modifiee_RejetFiable(l, c) ==
    [l EXCEPT !.texte = Fourni(c.texte, @),
              !.verdict = IF Fourni(c.texte, l.texte) # l.texte THEN Rien ELSE @,
              !.horsSujet = Fourni(c.horsSujet, @),
              !.relecture = Fourni(c.relecture, @),
              !.fiable = Fourni(c.fiable, @ /\ c.horsSujet # TRUE)]

Modifiee(l, c) ==
    [l EXCEPT !.texte = Fourni(c.texte, @),
              !.verdict = IF Fourni(c.texte, l.texte) # l.texte THEN Rien ELSE @,
              !.horsSujet = Fourni(c.horsSujet, @),
              !.relecture = Fourni(c.relecture, @),
              !.fiable = Fourni(c.fiable, @ /\ ~Retire(c))]

ModifierLire(p, q, c) ==
    /\ Etape(p, "repos")
    /\ q \in Presentes
    /\ LET voulu == Modifiee(jeu[q], c)
       IN  /\ c.fiable = TRUE => voulu.relecture = "valide" /\ ~voulu.horsSujet
           /\ Aller(p, [etape |-> "modifier", question |-> q, lu |-> jeu[q], voulu |-> voulu])
    /\ UNCHANGED <<jeu, runs, mesures, arrets>>

\* The row may be gone: nothing is written and the request fails.
ModifierEcrire(p) ==
    /\ Etape(p, "modifier")
    /\ LET r == requete[p]
       IN  jeu' = IF r.question \notin Presentes THEN jeu
                  ELSE [jeu EXCEPT ![r.question] = Colonnes(@, r.lu, r.voulu)]
    /\ Aller(p, Repos)
    /\ UNCHANGED <<runs, mesures, arrets>>

SupprimerQuestion(q) ==
    /\ q \in Presentes
    /\ jeu' = [jeu EXCEPT ![q] = Effacee]
    /\ UNCHANGED <<runs, mesures, requete, arrets>>

-----------------------------------------------------------------------------
(* A run of generation.                                                    *)

DemanderRun(p) ==
    /\ Etape(p, "repos")
    /\ ~ActifParmi(runs)
    /\ Aller(p, [etape |-> "creerRun"])
    /\ UNCHANGED <<jeu, runs, mesures, arrets>>

CreerRun(p) ==
    /\ Etape(p, "creerRun")
    /\ \E r \in Runs :
          /\ runs[r].etat = "absent"
          /\ runs' = [runs EXCEPT ![r].etat = "en_attente"]
          /\ Aller(p, [etape |-> "lancerRun", run |-> r])
    /\ UNCHANGED <<jeu, mesures, arrets>>

\* The task is created once the journal is written, which may fail.
LancerRun(p) ==
    /\ Etape(p, "lancerRun")
    /\ runs' = [runs EXCEPT ![requete[p].run].tache = "file"]
    /\ Aller(p, Repos)
    /\ UNCHANGED <<jeu, mesures, arrets>>

Poser(r, etat, tache) == runs' = [runs EXCEPT ![r].etat = etat, ![r].tache = tache]

\* One run at a time in the process.
EntrerRun(r) ==
    /\ runs[r].tache = "file"
    /\ \A autre \in Runs : runs[autre].tache # "redige"
    /\ Poser(r, "en_cours", "redige")
    /\ UNCHANGED <<jeu, mesures, requete, arrets>>

\* The thread ends with pairs to record, or the run fails: no passage could
\* be read, the model failed, the delay is over.
Rediger(r) ==
    /\ runs[r].tache = "redige"
    /\ Poser(r, runs[r].etat, "enregistrer")
    /\ UNCHANGED <<jeu, mesures, requete, arrets>>

RenoncerRun(r) ==
    /\ runs[r].tache = "redige"
    /\ Poser(r, runs[r].etat, "echouer")
    /\ UNCHANGED <<jeu, mesures, requete, arrets>>

\* The pairs are inserted as they are, whatever the set contains.  Bound:
\* those for which no identifier is left are not told.
EnregistrerPaires(r) ==
    /\ runs[r].tache = "enregistrer"
    /\ \E paires \in SUBSET Neuves : \E t \in [paires -> Textes] :
          jeu' = [q \in Questions |-> IF q \in paires THEN Nouvelle(t[q], "brut", FALSE, r)
                                      ELSE jeu[q]]
    /\ Poser(r, runs[r].etat, "terminer")
    /\ UNCHANGED <<mesures, requete, arrets>>

TerminerRun(r) ==
    /\ runs[r].tache \in {"terminer", "echouer"}
    /\ Poser(r, IF runs[r].tache = "terminer" THEN "termine" ELSE "erreur", "aucune")
    /\ UNCHANGED <<jeu, mesures, requete, arrets>>

\* Plausible bug, in no specification: also a run that is active.
SupprimerRun_Actif(r) ==
    /\ runs[r].etat \in Existants
    /\ Poser(r, "supprime", runs[r].tache)
    /\ jeu' = [q \in Questions |->
                 IF q \notin Presentes \/ jeu[q].run # r THEN jeu[q]
                 ELSE IF jeu[q].relecture = "valide" THEN [jeu[q] EXCEPT !.run = Rien]
                 ELSE Effacee]
    /\ UNCHANGED <<mesures, requete, arrets>>

\* Only a run that is over is deleted; the pairs that were validated stay in
\* the set, detached, in one transaction.
SupprimerRun(r) ==
    /\ runs[r].etat \in Existants \ ACTIFS
    /\ Poser(r, "supprime", runs[r].tache)
    /\ jeu' = [q \in Questions |->
                 IF q \notin Presentes \/ jeu[q].run # r THEN jeu[q]
                 ELSE IF jeu[q].relecture = "valide" THEN [jeu[q] EXCEPT !.run = Rien]
                 ELSE Effacee]
    /\ UNCHANGED <<mesures, requete, arrets>>

-----------------------------------------------------------------------------
(* A measurement.                                                          *)

\* lancer_mesure opens a session for each of its four looks at the tables: no
\* run is active, which questions, no measurement is active, the insertion.
DemanderMesure(p) ==
    /\ Etape(p, "repos")
    /\ ~ActifParmi(runs)
    /\ Aller(p, [etape |-> "rassembler"])
    /\ UNCHANGED <<jeu, runs, mesures, arrets>>

AMesurer(validees) ==
    {q \in Presentes : IF validees THEN jeu[q].relecture = "valide"
                       ELSE jeu[q].relecture # "rejete"}

\* Nothing to measure, or a measurement active: the request is refused.
Rassembler(p, validees) ==
    /\ Etape(p, "rassembler")
    /\ LET choisies == AMesurer(validees)
           liste == [q \in Questions |-> IF q \in choisies THEN jeu[q].texte ELSE Rien]
       IN  Aller(p, IF choisies = {} THEN Repos
                    ELSE [etape |-> "verifierMesure", liste |-> liste])
    /\ UNCHANGED <<jeu, runs, mesures, arrets>>

VerifierMesure(p) ==
    /\ Etape(p, "verifierMesure")
    /\ Aller(p, IF ActifParmi(mesures) THEN Repos
                ELSE [etape |-> "creerMesure", liste |-> requete[p].liste])
    /\ UNCHANGED <<jeu, runs, mesures, arrets>>

CreerMesure(p) ==
    /\ Etape(p, "creerMesure")
    /\ \E m \in Mesures :
          /\ mesures[m].etat = "absent"
          /\ mesures' = [mesures EXCEPT ![m].etat = "en_attente",
                                        ![m].liste = requete[p].liste]
          /\ Aller(p, [etape |-> "lancerMesure", mesure |-> m])
    /\ UNCHANGED <<jeu, runs, arrets>>

LancerMesure(p) ==
    /\ Etape(p, "lancerMesure")
    /\ mesures' = [mesures EXCEPT ![requete[p].mesure].tache = "file"]
    /\ Aller(p, Repos)
    /\ UNCHANGED <<jeu, runs, arrets>>

Lancees(m) == {q \in Questions : mesures[m].liste[q] # Rien}
Finies(m) == {q \in Questions : mesures[m].reponse[q] = "fini"}

\* One measurement at a time in the process; it is over at once when OpenRAG
\* does not answer.  Otherwise a coroutine is born for each question.
EntrerMesure(m, joignable) ==
    /\ mesures[m].tache = "file"
    /\ \A autre \in Mesures : mesures[autre].tache # "interroge"
    /\ mesures' = [mesures EXCEPT ![m] =
          [@ EXCEPT !.etat = "en_cours", !.erreur = ~joignable,
                    !.tache = IF joignable THEN "interroge" ELSE "conclure",
                    !.reponse = [q \in Questions |->
                        IF joignable /\ q \in Lancees(m) THEN "attend" ELSE "aucune"]]]
    /\ UNCHANGED <<jeu, runs, requete, arrets>>

Avancer(m, q, de, vers) ==
    /\ mesures[m].reponse[q] = de
    /\ mesures' = [mesures EXCEPT ![m].reponse[q] = vers]

\* The question is asked and its answer judged; an exception is a verdict.
Evaluer(m, q) ==
    /\ \E vers \in {"ranger", "rangerErreur"} : Avancer(m, q, "attend", vers)
    /\ UNCHANGED <<jeu, runs, requete, arrets>>

\* The result is committed, then the verdict on the question, which may have
\* changed or gone; only then is the question counted.
Ranger(m, q) ==
    /\ mesures[m].reponse[q] \in {"ranger", "rangerErreur"}
    /\ LET juge == mesures[m].reponse[q] = "ranger"
       IN  mesures' = [mesures EXCEPT
              ![m].resultats[q] = IF juge THEN "juge" ELSE "erreur",
              ![m].reponse[q]   = IF juge THEN "noter" ELSE "fini"]
    /\ UNCHANGED <<jeu, runs, requete, arrets>>

\* Plausible bug, in no specification: the verdict is noted before the result is committed.
NoterVerdict_Avant(m, q) ==
    /\ mesures[m].reponse[q] \in {"ranger", "noter"}
    /\ mesures' = [mesures EXCEPT ![m].reponse[q] =
                     IF @ = "ranger" THEN "rangerErreur" ELSE "fini"]
    /\ jeu' = IF q \in Presentes
              THEN [jeu EXCEPT ![q].verdict = mesures[m].liste[q], ![q].mesure = m]
              ELSE jeu
    /\ UNCHANGED <<runs, requete, arrets>>

NoterVerdict(m, q) ==
    /\ Avancer(m, q, "noter", "fini")
    /\ jeu' = IF q \in Presentes
              THEN [jeu EXCEPT ![q].verdict = mesures[m].liste[q], ![q].mesure = m]
              ELSE jeu
    /\ UNCHANGED <<runs, requete, arrets>>

\* The row follows the count, every few seconds.
SuivreMesure(m) ==
    /\ mesures[m].tache = "interroge"
    /\ mesures' = [mesures EXCEPT ![m].traitees = Cardinality(Finies(m))]
    /\ UNCHANGED <<jeu, runs, requete, arrets>>

\* Every question is answered.
Reunir(m) ==
    /\ mesures[m].tache = "interroge" /\ Finies(m) = Lancees(m)
    /\ mesures' = [mesures EXCEPT ![m].tache = "conclure"]
    /\ UNCHANGED <<jeu, runs, requete, arrets>>

\* The delay is over: the coroutines of the questions are cancelled.
Depasser(m) ==
    /\ mesures[m].tache = "interroge"
    /\ mesures' = [mesures EXCEPT ![m] =
          [@ EXCEPT !.tache = "conclure", !.erreur = TRUE,
                    !.reponse = [q \in Questions |->
                        IF mesures[m].reponse[q] = "fini" THEN "fini" ELSE "aucune"]]]
    /\ UNCHANGED <<jeu, runs, requete, arrets>>

\* Plausible bug, in no specification: the error of the delay is forgotten.
Conclure_SansErreur(m) ==
    /\ mesures[m].tache = "conclure"
    /\ mesures' = [mesures EXCEPT ![m] =
              [@ EXCEPT !.tache = "aucune", !.traitees = Cardinality(Finies(m)),
                        !.etat = IF \A q \in Finies(m) : mesures[m].resultats[q] = "erreur"
                                 THEN "erreur" ELSE "termine"]]
    /\ UNCHANGED <<jeu, runs, requete, arrets>>

\* A measurement whose every question is in error is one.
Conclure(m) ==
    /\ mesures[m].tache = "conclure"
    /\ LET rate == \/ mesures[m].erreur
                   \/ \A q \in Finies(m) : mesures[m].resultats[q] = "erreur"
       IN  mesures' = [mesures EXCEPT ![m] =
              [@ EXCEPT !.tache = "aucune", !.traitees = Cardinality(Finies(m)),
                        !.etat = IF rate THEN "erreur" ELSE "termine"]]
    /\ UNCHANGED <<jeu, runs, requete, arrets>>

SupprimerMesure(m) ==
    /\ mesures[m].etat \in Existants \ ACTIFS
    /\ mesures' = [mesures EXCEPT ![m].etat = "supprime",
                                  ![m].resultats = [q \in Questions |-> "aucun"]]
    /\ UNCHANGED <<jeu, runs, requete, arrets>>

-----------------------------------------------------------------------------
(* Refused commits, stops.                                                 *)

\* A request fails at any of its commits, the one of the journal included: a
\* row created just before stays active, without a task.
EchouerRequete(p) ==
    /\ Pannes /\ requete[p] # Repos
    /\ Aller(p, Repos)
    /\ UNCHANGED <<jeu, runs, mesures, arrets>>

\* A run whose commit is refused is recorded as failed, which is the only
\* commit after which nothing is tried.
EchouerRun(r) ==
    /\ Pannes /\ runs[r].tache \in {"file", "enregistrer", "terminer", "echouer"}
    /\ Poser(r, runs[r].etat, IF runs[r].tache = "echouer" THEN "aucune" ELSE "echouer")
    /\ UNCHANGED <<jeu, mesures, requete, arrets>>

EchouerMesure(m) ==
    /\ Pannes /\ mesures[m].tache \in {"file", "conclure"}
    /\ mesures' = [mesures EXCEPT
          ![m].tache  = IF @ = "file" THEN "conclure" ELSE "aucune",
          ![m].erreur = TRUE]
    /\ UNCHANGED <<jeu, runs, requete, arrets>>

\* asyncio.gather returns at the first refusal and cancels nothing: the other
\* coroutines live on after the end of the measurement.
EchouerQuestion(m, q) ==
    /\ Pannes /\ mesures[m].reponse[q] \in {"ranger", "rangerErreur", "noter"}
    /\ LET enCours == mesures[m].tache = "interroge"
       IN  mesures' = [mesures EXCEPT
              ![m].reponse[q] = "aucune",
              ![m].erreur     = @ \/ enCours,
              ![m].tache      = IF enCours THEN "conclure" ELSE @]
    /\ UNCHANGED <<jeu, runs, requete, arrets>>

\* Plausible bug, in no specification: only what was in progress is marked.
Arreter_SansAttente ==
    /\ arrets < MaxArrets
    /\ arrets' = arrets + 1
    /\ requete' = [p \in Requetes |-> Repos]
    /\ LET Interrompu(etat) == IF etat = "en_cours" THEN "erreur" ELSE etat
       IN  /\ runs' = [r \in Runs |-> [etat |-> Interrompu(runs[r].etat), tache |-> "aucune"]]
           /\ mesures' = [m \in Mesures |->
                 [mesures[m] EXCEPT !.etat = Interrompu(@), !.tache = "aucune",
                                    !.reponse = [q \in Questions |-> "aucune"]]]
    /\ UNCHANGED jeu

\* The process stops; the next one marks what was active as interrupted
\* before it answers anything.
Arreter ==
    /\ arrets < MaxArrets
    /\ arrets' = arrets + 1
    /\ requete' = [p \in Requetes |-> Repos]
    /\ LET Interrompu(etat) == IF etat \in ACTIFS THEN "erreur" ELSE etat
       IN  /\ runs' = [r \in Runs |-> [etat |-> Interrompu(runs[r].etat), tache |-> "aucune"]]
           /\ mesures' = [m \in Mesures |->
                 [mesures[m] EXCEPT !.etat = Interrompu(@), !.tache = "aucune",
                                    !.reponse = [q \in Questions |-> "aucune"]]]
    /\ UNCHANGED jeu

-----------------------------------------------------------------------------
Editer(p) == \/ \E t \in Textes, r \in RELECTURES_PAIRE, h \in BOOLEAN : CreerLire(p, t, r, h)
             \/ \E q \in Questions, c \in Corps : ModifierLire(p, q, c)

Demander(p) == Editer(p) \/ DemanderRun(p) \/ DemanderMesure(p)

Continuer(p) == \/ CreerEcrire(p) \/ ModifierEcrire(p) \/ CreerRun(p) \/ LancerRun(p)
                \/ \E validees \in BOOLEAN : Rassembler(p, validees)
                \/ VerifierMesure(p) \/ CreerMesure(p) \/ LancerMesure(p)

Generer(r) == EntrerRun(r) \/ EnregistrerPaires(r) \/ TerminerRun(r)

Mesurer(m) == \/ \E joignable \in BOOLEAN : EntrerMesure(m, joignable)
              \/ Reunir(m) \/ Conclure(m)

Questionner(m, q) == Ranger(m, q) \/ NoterVerdict(m, q)

Supprimer == \/ \E q \in Questions : SupprimerQuestion(q)
             \/ \E r \in Runs : SupprimerRun(r)
             \/ \E m \in Mesures : SupprimerMesure(m)

Marche == \/ \E p \in Requetes : Demander(p) \/ Continuer(p)
          \/ \E r \in Runs : Generer(r) \/ Rediger(r) \/ RenoncerRun(r)
          \/ \E m \in Mesures : \/ Mesurer(m) \/ SuivreMesure(m) \/ Depasser(m)
                                \/ \E q \in Questions : Evaluer(m, q) \/ Questionner(m, q)
          \/ Supprimer
          \/ Arreter

Panne == \/ \E p \in Requetes : EchouerRequete(p)
         \/ \E r \in Runs : EchouerRun(r)
         \/ \E m \in Mesures : EchouerMesure(m) \/ \E q \in Questions : EchouerQuestion(m, q)

Next == Marche \/ Panne

Spec == Init /\ [][Next]_vars

\* The event loop runs every coroutine that is ready.  A model or OpenRAG may
\* never answer: only the delay of a run and of a measurement is sure to end.
Fairness ==
    /\ \A p \in Requetes : WF_vars(Continuer(p))
    /\ \A r \in Runs : WF_vars(Generer(r)) /\ WF_vars(RenoncerRun(r))
    /\ \A m \in Mesures : WF_vars(Mesurer(m)) /\ WF_vars(Depasser(m))

-----------------------------------------------------------------------------
\* The rows, the tasks and the requests keep their shapes.
TypeOK == /\ jeu \in [Questions -> Question \cup {Rien, Effacee}]
          /\ runs \in [Runs -> Run]
          /\ mesures \in [Mesures -> Mesure]
          /\ arrets \in 0 .. MaxArrets

\* execution.executer, "le verdict range, la synthese ecrite": whatever was
\* cancelled, refused or stopped, a measurement never counts a question whose
\* result is not kept, and one that says it is over asked every question.
MesureEntiere ==
    \A m \in Mesures : mesures[m].etat \in Existants =>
        LET rangees == {q \in Questions : mesures[m].resultats[q] # "aucun"}
        IN  /\ rangees \subseteq Lancees(m)
            /\ mesures[m].traitees <= Cardinality(rangees)
            /\ mesures[m].etat = "termine" => /\ rangees = Lancees(m)
                                              /\ mesures[m].traitees = Cardinality(rangees)

\* routers/qualite.lire, "avec son dernier resultat": the verdict shown on a
\* question can be opened - the measurement it comes from keeps the answer
\* that was judged, unless it was deleted as a whole.
VerdictJustifie ==
    \A q \in Presentes : jeu[q].verdict # Rien =>
        /\ jeu[q].mesure # Rien
        /\ \/ mesures[jeu[q].mesure].etat = "supprime"
           \/ mesures[jeu[q].mesure].resultats[q] = "juge"

\* models.db.PaireQA.run_id: a question is attached to a run that exists; the
\* deletion of the run leaves none behind, nor does a run write its pairs
\* after it.
PairesRattachees ==
    \A q \in Presentes : jeu[q].run # Rien => runs[jeu[q].run].etat \in Existants

\* questions_store: "fiable exige une question validee et pas hors sujet ;
\* rejeter une question lui retire fiable".  Lost when two modifications of
\* the same question overlap, for each writes its own columns.
FiableValidee ==
    \A q \in Presentes : jeu[q].fiable => jeu[q].relecture = "valide" /\ ~jeu[q].horsSujet

\* questions_store: "modifier la question ou la reponse efface le dernier
\* verdict : la mesure ne vaut plus".
VerdictDuTexte ==
    \A q \in Presentes : jeu[q].verdict \in {Rien, jeu[q].texte}
=============================================================================
