--------------------------- MODULE Qualite_proofs ---------------------------
(***************************************************************************)
(* What the tables of a collection's quality say, whatever is refused,     *)
(* cancelled or stopped: a measurement that is over kept every answer, a   *)
(* verdict can be opened, no pair outlives its run.                        *)
(*                                                                         *)
(* None is inductive: each depends on where the tasks are.  Entiere and    *)
(* Tenu say it of a measurement and of a run alone, Prevoyante of what a   *)
(* request will write, and Lancables of what it will launch.               *)
(*                                                                         *)
(* Then, as long as requests follow one another (`serie` of MCQualite, and *)
(* none of its bounds): a question said reliable was validated and is on   *)
(* the subject.  Fiables says it of the rows and of what the modification  *)
(* in flight will write, whatever tasks write the same row meanwhile.      *)
(***************************************************************************)
EXTENDS MCQualite, FiniteSetTheorems, TLAPS

Posees(v) == {q \in Questions : v.liste[q] # Rien}
Rangees(v) == {q \in Questions : v.resultats[q] # "aucun"}
Repondues(v) == {q \in Questions : v.reponse[q] = "fini"}

\* Nothing has been asked yet.
Vierge(v) == /\ v.traitees = 0
             /\ \A q \in Questions : v.resultats[q] = "aucun" /\ v.reponse[q] = "aucune"

\* Where the task of a measurement is tells its state, and what is left to do.
Deroulee(v) ==
    /\ v.etat = "absent" => Vierge(v)
    /\ v.etat \in {"absent", "termine", "erreur", "supprime"} => v.tache = "aucune"
    /\ v.tache = "file" => Vierge(v) /\ v.etat = "en_attente"
    /\ v.tache = "interroge" =>
          ~v.erreur /\ \A q \in Questions : v.liste[q] # Rien => v.reponse[q] # "aucune"
    /\ v.tache = "conclure" =>
          v.erreur \/ \A q \in Questions : v.liste[q] # Rien => v.reponse[q] = "fini"
    /\ v.etat = "termine" => \A q \in Questions : v.reponse[q] \in {"aucune", "fini"}

\* How far each question is tells what is kept of it.
Tracee(v) ==
    \A q \in Questions :
        /\ v.reponse[q] # "aucune" \/ v.resultats[q] # "aucun" => v.liste[q] # Rien
        /\ v.etat # "supprime" =>
              /\ v.reponse[q] \in {"attend", "ranger", "rangerErreur"} => v.resultats[q] = "aucun"
              /\ v.reponse[q] = "noter" => v.resultats[q] = "juge"
              /\ v.reponse[q] = "fini" => v.resultats[q] # "aucun"

Comptee(v) ==
    /\ v.etat # "supprime" => v.traitees <= Cardinality(Rangees(v))
    /\ v.etat = "termine" => Rangees(v) = Posees(v) /\ v.traitees = Cardinality(Rangees(v))

Entiere(v) == Deroulee(v) /\ Tracee(v) /\ Comptee(v)

\* A run that has a task is active.
Tenu(v) == v.tache # "aucune" => v.etat \in ACTIFS

\* What a request in flight holds, and what its next commit may write: no
\* verdict but the one it read, no run and no measurement of its own.
Prevoyante(r) ==
    \/ r = Repos
    \/ r = [etape |-> "creerRun"]
    \/ r = [etape |-> "rassembler"]
    \/ /\ r \in [etape : {"creer"}, voulu : Question]
       /\ r.voulu.verdict = Rien /\ r.voulu.run = Rien
    \/ /\ r \in [etape : {"modifier"}, question : Questions, lu : Question, voulu : Question]
       /\ r.voulu.run = r.lu.run /\ r.voulu.mesure = r.lu.mesure
       /\ r.voulu.verdict \in {Rien, r.lu.verdict}
    \/ r \in [etape : {"lancerRun"}, run : Runs]
    \/ r \in [etape : {"verifierMesure", "creerMesure"}, liste : [Questions -> Textes \cup {Rien}]]
    \/ r \in [etape : {"lancerMesure"}, mesure : Mesures]

Prevoyantes == DOMAIN requete = Requetes /\ \A p \in Requetes : Prevoyante(requete[p])

\* A row that is created and not yet launched.
RunNeuf(v) == v.etat = "en_attente" /\ v.tache = "aucune"
MesureNeuve(v) == v.etat = "en_attente" /\ v.tache = "aucune" /\ Vierge(v)

\* What a request is about to launch is new, and no other launches it.
Lancables ==
    \A p \in Requetes :
        /\ Etape(p, "lancerRun") =>
              /\ RunNeuf(runs[requete[p].run])
              /\ \A q \in Requetes \ {p} :
                    Etape(q, "lancerRun") => requete[q].run # requete[p].run
        /\ Etape(p, "lancerMesure") =>
              /\ MesureNeuve(mesures[requete[p].mesure])
              /\ \A q \in Requetes \ {p} :
                    Etape(q, "lancerMesure") => requete[q].mesure # requete[p].mesure

\* Question q, as row l says it, has its run and the answer it was judged on.
Fondee(q, l) ==
    /\ l.run # Rien => runs[l.run].etat \in Existants
    /\ l.verdict # Rien =>
          /\ l.mesure # Rien
          /\ \/ mesures[l.mesure].etat = "supprime"
             \/ mesures[l.mesure].resultats[q] = "juge"

Inv == /\ TypeOK
       /\ Prevoyantes
       /\ Lancables
       /\ \A m \in Mesures : Entiere(mesures[m])
       /\ \A r \in Runs : Tenu(runs[r])
       /\ \A q \in Presentes : Fondee(q, jeu[q])

-----------------------------------------------------------------------------
LEMMA PresentesType ==
    ASSUME TypeOK, NEW q \in Presentes
    PROVE  jeu[q] \in Question /\ q \in Questions
BY DEF TypeOK, Presentes

\* A step that changes a request alone, which does not come to launch.
LEMMA RequeteGarde ==
    ASSUME Inv, NEW p \in Requetes, NEW r, Prevoyante(r),
           r.etape \notin {"lancerRun", "lancerMesure"}, Aller(p, r),
           UNCHANGED <<jeu, runs, mesures, arrets>>
    PROVE  Inv'
<1>1. /\ DOMAIN requete' = Requetes /\ requete'[p] = r
      /\ \A q \in Requetes \ {p} : requete'[q] = requete[q]
  BY DEF Inv, Prevoyantes, Aller
<1>2. Prevoyantes'
  BY <1>1 DEF Inv, Prevoyantes
<1>3. Lancables'
  BY <1>1 DEF Inv, Lancables, Etape
<1>4. TypeOK'
  BY DEF Inv, TypeOK
<1>5. \A q \in Presentes' : Fondee(q, jeu[q])'
  BY DEF Inv, Presentes, Fondee
<1> QED
  BY <1>2, <1>3, <1>4, <1>5 DEF Inv

\* A step of a measurement that no request is about to launch, which loses no
\* judged answer unless the measurement is deleted.
LEMMA MesureGarde ==
    ASSUME Inv, NEW m \in Mesures, NEW v \in Mesure, Entiere(v),
           mesures' = [mesures EXCEPT ![m] = v],
           ~MesureNeuve(mesures[m]),
           \/ v.etat = "supprime"
           \/ /\ mesures[m].etat # "supprime"
              /\ \A q \in Questions : mesures[m].resultats[q] = "juge" => v.resultats[q] = "juge",
           UNCHANGED <<jeu, runs, requete, arrets>>
    PROVE  Inv'
<1>1. /\ mesures' \in [Mesures -> Mesure] /\ mesures'[m] = v
      /\ \A n \in Mesures \ {m} : mesures'[n] = mesures[n]
  BY DEF Inv, TypeOK
<1>2. TypeOK'
  BY <1>1 DEF Inv, TypeOK
<1>3. Lancables'
  <2>1. ASSUME NEW p \in Requetes, Etape(p, "lancerMesure")
        PROVE  requete[p].mesure \in Mesures \ {m}
    BY <2>1 DEF Inv, Prevoyantes, Prevoyante, Lancables, Etape, Repos
  <2> QED
    BY <1>1, <2>1 DEF Inv, Lancables, Etape
<1>4. \A n \in Mesures : Entiere(mesures'[n])
  BY <1>1 DEF Inv
<1>5. \A q \in Presentes' : Fondee(q, jeu[q])'
  <2> SUFFICES ASSUME NEW q \in Presentes PROVE Fondee(q, jeu[q])'
    BY DEF Presentes
  <2>1. jeu[q] \in Question /\ q \in Questions /\ Fondee(q, jeu[q])
    BY PresentesType DEF Inv
  <2>2. jeu[q].mesure # Rien => jeu[q].mesure \in Mesures
    BY <2>1 DEF Question
  <2>3. CASE jeu[q].mesure = m
    BY <1>1, <2>1, <2>2, <2>3 DEF Fondee
  <2>4. CASE jeu[q].mesure # m
    BY <1>1, <2>1, <2>2, <2>4 DEF Fondee
  <2> QED
    BY <2>3, <2>4
<1>6. Prevoyantes'
  BY DEF Inv, Prevoyantes
<1> QED
  BY <1>2, <1>3, <1>4, <1>5, <1>6 DEF Inv, Entiere, Deroulee, Tracee, Comptee, Vierge, Posees, Rangees

\* A step of a run that no request is about to launch.
LEMMA RunGarde ==
    ASSUME Inv, NEW r \in Runs, NEW v \in Run, Tenu(v),
           runs' = [runs EXCEPT ![r] = v],
           ~RunNeuf(runs[r]),
           v.etat \in Existants,
           UNCHANGED <<jeu, mesures, requete, arrets>>
    PROVE  Inv'
<1>1. /\ runs' \in [Runs -> Run] /\ runs'[r] = v
      /\ \A s \in Runs \ {r} : runs'[s] = runs[s]
  BY DEF Inv, TypeOK
<1>2. TypeOK'
  BY <1>1 DEF Inv, TypeOK
<1>3. Lancables'
  <2>1. ASSUME NEW p \in Requetes, Etape(p, "lancerRun")
        PROVE  requete[p].run \in Runs \ {r}
    BY <2>1 DEF Inv, Prevoyantes, Prevoyante, Lancables, Etape, Repos
  <2> QED
    BY <1>1, <2>1 DEF Inv, Lancables, Etape, MesureNeuve, Vierge
<1>4. \A s \in Runs : Tenu(runs'[s])
  BY <1>1 DEF Inv
<1>5. \A q \in Presentes' : Fondee(q, jeu[q])'
  <2> SUFFICES ASSUME NEW q \in Presentes PROVE Fondee(q, jeu[q])'
    BY DEF Presentes
  <2>1. jeu[q] \in Question /\ Fondee(q, jeu[q])
    BY PresentesType DEF Inv
  <2>2. jeu[q].run # Rien => jeu[q].run \in Runs
    BY <2>1 DEF Question
  <2> QED
    BY <1>1, <2>1, <2>2 DEF Fondee
<1> QED
  BY <1>2, <1>3, <1>4, <1>5 DEF Inv, Prevoyantes

\* A step that rewrites questions, and may end a request.
LEMMA JeuGarde ==
    ASSUME Inv,
           jeu' \in [Questions -> Question \cup {Rien, Effacee}],
           \A q \in Questions : jeu'[q] \notin {Rien, Effacee} => Fondee(q, jeu'[q]),
           \/ UNCHANGED requete
           \/ \E p \in Requetes : Aller(p, Repos),
           UNCHANGED <<runs, mesures, arrets>>
    PROVE  Inv'
<1>1. TypeOK'
  BY DEF Inv, TypeOK
<1>2. \A q \in Presentes' : Fondee(q, jeu[q])'
  BY DEF Presentes, Fondee
<1>3. Prevoyantes' /\ Lancables'
  <2>1. CASE UNCHANGED requete
    BY <2>1 DEF Inv, Prevoyantes, Lancables, Etape
  <2>2. ASSUME NEW p \in Requetes, Aller(p, Repos)
        PROVE  Prevoyantes' /\ Lancables'
    <3>1. /\ DOMAIN requete' = Requetes /\ requete'[p] = Repos
          /\ \A q \in Requetes \ {p} : requete'[q] = requete[q]
      BY <2>2 DEF Inv, Prevoyantes, Aller
    <3> QED
      BY <3>1 DEF Inv, Prevoyantes, Prevoyante, Lancables, Etape, Repos
  <2> QED
    BY <2>1, <2>2
<1> QED
  BY <1>1, <1>2, <1>3 DEF Inv

-----------------------------------------------------------------------------
\* A modification writes neither the run nor the measurement of a question,
\* and no verdict but none.
LEMMA ModifieeGarde ==
    ASSUME NEW l \in Question, NEW c \in Corps
    PROVE  /\ Modifiee(l, c) \in Question
           /\ Modifiee(l, c).run = l.run /\ Modifiee(l, c).mesure = l.mesure
           /\ Modifiee(l, c).verdict \in {Rien, l.verdict}
<1>1. c \in [texte : Textes \cup {Rien}, relecture : RELECTURES_PAIRE \cup {Rien},
             horsSujet : BOOLEAN \cup {Rien}, fiable : BOOLEAN \cup {Rien}]
  BY CorpsAssumption
<1>2. /\ Fourni(c.texte, l.texte) \in Textes
      /\ Fourni(c.relecture, l.relecture) \in RELECTURES_PAIRE
      /\ Fourni(c.horsSujet, l.horsSujet) \in BOOLEAN
  BY <1>1 DEF Fourni, Question
<1>3. Fourni(c.fiable, l.fiable /\ ~Retire(c)) \in BOOLEAN
  BY <1>1 DEF Fourni
<1> QED
  BY <1>2, <1>3 DEF Modifiee, Question

\* The columns of three rows make a row.
LEMMA ColonnesGarde ==
    ASSUME NEW l \in Question, NEW lu \in Question, NEW v \in Question
    PROVE  /\ Colonnes(l, lu, v) \in Question
           /\ v.run = lu.run => Colonnes(l, lu, v).run = l.run
           /\ v.mesure = lu.mesure => Colonnes(l, lu, v).mesure = l.mesure
           /\ v.verdict \in {Rien, lu.verdict} => Colonnes(l, lu, v).verdict \in {Rien, l.verdict}
<1> DEFINE n == Colonnes(l, lu, v)
<1>1. DOMAIN l = {"texte", "relecture", "horsSujet", "fiable", "run", "verdict", "mesure"}
  BY DEF Question
<1>2. n = [texte |-> n.texte, relecture |-> n.relecture, horsSujet |-> n.horsSujet,
           fiable |-> n.fiable, run |-> n.run, verdict |-> n.verdict, mesure |-> n.mesure]
  BY <1>1 DEF Colonnes
<1>3. \A k \in DOMAIN l : n[k] = IF v[k] # lu[k] THEN v[k] ELSE l[k]
  BY DEF Colonnes
<1> HIDE DEF n
<1>4. \A k \in DOMAIN l : n[k] = v[k] \/ n[k] = l[k]
  BY <1>3
<1>5. /\ n.texte \in Textes /\ n.relecture \in RELECTURES_PAIRE /\ n.horsSujet \in BOOLEAN
      /\ n.fiable \in BOOLEAN /\ n.run \in Runs \cup {Rien}
      /\ n.verdict \in Textes \cup {Rien} /\ n.mesure \in Mesures \cup {Rien}
  BY <1>1, <1>4 DEF Question
<1>6. n \in Question
  BY <1>2, <1>5 DEF Question
<1>7. /\ v.run = lu.run => n.run = l.run
      /\ v.mesure = lu.mesure => n.mesure = l.mesure
      /\ v.verdict = lu.verdict => n.verdict = l.verdict
  BY <1>1, <1>3
<1>8. n.verdict \in {v.verdict, l.verdict}
  BY <1>1, <1>4
<1> QED
  BY <1>6, <1>7, <1>8 DEF n

LEMMA NouvelleType ==
    ASSUME NEW t \in Textes, NEW r \in RELECTURES_PAIRE, NEW h \in BOOLEAN,
           NEW run \in Runs \cup {Rien}
    PROVE  /\ Nouvelle(t, r, h, run) \in Question
           /\ Nouvelle(t, r, h, run).run = run /\ Nouvelle(t, r, h, run).verdict = Rien
BY DEF Nouvelle, Question

LEMMA EditionGarde ==
    ASSUME Inv, NEW p \in Requetes, Editer(p) \/ CreerEcrire(p) \/ ModifierEcrire(p)
    PROVE  Inv'
<1>1. TypeOK /\ Prevoyante(requete[p])
  BY DEF Inv, Prevoyantes
<1>2. ASSUME NEW t \in Textes, NEW r \in RELECTURES_PAIRE, NEW h \in BOOLEAN,
             CreerLire(p, t, r, h)
      PROVE  Inv'
  <2> DEFINE v == Nouvelle(t, r, h, Rien)
             d == [etape |-> "creer", voulu |-> v]
  <2>1. v \in Question /\ v.run = Rien /\ v.verdict = Rien
    BY NouvelleType
  <2> HIDE DEF v
  <2>2. Prevoyante(d) /\ d.etape = "creer"
    BY <2>1 DEF Prevoyante
  <2>3. Aller(p, d) /\ UNCHANGED <<jeu, runs, mesures, arrets>>
    BY <1>2 DEF CreerLire, v
  <2> QED
    BY <2>2, <2>3, RequeteGarde
<1>3. ASSUME NEW q \in Questions, NEW c \in Corps, ModifierLire(p, q, c)
      PROVE  Inv'
  <2> DEFINE v == Modifiee(jeu[q], c)
             d == [etape |-> "modifier", question |-> q, lu |-> jeu[q], voulu |-> v]
  <2>1. jeu[q] \in Question
    BY <1>1, <1>3, PresentesType DEF ModifierLire
  <2>2. v \in Question /\ v.run = jeu[q].run /\ v.mesure = jeu[q].mesure
        /\ v.verdict \in {Rien, jeu[q].verdict}
    BY <2>1, ModifieeGarde
  <2> HIDE DEF v
  <2>3. Prevoyante(d) /\ d.etape = "modifier"
    BY <2>1, <2>2 DEF Prevoyante
  <2>4. Aller(p, d) /\ UNCHANGED <<jeu, runs, mesures, arrets>>
    BY <1>3 DEF ModifierLire, v
  <2> QED
    BY <2>3, <2>4, RequeteGarde
<1>4. CASE CreerEcrire(p)
  <2> DEFINE v == requete[p].voulu
  <2>1. PICK q \in Neuves : jeu' = [jeu EXCEPT ![q] = v]
    BY <1>4 DEF CreerEcrire
  <2>2. v \in Question /\ v.verdict = Rien /\ v.run = Rien
    BY <1>1, <1>4 DEF CreerEcrire, Etape, Prevoyante, Repos
  <2>3. \A k \in Questions : jeu'[k] \notin {Rien, Effacee} => Fondee(k, jeu'[k])
    BY <1>1, <2>1, <2>2 DEF Inv, TypeOK, Neuves, Presentes, Fondee
  <2>4. jeu' \in [Questions -> Question \cup {Rien, Effacee}]
    BY <1>1, <2>1, <2>2 DEF TypeOK
  <2>5. Aller(p, Repos) /\ UNCHANGED <<runs, mesures, arrets>>
    BY <1>4 DEF CreerEcrire
  <2> QED
    BY <2>3, <2>4, <2>5, JeuGarde
<1>5. CASE ModifierEcrire(p)
  <2> DEFINE r == requete[p]
             q == r.question
  <2>1. /\ r.lu \in Question /\ r.voulu \in Question /\ q \in Questions
        /\ r.voulu.run = r.lu.run /\ r.voulu.mesure = r.lu.mesure
        /\ r.voulu.verdict \in {Rien, r.lu.verdict}
    BY <1>1, <1>5 DEF ModifierEcrire, Etape, Prevoyante, Repos
  <2>2. jeu' = IF q \notin Presentes THEN jeu
               ELSE [jeu EXCEPT ![q] = Colonnes(@, r.lu, r.voulu)]
    BY <1>5 DEF ModifierEcrire
  <2>3. Aller(p, Repos) /\ UNCHANGED <<runs, mesures, arrets>>
    BY <1>5 DEF ModifierEcrire
  <2>4. CASE q \notin Presentes
    BY <1>1, <2>2, <2>3, <2>4, JeuGarde DEF Inv, TypeOK, Presentes
  <2>5. CASE q \in Presentes
    <3> DEFINE n == Colonnes(jeu[q], r.lu, r.voulu)
    <3>1. jeu[q] \in Question /\ Fondee(q, jeu[q])
      BY <1>1, <2>5, PresentesType DEF Inv
    <3>2. /\ n \in Question /\ n.run = jeu[q].run /\ n.mesure = jeu[q].mesure
          /\ n.verdict \in {Rien, jeu[q].verdict}
      BY <2>1, <3>1, ColonnesGarde
    <3>3. jeu' = [jeu EXCEPT ![q] = n]
      BY <2>2, <2>5
    <3> HIDE DEF n
    <3>4. Fondee(q, n)
      BY <3>1, <3>2 DEF Fondee
    <3>5. \A k \in Questions : jeu'[k] \notin {Rien, Effacee} => Fondee(k, jeu'[k])
      BY <1>1, <2>1, <3>3, <3>4 DEF Inv, TypeOK, Presentes
    <3>6. jeu' \in [Questions -> Question \cup {Rien, Effacee}]
      BY <1>1, <2>1, <3>2, <3>3 DEF TypeOK
    <3> QED
      BY <2>3, <3>5, <3>6, JeuGarde
  <2> QED
    BY <2>4, <2>5
<1> QED
  BY <1>2, <1>3, <1>4, <1>5 DEF Editer

LEMMA SuppressionQuestionGarde ==
    ASSUME Inv, NEW q \in Questions, SupprimerQuestion(q)
    PROVE  Inv'
<1>1. jeu' = [jeu EXCEPT ![q] = Effacee]
  BY DEF SupprimerQuestion
<1>2. \A k \in Questions : jeu'[k] \notin {Rien, Effacee} => Fondee(k, jeu'[k])
  BY <1>1 DEF Inv, TypeOK, Presentes
<1>3. jeu' \in [Questions -> Question \cup {Rien, Effacee}]
  BY <1>1 DEF Inv, TypeOK
<1> QED
  BY <1>2, <1>3, JeuGarde DEF SupprimerQuestion

-----------------------------------------------------------------------------
\* The requests that launch a run, until it has its task.
LEMMA DemandeRunGarde ==
    ASSUME Inv, NEW p \in Requetes, DemanderRun(p) \/ CreerRun(p) \/ LancerRun(p)
    PROVE  Inv'
<1>1. TypeOK /\ Prevoyante(requete[p]) /\ Lancables /\ DOMAIN requete = Requetes
  BY DEF Inv, Prevoyantes
<1>2. CASE DemanderRun(p)
  <2> DEFINE d == [etape |-> "creerRun"]
  <2>1. Prevoyante(d) /\ d.etape = "creerRun"
    BY DEF Prevoyante
  <2> QED
    BY <1>2, <2>1, RequeteGarde DEF DemanderRun
<1>3. CASE CreerRun(p)
  <2>1. PICK r \in Runs : /\ runs[r].etat = "absent"
                          /\ runs' = [runs EXCEPT ![r].etat = "en_attente"]
                          /\ Aller(p, [etape |-> "lancerRun", run |-> r])
    BY <1>3 DEF CreerRun
  <2>2. UNCHANGED <<jeu, mesures, arrets>>
    BY <1>3 DEF CreerRun
  <2>3. /\ runs' \in [Runs -> Run] /\ RunNeuf(runs'[r])
        /\ \A s \in Runs \ {r} : runs'[s] = runs[s]
    BY <1>1, <2>1 DEF Inv, TypeOK, Run, Tenu, ACTIFS, RunNeuf, Etats, Existants
  <2>4. /\ requete'[p] = [etape |-> "lancerRun", run |-> r]
        /\ DOMAIN requete' = Requetes
        /\ \A q \in Requetes \ {p} : requete'[q] = requete[q]
    BY <1>1, <2>1 DEF Aller
  <2>5. Prevoyantes'
    BY <2>4 DEF Inv, Prevoyantes, Prevoyante
  <2>6. ASSUME NEW q \in Requetes \ {p}, Etape(q, "lancerRun")
        PROVE  requete[q].run \in Runs \ {r} /\ RunNeuf(runs[requete[q].run])
    BY <1>1, <2>1, <2>6 DEF Inv, Prevoyantes, Prevoyante, Repos, Lancables, Etape, RunNeuf
  <2>7. Lancables'
    BY <1>1, <2>2, <2>3, <2>4, <2>6 DEF Lancables, Etape, MesureNeuve, Vierge
  <2>8. \A s \in Runs : Tenu(runs'[s])
    BY <2>3 DEF Inv, Tenu, RunNeuf
  <2>9. \A q \in Presentes' : Fondee(q, jeu[q])'
    <3> SUFFICES ASSUME NEW q \in Presentes PROVE Fondee(q, jeu[q])'
      BY <2>2 DEF Presentes
    <3>1. jeu[q] \in Question /\ Fondee(q, jeu[q])
      BY <1>1, PresentesType DEF Inv
    <3>2. jeu[q].run # Rien => jeu[q].run \in Runs
      BY <3>1 DEF Question
    <3> QED
      BY <2>1, <2>2, <2>3, <3>1, <3>2 DEF Fondee, Existants, ACTIFS
  <2>10. TypeOK'
    BY <1>1, <2>2, <2>3 DEF TypeOK
  <2> QED
    BY <2>2, <2>5, <2>7, <2>8, <2>9, <2>10 DEF Inv
<1>4. CASE LancerRun(p)
  <2> DEFINE r == requete[p].run
             v == [runs[r] EXCEPT !.tache = "file"]
  <2>1. /\ r \in Runs /\ RunNeuf(runs[r]) /\ runs[r] \in Run
        /\ \A q \in Requetes \ {p} : Etape(q, "lancerRun") => requete[q].run # r
    BY <1>1, <1>4 DEF LancerRun, Etape, Prevoyante, Repos, Lancables, TypeOK
  <2>2. /\ runs' = [runs EXCEPT ![r] = v] /\ Aller(p, Repos)
        /\ UNCHANGED <<jeu, mesures, arrets>>
    BY <1>4 DEF LancerRun
  <2>3. v \in Run /\ v.etat = "en_attente" /\ Tenu(v)
    BY <2>1 DEF Run, RunNeuf, Tenu, ACTIFS
  <2> HIDE DEF v, r
  <2>4. /\ runs' \in [Runs -> Run] /\ runs'[r] = v
        /\ \A s \in Runs \ {r} : runs'[s] = runs[s]
    BY <1>1, <2>1, <2>2, <2>3 DEF TypeOK
  <2>5. /\ requete'[p] = Repos /\ DOMAIN requete' = Requetes
        /\ \A q \in Requetes \ {p} : requete'[q] = requete[q]
    BY <1>1, <2>2 DEF Aller
  <2>6. Prevoyantes'
    BY <2>5 DEF Inv, Prevoyantes, Prevoyante
  <2>7. ASSUME NEW q \in Requetes \ {p}, Etape(q, "lancerRun")
        PROVE  requete[q].run \in Runs \ {r} /\ RunNeuf(runs[requete[q].run])
    BY <2>1, <2>7 DEF Inv, Prevoyantes, Prevoyante, Repos, Lancables, Etape
  <2>8. Lancables'
    BY <1>1, <2>2, <2>4, <2>5, <2>7 DEF Lancables, Etape, MesureNeuve, Vierge, Repos
  <2>9. \A s \in Runs : Tenu(runs'[s])
    BY <2>3, <2>4 DEF Inv
  <2>10. \A q \in Presentes' : Fondee(q, jeu[q])'
    <3> SUFFICES ASSUME NEW q \in Presentes PROVE Fondee(q, jeu[q])'
      BY <2>2 DEF Presentes
    <3>1. jeu[q] \in Question /\ Fondee(q, jeu[q])
      BY <1>1, PresentesType DEF Inv
    <3>2. jeu[q].run # Rien => jeu[q].run \in Runs
      BY <3>1 DEF Question
    <3> QED
      BY <2>2, <2>3, <2>4, <3>1, <3>2 DEF Fondee, Existants, ACTIFS
  <2>11. TypeOK'
    BY <1>1, <2>2, <2>4 DEF TypeOK
  <2> QED
    BY <2>2, <2>6, <2>8, <2>9, <2>10, <2>11 DEF Inv
<1> QED
  BY <1>2, <1>3, <1>4

\* A run that moves to a state of a run that has a task, or ends.
LEMMA PoserGarde ==
    ASSUME Inv, NEW r \in Runs, NEW etat \in Existants,
           NEW tache \in {"aucune", "redige", "enregistrer", "terminer", "echouer"},
           Poser(r, etat, tache),
           etat \in ACTIFS \/ tache = "aucune",
           runs[r].tache # "aucune",
           UNCHANGED <<jeu, mesures, requete, arrets>>
    PROVE  Inv'
<1>1. runs[r] \in Run
  BY DEF Inv, TypeOK
<1> DEFINE v == [runs[r] EXCEPT !.etat = etat, !.tache = tache]
<1>2. v \in Run /\ v.etat = etat /\ v.tache = tache
  BY <1>1 DEF Run, Etats
<1>3. runs' = [runs EXCEPT ![r] = v]
  BY <1>1 DEF Poser, Run
<1>4. ~RunNeuf(runs[r])
  BY DEF RunNeuf
<1> HIDE DEF v
<1>5. Tenu(v)
  BY <1>2 DEF Tenu
<1> QED
  BY <1>2, <1>3, <1>4, <1>5, RunGarde

\* The task of a run.
LEMMA RunEtapeGarde ==
    ASSUME Inv, NEW r \in Runs,
           \/ EntrerRun(r) \/ Rediger(r) \/ RenoncerRun(r) \/ TerminerRun(r) \/ EchouerRun(r)
    PROVE  Inv'
<1>1. runs[r].tache # "aucune" /\ UNCHANGED <<jeu, mesures, requete, arrets>>
  BY DEF EntrerRun, Rediger, RenoncerRun, TerminerRun, EchouerRun
<1>2. runs[r].etat \in ACTIFS
  BY <1>1 DEF Inv, Tenu
<1>3. ACTIFS \subseteq Existants /\ {"termine", "erreur"} \subseteq Existants
  BY DEF Existants
<1>4. CASE EntrerRun(r)
  BY <1>1, <1>3, <1>4, PoserGarde DEF EntrerRun, ACTIFS
<1>5. CASE Rediger(r)
  BY <1>1, <1>2, <1>3, <1>5, PoserGarde DEF Rediger
<1>6. CASE RenoncerRun(r)
  BY <1>1, <1>2, <1>3, <1>6, PoserGarde DEF RenoncerRun
<1>7. CASE TerminerRun(r)
  BY <1>1, <1>3, <1>7, PoserGarde DEF TerminerRun
<1>8. CASE EchouerRun(r)
  BY <1>1, <1>2, <1>3, <1>8, PoserGarde DEF EchouerRun
<1> QED
  BY <1>4, <1>5, <1>6, <1>7, <1>8

\* A step that moves a run and rewrites questions: the two above in one.
LEMMA RunJeuGarde ==
    ASSUME Inv, NEW r \in Runs, NEW v \in Run, Tenu(v),
           runs' = [runs EXCEPT ![r] = v],
           ~RunNeuf(runs[r]),
           jeu' \in [Questions -> Question \cup {Rien, Effacee}],
           \A q \in Questions : jeu'[q] \notin {Rien, Effacee} =>
               \/ /\ q \in Presentes /\ jeu'[q].run \in {jeu[q].run, Rien}
                  /\ jeu'[q].mesure = jeu[q].mesure /\ jeu'[q].verdict = jeu[q].verdict
                  /\ jeu'[q].run # r \/ v.etat \in Existants
               \/ jeu'[q].verdict = Rien /\ jeu'[q].run = r /\ v.etat \in Existants,
           UNCHANGED <<mesures, requete, arrets>>
    PROVE  Inv'
<1>1. /\ runs' \in [Runs -> Run] /\ runs'[r] = v
      /\ \A s \in Runs \ {r} : runs'[s] = runs[s]
  BY DEF Inv, TypeOK
<1>2. TypeOK'
  BY <1>1 DEF Inv, TypeOK
<1>3. Lancables'
  <2>1. ASSUME NEW p \in Requetes, Etape(p, "lancerRun")
        PROVE  requete[p].run \in Runs \ {r}
    BY <2>1 DEF Inv, Prevoyantes, Prevoyante, Lancables, Etape, Repos
  <2> QED
    BY <1>1, <2>1 DEF Inv, Lancables, Etape, MesureNeuve, Vierge
<1>4. \A s \in Runs : Tenu(runs'[s])
  BY <1>1 DEF Inv
<1>5. ASSUME NEW q \in Presentes'
      PROVE  Fondee(q, jeu[q])'
  <2>1. q \in Questions /\ jeu'[q] \notin {Rien, Effacee}
    BY DEF Presentes
  <2>2. CASE /\ q \in Presentes /\ jeu'[q].run \in {jeu[q].run, Rien}
             /\ jeu'[q].mesure = jeu[q].mesure /\ jeu'[q].verdict = jeu[q].verdict
             /\ jeu'[q].run # r \/ v.etat \in Existants
    <3>1. jeu[q] \in Question /\ Fondee(q, jeu[q])
      BY <2>2, PresentesType DEF Inv
    <3>2. jeu[q].run # Rien => jeu[q].run \in Runs
      BY <3>1 DEF Question
    <3> QED
      BY <1>1, <2>2, <3>1, <3>2 DEF Fondee
  <2>3. CASE jeu'[q].verdict = Rien /\ jeu'[q].run = r /\ v.etat \in Existants
    BY <1>1, <2>3 DEF Fondee
  <2> QED
    BY <2>1, <2>2, <2>3
<1> QED
  BY <1>2, <1>3, <1>4, <1>5 DEF Inv, Prevoyantes

LEMMA PairesGarde ==
    ASSUME Inv, NEW r \in Runs, EnregistrerPaires(r)
    PROVE  Inv'
<1>1. runs \in [Runs -> Run] /\ runs[r] \in Run /\ Tenu(runs[r])
      /\ jeu \in [Questions -> Question \cup {Rien, Effacee}]
  BY DEF Inv, TypeOK
<1> DEFINE v == [runs[r] EXCEPT !.tache = "terminer"]
<1>2. runs[r].etat \in ACTIFS /\ ~RunNeuf(runs[r])
      /\ UNCHANGED <<mesures, requete, arrets>>
  BY <1>1 DEF EnregistrerPaires, Tenu, RunNeuf
<1>3. v \in Run /\ Tenu(v) /\ v.etat \in Existants
  BY <1>1, <1>2 DEF Run, Tenu, Existants
<1>4. runs' = [runs EXCEPT ![r] = v]
  BY <1>1 DEF EnregistrerPaires, Poser, Run
<1>5a. PICK paires \in SUBSET Neuves : \E t \in [paires -> Textes] :
         jeu' = [q \in Questions |-> IF q \in paires THEN Nouvelle(t[q], "brut", FALSE, r)
                                     ELSE jeu[q]]
  BY DEF EnregistrerPaires
<1>5. PICK t \in [paires -> Textes] :
         jeu' = [q \in Questions |-> IF q \in paires THEN Nouvelle(t[q], "brut", FALSE, r)
                                     ELSE jeu[q]]
  BY <1>5a
<1>6. ASSUME NEW q \in paires
      PROVE  /\ jeu'[q] \in Question /\ jeu'[q].verdict = Rien /\ jeu'[q].run = r
  <2>1. q \in Questions /\ t[q] \in Textes /\ jeu'[q] = Nouvelle(t[q], "brut", FALSE, r)
    BY <1>5 DEF Neuves
  <2> QED
    BY <2>1 DEF Nouvelle, Question, RELECTURES_PAIRE
<1>7. \A q \in Questions \ paires : jeu'[q] = jeu[q]
  BY <1>5
<1>8. jeu' \in [Questions -> Question \cup {Rien, Effacee}]
  BY <1>1, <1>5, <1>6, <1>7
<1> HIDE DEF v
<1>9. \A q \in Questions : jeu'[q] \notin {Rien, Effacee} =>
        \/ /\ q \in Presentes /\ jeu'[q].run \in {jeu[q].run, Rien}
           /\ jeu'[q].mesure = jeu[q].mesure /\ jeu'[q].verdict = jeu[q].verdict
           /\ jeu'[q].run # r \/ v.etat \in Existants
        \/ jeu'[q].verdict = Rien /\ jeu'[q].run = r /\ v.etat \in Existants
  BY <1>3, <1>6, <1>7 DEF Presentes
<1> QED
  BY <1>2, <1>3, <1>4, <1>8, <1>9, RunJeuGarde

LEMMA SuppressionRunGarde ==
    ASSUME Inv, NEW r \in Runs, SupprimerRun(r)
    PROVE  Inv'
<1>1. runs \in [Runs -> Run] /\ runs[r] \in Run /\ Tenu(runs[r])
      /\ jeu \in [Questions -> Question \cup {Rien, Effacee}]
  BY DEF Inv, TypeOK
<1> DEFINE v == [runs[r] EXCEPT !.etat = "supprime"]
<1>2. /\ runs[r].tache = "aucune" /\ ~RunNeuf(runs[r])
      /\ UNCHANGED <<mesures, requete, arrets>>
  BY <1>1 DEF SupprimerRun, Tenu, RunNeuf, ACTIFS
<1>3. v \in Run /\ Tenu(v)
  BY <1>1, <1>2 DEF Run, Tenu, Etats, Existants
<1>4. runs' = [runs EXCEPT ![r] = v]
  BY <1>1 DEF SupprimerRun, Poser, Run
<1>5. jeu' = [q \in Questions |->
                IF q \notin Presentes \/ jeu[q].run # r THEN jeu[q]
                ELSE IF jeu[q].relecture = "valide" THEN [jeu[q] EXCEPT !.run = Rien]
                ELSE Effacee]
  BY DEF SupprimerRun
<1>6. ASSUME NEW q \in Questions, jeu'[q] \notin {Rien, Effacee}
      PROVE  /\ q \in Presentes /\ jeu'[q] \in Question
             /\ jeu'[q].run \in {jeu[q].run, Rien} /\ jeu'[q].run # r
             /\ jeu'[q].mesure = jeu[q].mesure /\ jeu'[q].verdict = jeu[q].verdict
  <2>1. q \in Presentes
    BY <1>5, <1>6 DEF Presentes
  <2>2. jeu[q] \in Question /\ Rien # r
    BY <1>1, <2>1, RienAssumption DEF Presentes
  <2> QED
    BY <1>5, <1>6, <2>1, <2>2 DEF Question
<1>7. jeu' \in [Questions -> Question \cup {Rien, Effacee}]
  BY <1>5, <1>6
<1> HIDE DEF v
<1>8. \A q \in Questions : jeu'[q] \notin {Rien, Effacee} =>
        \/ /\ q \in Presentes /\ jeu'[q].run \in {jeu[q].run, Rien}
           /\ jeu'[q].mesure = jeu[q].mesure /\ jeu'[q].verdict = jeu[q].verdict
           /\ jeu'[q].run # r \/ v.etat \in Existants
        \/ jeu'[q].verdict = Rien /\ jeu'[q].run = r /\ v.etat \in Existants
  BY <1>6
<1> QED
  BY <1>2, <1>3, <1>4, <1>7, <1>8, RunJeuGarde

-----------------------------------------------------------------------------
\* What a measurement keeps is finite, as are the questions it is done with.
LEMMA Finis ==
    ASSUME NEW v
    PROVE  /\ IsFiniteSet(Rangees(v)) /\ Cardinality(Rangees(v)) \in Nat
           /\ IsFiniteSet(Repondues(v)) /\ Cardinality(Repondues(v)) \in Nat
BY QuestionsAssumption, FS_Subset, FS_CardinalityType DEF Rangees, Repondues

\* The questions that are done are among those whose result is kept.
LEMMA RepondueRangee ==
    ASSUME NEW v, Tracee(v), v.etat # "supprime"
    PROVE  /\ Repondues(v) \subseteq Rangees(v)
           /\ Cardinality(Repondues(v)) <= Cardinality(Rangees(v))
           /\ Rangees(v) \subseteq Posees(v)
<1>1. Repondues(v) \subseteq Rangees(v) /\ Rangees(v) \subseteq Posees(v)
  BY DEF Tracee, Repondues, Rangees, Posees
<1> QED
  BY <1>1, Finis, FS_Subset

\* A measurement that changes neither its list nor its results, nor its count,
\* nor comes to be over, keeps its count right.
LEMMA CompteGarde ==
    ASSUME NEW w \in Mesure, NEW v \in Mesure, Comptee(w),
           v.liste = w.liste, v.resultats = w.resultats, v.traitees = w.traitees,
           v.etat # "termine" \/ w.etat = "termine",
           v.etat = "supprime" \/ w.etat # "supprime"
    PROVE  Comptee(v)
BY DEF Comptee, Rangees, Posees

\* What a question becomes, in a measurement that is not launched again.
Reponse(w, q, vers) == [w EXCEPT !.reponse = [w.reponse EXCEPT ![q] = vers]]

LEMMA AvancerGarde ==
    ASSUME NEW w \in Mesure, Entiere(w), NEW q \in Questions,
           NEW vers \in {"ranger", "rangerErreur", "fini"},
           \/ w.reponse[q] = "attend" /\ vers # "fini"
           \/ w.reponse[q] = "noter" /\ vers = "fini"
    PROVE  Reponse(w, q, vers) \in Mesure /\ Entiere(Reponse(w, q, vers))
<1> DEFINE v == Reponse(w, q, vers)
<1>1. /\ v \in Mesure /\ v.reponse = [w.reponse EXCEPT ![q] = vers]
      /\ v.etat = w.etat /\ v.tache = w.tache /\ v.erreur = w.erreur /\ v.liste = w.liste
      /\ v.resultats = w.resultats /\ v.traitees = w.traitees
  BY DEF Mesure, Reponse
<1> HIDE DEF v
<1>2. w.reponse \in [Questions -> {"aucune", "attend", "ranger", "rangerErreur", "noter", "fini"}]
  BY DEF Mesure
<1>3. Deroulee(v)
  BY <1>1, <1>2 DEF Entiere, Deroulee, Vierge
<1>4. Tracee(v)
  BY <1>1, <1>2 DEF Entiere, Tracee
<1>5. Comptee(v)
  BY <1>1, CompteGarde DEF Entiere
<1> QED
  BY <1>1, <1>3, <1>4, <1>5 DEF Entiere, v

\* A question is asked, and answered.
LEMMA EvaluerGarde ==
    ASSUME Inv, NEW m \in Mesures, NEW q \in Questions, Evaluer(m, q)
    PROVE  Inv'
<1> DEFINE w == mesures[m]
<1>1. w \in Mesure /\ Entiere(w) /\ mesures \in [Mesures -> Mesure]
  BY DEF Inv, TypeOK
<1>2. PICK vers \in {"ranger", "rangerErreur"} : Avancer(m, q, "attend", vers)
  BY DEF Evaluer
<1> DEFINE v == Reponse(w, q, vers)
<1>3. mesures' = [mesures EXCEPT ![m] = v] /\ w.reponse[q] = "attend"
  BY <1>1, <1>2 DEF Avancer, Reponse, Mesure
<1>4. v \in Mesure /\ Entiere(v)
  BY <1>1, <1>3, AvancerGarde
<1>5. v.etat = w.etat /\ v.resultats = w.resultats
  BY <1>1 DEF Reponse, Mesure
<1>6. ~MesureNeuve(w)
  BY <1>3 DEF MesureNeuve, Vierge
<1> HIDE DEF v
<1> QED
  BY <1>3, <1>4, <1>5, <1>6, MesureGarde DEF Evaluer

\* The result of a question is committed.
LEMMA RangerGarde ==
    ASSUME Inv, NEW m \in Mesures, NEW q \in Questions, Ranger(m, q)
    PROVE  Inv'
<1> DEFINE w == mesures[m]
           juge == w.reponse[q] = "ranger"
           resultat == IF juge THEN "juge" ELSE "erreur"
           suite == IF juge THEN "noter" ELSE "fini"
           v == [w EXCEPT !.resultats = [w.resultats EXCEPT ![q] = resultat],
                          !.reponse = [w.reponse EXCEPT ![q] = suite]]
<1>1. w \in Mesure /\ Entiere(w) /\ mesures \in [Mesures -> Mesure]
      /\ w.reponse[q] \in {"ranger", "rangerErreur"}
  BY DEF Inv, TypeOK, Ranger
<1>2. mesures' = [mesures EXCEPT ![m] = v]
  BY <1>1 DEF Ranger, Mesure
<1>3. /\ v \in Mesure /\ v.reponse = [w.reponse EXCEPT ![q] = suite]
      /\ v.etat = w.etat /\ v.tache = w.tache /\ v.erreur = w.erreur /\ v.liste = w.liste
      /\ v.resultats = [w.resultats EXCEPT ![q] = resultat] /\ v.traitees = w.traitees
  BY <1>1 DEF Mesure
<1>4. /\ w.reponse \in [Questions -> {"aucune", "attend", "ranger", "rangerErreur", "noter", "fini"}]
      /\ w.resultats \in [Questions -> {"aucun", "juge", "erreur"}] /\ w.traitees \in Nat
  BY <1>1 DEF Mesure
<1>5. /\ suite \in {"noter", "fini"} /\ resultat \in {"juge", "erreur"}
      /\ suite = "noter" => resultat = "juge"
  OBVIOUS
<1> HIDE DEF v, resultat, suite, juge
<1>6. /\ \A k \in Questions \ {q} : v.reponse[k] = w.reponse[k] /\ v.resultats[k] = w.resultats[k]
      /\ v.reponse[q] = suite /\ v.resultats[q] = resultat
  BY <1>3, <1>4
<1>7. w.etat # "termine" /\ ~MesureNeuve(w)
      /\ (w.etat # "supprime" => w.resultats[q] = "aucun") /\ w.liste[q] # Rien
  BY <1>1 DEF Entiere, Deroulee, Tracee, MesureNeuve, Vierge
<1>8. Deroulee(v)
  BY <1>1, <1>3, <1>5, <1>6, <1>7 DEF Entiere, Deroulee, Vierge
<1>9. Tracee(v)
  BY <1>1, <1>3, <1>5, <1>6, <1>7 DEF Entiere, Tracee
<1>10. Comptee(v)
  <2>1. Rangees(w) \subseteq Rangees(v)
    BY <1>5, <1>6 DEF Rangees
  <2>2. Cardinality(Rangees(w)) <= Cardinality(Rangees(v))
    BY <2>1, Finis, FS_Subset
  <2>3. w.etat # "supprime" => w.traitees <= Cardinality(Rangees(w))
    BY <1>1 DEF Entiere, Comptee
  <2> QED
    BY <1>3, <1>4, <1>7, <2>2, <2>3, Finis DEF Comptee
<1>11. w.etat # "supprime" => \A k \in Questions : w.resultats[k] = "juge" => v.resultats[k] = "juge"
  BY <1>6, <1>7
<1> QED
  BY <1>2, <1>3, <1>7, <1>8, <1>9, <1>10, <1>11, MesureGarde DEF Entiere, Ranger

\* The verdict is noted on the question, if it is still there.
LEMMA NoterGarde ==
    ASSUME Inv, NEW m \in Mesures, NEW q \in Questions, NoterVerdict(m, q)
    PROVE  Inv'
<1> DEFINE w == mesures[m]
           v == Reponse(w, q, "fini")
<1>1. w \in Mesure /\ Entiere(w) /\ mesures \in [Mesures -> Mesure]
      /\ w.reponse[q] = "noter" /\ UNCHANGED <<runs, requete, arrets>>
      /\ jeu \in [Questions -> Question \cup {Rien, Effacee}]
  BY DEF Inv, TypeOK, NoterVerdict, Avancer
<1>2. mesures' = [mesures EXCEPT ![m] = v]
  BY <1>1 DEF NoterVerdict, Avancer, Reponse, Mesure
<1>3. v \in Mesure /\ Entiere(v)
  BY <1>1, AvancerGarde
<1>4. v.etat = w.etat /\ v.resultats = w.resultats
  BY <1>1 DEF Reponse, Mesure
<1> HIDE DEF v
<1>5. /\ mesures' \in [Mesures -> Mesure] /\ mesures'[m] = v
      /\ \A n \in Mesures \ {m} : mesures'[n] = mesures[n]
  BY <1>1, <1>2, <1>3
<1>6. /\ ~MesureNeuve(w) /\ w.liste[q] \in Textes
      /\ w.etat = "supprime" \/ w.resultats[q] = "juge"
  BY <1>1 DEF Entiere, Tracee, MesureNeuve, Vierge, Mesure
<1>7. Lancables'
  <2>1. ASSUME NEW p \in Requetes, Etape(p, "lancerMesure")
        PROVE  requete[p].mesure \in Mesures \ {m}
    BY <2>1, <1>6 DEF Inv, Prevoyantes, Prevoyante, Lancables, Etape, Repos
  <2> QED
    BY <1>1, <1>5, <2>1 DEF Inv, Lancables, Etape
<1> DEFINE n == [jeu[q] EXCEPT !.verdict = w.liste[q], !.mesure = m]
<1>8. jeu' = IF q \in Presentes THEN [jeu EXCEPT ![q] = n] ELSE jeu
  <2>1. CASE q \in Presentes
    <3>1. jeu[q] \in Question
      BY <2>1, PresentesType DEF Inv
    <3> QED
      BY <2>1, <3>1, <1>1 DEF NoterVerdict, Question
  <2>2. CASE q \notin Presentes
    BY <2>2 DEF NoterVerdict
  <2> QED
    BY <2>1, <2>2
<1>9. q \in Presentes => /\ n \in Question /\ n.run = jeu[q].run
                         /\ n.verdict = w.liste[q] /\ n.mesure = m
  BY <1>6, PresentesType DEF Inv, Question
<1> HIDE DEF n
<1>10. jeu' \in [Questions -> Question \cup {Rien, Effacee}]
  BY <1>1, <1>8, <1>9
<1>11. ASSUME NEW k \in Presentes'
       PROVE  Fondee(k, jeu[k])'
  <2>1. k \in Presentes /\ k \in Questions
    BY <1>1, <1>8 DEF Presentes
  <2>2. jeu[k] \in Question /\ Fondee(k, jeu[k])
    BY <2>1, PresentesType DEF Inv
  <2>3. CASE k = q
    BY <1>1, <1>4, <1>5, <1>6, <1>8, <1>9, <2>1, <2>2, <2>3, RienAssumption DEF Fondee
  <2>4. CASE k # q
    <3>1. jeu'[k] = jeu[k] /\ (jeu[k].mesure # Rien => jeu[k].mesure \in Mesures)
      BY <1>1, <1>8, <2>1, <2>2, <2>4 DEF Question
    <3> QED
      BY <1>1, <1>4, <1>5, <2>1, <2>2, <3>1 DEF Fondee
  <2> QED
    BY <2>3, <2>4
<1>12. TypeOK'
  BY <1>1, <1>5, <1>10 DEF Inv, TypeOK
<1>13. \A k \in Mesures : Entiere(mesures'[k])
  BY <1>3, <1>5 DEF Inv
<1> QED
  BY <1>1, <1>7, <1>11, <1>12, <1>13 DEF Inv, Prevoyantes, Entiere, Deroulee, Tracee, Comptee,
     Vierge, Posees, Rangees

-----------------------------------------------------------------------------
\* A measurement starts, or finds that it cannot.
LEMMA EntrerMesureGarde ==
    ASSUME Inv, NEW m \in Mesures, NEW joignable \in BOOLEAN, EntrerMesure(m, joignable)
    PROVE  Inv'
<1> DEFINE w == mesures[m]
           tache == IF joignable THEN "interroge" ELSE "conclure"
           reponse == [q \in Questions |->
                         IF joignable /\ q \in Lancees(m) THEN "attend" ELSE "aucune"]
           v == [w EXCEPT !.etat = "en_cours", !.erreur = ~joignable,
                          !.tache = tache, !.reponse = reponse]
<1>1. w \in Mesure /\ Entiere(w) /\ w.tache = "file" /\ Vierge(w) /\ w.etat = "en_attente"
  BY DEF Inv, TypeOK, Entiere, Deroulee, EntrerMesure
<1>2. mesures' = [mesures EXCEPT ![m] = v] /\ UNCHANGED <<jeu, runs, requete, arrets>>
  BY DEF EntrerMesure
<1>3. /\ tache \in {"interroge", "conclure"} /\ (tache = "interroge" <=> joignable)
      /\ reponse \in [Questions -> {"attend", "aucune"}]
      /\ \A q \in Questions : reponse[q] = "attend" <=> joignable /\ w.liste[q] # Rien
  BY DEF Lancees
<1> HIDE DEF tache, reponse
<1>4. /\ v \in Mesure /\ v.etat = "en_cours" /\ v.tache = tache /\ v.reponse = reponse
      /\ v.erreur = ~joignable /\ v.liste = w.liste /\ v.resultats = w.resultats
      /\ v.traitees = w.traitees
  BY <1>1, <1>3 DEF Mesure, Existants, Etats, ACTIFS
<1> HIDE DEF v
<1>5. Deroulee(v)
  BY <1>1, <1>3, <1>4 DEF Deroulee
<1>6. Tracee(v)
  BY <1>1, <1>3, <1>4 DEF Tracee, Vierge
<1>7. Comptee(v)
  BY <1>1, <1>4, CompteGarde DEF Entiere
<1>8. ~MesureNeuve(w) /\ \A q \in Questions : w.resultats[q] # "juge"
  BY <1>1 DEF MesureNeuve, Vierge
<1> QED
  BY <1>1, <1>2, <1>4, <1>5, <1>6, <1>7, <1>8, MesureGarde DEF Entiere

\* The row follows the count.
LEMMA SuivreGarde ==
    ASSUME Inv, NEW m \in Mesures, SuivreMesure(m)
    PROVE  Inv'
<1> DEFINE w == mesures[m]
           n == Cardinality(Repondues(w))
           v == [w EXCEPT !.traitees = n]
<1>1. w \in Mesure /\ Entiere(w) /\ w.tache = "interroge"
  BY DEF Inv, TypeOK, SuivreMesure
<1>2. /\ w.etat \in ACTIFS /\ ~MesureNeuve(w)
  BY <1>1 DEF Entiere, Deroulee, Mesure, Etats, Existants, ACTIFS, MesureNeuve
<1>3. mesures' = [mesures EXCEPT ![m] = v] /\ UNCHANGED <<jeu, runs, requete, arrets>>
  BY <1>1 DEF SuivreMesure, Finies, Repondues, Mesure
<1>4. n \in Nat /\ n <= Cardinality(Rangees(w))
  BY <1>1, <1>2, Finis, RepondueRangee DEF Entiere, ACTIFS
<1> HIDE DEF n
<1>5. /\ v \in Mesure /\ v.etat = w.etat /\ v.tache = w.tache /\ v.reponse = w.reponse
      /\ v.erreur = w.erreur /\ v.liste = w.liste /\ v.resultats = w.resultats
      /\ v.traitees = n
  BY <1>1, <1>4 DEF Mesure
<1> HIDE DEF v
<1>6. Rangees(v) = Rangees(w)
  BY <1>5 DEF Rangees
<1>7. Deroulee(v) /\ Tracee(v) /\ Comptee(v)
  BY <1>1, <1>2, <1>4, <1>5, <1>6 DEF Entiere, Deroulee, Tracee, Comptee, ACTIFS
<1> QED
  BY <1>1, <1>2, <1>3, <1>5, <1>7, MesureGarde DEF Entiere, ACTIFS

\* Every question is answered, or none will be any more.
LEMMA ReunirGarde ==
    ASSUME Inv, NEW m \in Mesures, Reunir(m) \/ Depasser(m)
    PROVE  Inv'
<1> DEFINE w == mesures[m]
<1>1. w \in Mesure /\ Entiere(w) /\ w.tache = "interroge"
      /\ UNCHANGED <<jeu, runs, requete, arrets>>
  BY DEF Inv, TypeOK, Reunir, Depasser
<1>2. /\ w.etat \in ACTIFS /\ ~MesureNeuve(w)
  BY <1>1 DEF Entiere, Deroulee, Mesure, Etats, Existants, ACTIFS, MesureNeuve
<1>3. CASE Reunir(m)
  <2> DEFINE v == [w EXCEPT !.tache = "conclure"]
  <2>1. mesures' = [mesures EXCEPT ![m] = v]
        /\ \A q \in Questions : w.liste[q] # Rien => w.reponse[q] = "fini"
    BY <1>1, <1>3 DEF Reunir, Finies, Lancees, Mesure
  <2>2. /\ v \in Mesure /\ v.etat = w.etat /\ v.tache = "conclure" /\ v.reponse = w.reponse
        /\ v.erreur = w.erreur /\ v.liste = w.liste /\ v.resultats = w.resultats
        /\ v.traitees = w.traitees
    BY <1>1 DEF Mesure
  <2> HIDE DEF v
  <2>3. Deroulee(v) /\ Tracee(v)
    BY <1>1, <1>2, <2>1, <2>2 DEF Entiere, Deroulee, Tracee, ACTIFS
  <2>4. Comptee(v)
    BY <1>1, <2>2, CompteGarde DEF Entiere
  <2> QED
    BY <1>1, <1>2, <2>1, <2>2, <2>3, <2>4, MesureGarde DEF Entiere, ACTIFS
<1>4. CASE Depasser(m)
  <2> DEFINE reponse == [q \in Questions |-> IF w.reponse[q] = "fini" THEN "fini" ELSE "aucune"]
             v == [w EXCEPT !.tache = "conclure", !.erreur = TRUE, !.reponse = reponse]
  <2>1. mesures' = [mesures EXCEPT ![m] = v]
    BY <1>1, <1>4 DEF Depasser, Mesure
  <2>2. /\ reponse \in [Questions -> {"fini", "aucune"}]
        /\ \A q \in Questions : reponse[q] = "fini" <=> w.reponse[q] = "fini"
    OBVIOUS
  <2> HIDE DEF reponse
  <2>3. /\ v \in Mesure /\ v.etat = w.etat /\ v.tache = "conclure" /\ v.reponse = reponse
        /\ v.erreur = TRUE /\ v.liste = w.liste /\ v.resultats = w.resultats
        /\ v.traitees = w.traitees
    BY <1>1, <2>2 DEF Mesure
  <2> HIDE DEF v
  <2>4. Deroulee(v) /\ Tracee(v)
    BY <1>1, <1>2, <2>2, <2>3 DEF Entiere, Deroulee, Tracee, ACTIFS
  <2>5. Comptee(v)
    BY <1>1, <2>3, CompteGarde DEF Entiere
  <2> QED
    BY <1>1, <1>2, <2>1, <2>3, <2>4, <2>5, MesureGarde DEF Entiere, ACTIFS
<1> QED
  BY <1>3, <1>4

\* A measurement is over: well only if it has asked every question.
LEMMA ConclureGarde ==
    ASSUME Inv, NEW m \in Mesures, Conclure(m)
    PROVE  Inv'
<1> DEFINE w == mesures[m]
           n == Cardinality(Repondues(w))
           etat == IF w.erreur \/ \A q \in Repondues(w) : w.resultats[q] = "erreur"
                   THEN "erreur" ELSE "termine"
           v == [w EXCEPT !.tache = "aucune", !.traitees = n, !.etat = etat]
<1>1. w \in Mesure /\ Entiere(w) /\ w.tache = "conclure"
  BY DEF Inv, TypeOK, Conclure
<1>2. /\ w.etat \in ACTIFS /\ ~MesureNeuve(w)
  BY <1>1 DEF Entiere, Deroulee, Mesure, Etats, Existants, ACTIFS, MesureNeuve
<1>3. mesures' = [mesures EXCEPT ![m] = v] /\ UNCHANGED <<jeu, runs, requete, arrets>>
  BY <1>1 DEF Conclure, Finies, Repondues, Mesure
<1>4. n \in Nat /\ n <= Cardinality(Rangees(w))
  BY <1>1, <1>2, Finis, RepondueRangee DEF Entiere, ACTIFS
<1>5. etat \in {"erreur", "termine"} /\ (etat = "termine" => ~w.erreur)
  OBVIOUS
<1>6. etat = "termine" => /\ \A q \in Questions : w.liste[q] # Rien => w.reponse[q] = "fini"
                          /\ Rangees(w) = Posees(w) /\ n = Cardinality(Rangees(w))
  <2>1. SUFFICES ASSUME etat = "termine"
                 PROVE  /\ \A q \in Questions : w.liste[q] # Rien => w.reponse[q] = "fini"
                        /\ Rangees(w) = Posees(w) /\ n = Cardinality(Rangees(w))
    OBVIOUS
  <2>2. \A q \in Questions : w.liste[q] # Rien => w.reponse[q] = "fini"
    BY <1>1, <1>5, <2>1 DEF Entiere, Deroulee
  <2>3. Posees(w) \subseteq Repondues(w)
    BY <2>2 DEF Posees, Repondues
  <2>4. Repondues(w) \subseteq Rangees(w) /\ Rangees(w) \subseteq Posees(w)
    BY <1>1, <1>2, RepondueRangee DEF Entiere, ACTIFS
  <2>5. Rangees(w) = Posees(w) /\ Repondues(w) = Rangees(w)
    BY <2>3, <2>4
  <2> QED
    BY <2>2, <2>5
<1> HIDE DEF n, etat
<1>7. /\ v \in Mesure /\ v.etat = etat /\ v.tache = "aucune" /\ v.reponse = w.reponse
      /\ v.erreur = w.erreur /\ v.liste = w.liste /\ v.resultats = w.resultats
      /\ v.traitees = n
  BY <1>1, <1>4, <1>5 DEF Mesure, Etats, Existants
<1> HIDE DEF v
<1>8. Rangees(v) = Rangees(w) /\ Posees(v) = Posees(w)
  BY <1>7 DEF Rangees, Posees
<1>9. Deroulee(v)
  BY <1>1, <1>5, <1>6, <1>7 DEF Entiere, Deroulee, Tracee, Mesure
<1>10. Tracee(v) /\ Comptee(v)
  BY <1>1, <1>2, <1>4, <1>5, <1>6, <1>7, <1>8 DEF Entiere, Tracee, Comptee, ACTIFS
<1> QED
  BY <1>1, <1>2, <1>3, <1>5, <1>7, <1>9, <1>10, MesureGarde DEF Entiere, ACTIFS

\* A measurement is deleted once it is over, its answers with it.
LEMMA SuppressionMesureGarde ==
    ASSUME Inv, NEW m \in Mesures, SupprimerMesure(m)
    PROVE  Inv'
<1> DEFINE w == mesures[m]
           resultats == [q \in Questions |-> "aucun"]
           v == [w EXCEPT !.etat = "supprime", !.resultats = resultats]
<1>1. w \in Mesure /\ Entiere(w) /\ w.etat \in {"termine", "erreur"}
  BY DEF Inv, TypeOK, SupprimerMesure, Existants, ACTIFS
<1>2. mesures' = [mesures EXCEPT ![m] = v] /\ UNCHANGED <<jeu, runs, requete, arrets>>
  BY <1>1 DEF SupprimerMesure, Mesure
<1>3. /\ resultats \in [Questions -> {"aucun"}]
      /\ \A q \in Questions : resultats[q] = "aucun"
  OBVIOUS
<1> HIDE DEF resultats
<1>4. /\ v \in Mesure /\ v.etat = "supprime" /\ v.tache = w.tache /\ v.reponse = w.reponse
      /\ v.erreur = w.erreur /\ v.liste = w.liste /\ v.resultats = resultats
      /\ v.traitees = w.traitees
  BY <1>1, <1>3 DEF Mesure, Etats
<1> HIDE DEF v
<1>5. Deroulee(v) /\ Tracee(v) /\ Comptee(v)
  BY <1>1, <1>3, <1>4 DEF Entiere, Deroulee, Tracee, Comptee
<1>6. ~MesureNeuve(w)
  BY <1>1 DEF MesureNeuve
<1> QED
  BY <1>1, <1>2, <1>4, <1>5, <1>6, MesureGarde DEF Entiere

\* A commit of a measurement is refused: it ends in error, or stays active.
LEMMA EchecMesureGarde ==
    ASSUME Inv, NEW m \in Mesures, EchouerMesure(m)
    PROVE  Inv'
<1> DEFINE w == mesures[m]
           tache == IF w.tache = "file" THEN "conclure" ELSE "aucune"
           v == [w EXCEPT !.tache = tache, !.erreur = TRUE]
<1>1. w \in Mesure /\ Entiere(w) /\ w.tache \in {"file", "conclure"}
  BY DEF Inv, TypeOK, EchouerMesure
<1>2. mesures' = [mesures EXCEPT ![m] = v] /\ UNCHANGED <<jeu, runs, requete, arrets>>
  BY <1>1 DEF EchouerMesure, Mesure
<1>3. tache \in {"conclure", "aucune"}
  OBVIOUS
<1> HIDE DEF tache
<1>4. /\ v \in Mesure /\ v.etat = w.etat /\ v.tache = tache /\ v.reponse = w.reponse
      /\ v.erreur = TRUE /\ v.liste = w.liste /\ v.resultats = w.resultats
      /\ v.traitees = w.traitees
  BY <1>1, <1>3 DEF Mesure
<1> HIDE DEF v
<1>5. w.etat \in ACTIFS /\ ~MesureNeuve(w)
  BY <1>1 DEF Entiere, Deroulee, Mesure, Etats, Existants, ACTIFS, MesureNeuve
<1>6. Deroulee(v) /\ Tracee(v)
  BY <1>1, <1>3, <1>4, <1>5 DEF Entiere, Deroulee, Tracee, ACTIFS
<1>7. Comptee(v)
  BY <1>1, <1>4, CompteGarde DEF Entiere
<1> QED
  BY <1>1, <1>2, <1>4, <1>5, <1>6, <1>7, MesureGarde DEF Entiere, ACTIFS

\* A commit on a question is refused: its coroutine dies, and the measurement
\* ends in error if it was still waiting for it.
LEMMA EchecQuestionGarde ==
    ASSUME Inv, NEW m \in Mesures, NEW q \in Questions, EchouerQuestion(m, q)
    PROVE  Inv'
<1> DEFINE w == mesures[m]
           tache == IF w.tache = "interroge" THEN "conclure" ELSE w.tache
           erreur == w.erreur \/ w.tache = "interroge"
           v == [w EXCEPT !.reponse = [w.reponse EXCEPT ![q] = "aucune"],
                          !.erreur = erreur, !.tache = tache]
<1>1. w \in Mesure /\ Entiere(w) /\ w.reponse[q] \in {"ranger", "rangerErreur", "noter"}
  BY DEF Inv, TypeOK, EchouerQuestion
<1>2. mesures' = [mesures EXCEPT ![m] = v] /\ UNCHANGED <<jeu, runs, requete, arrets>>
  BY <1>1 DEF EchouerQuestion, Mesure
<1>3. /\ tache \in {"aucune", "file", "conclure"} /\ erreur \in BOOLEAN
      /\ w.tache = "interroge" => erreur /\ tache = "conclure"
      /\ w.tache # "interroge" => (erreur <=> w.erreur) /\ tache = w.tache
  BY <1>1 DEF Mesure
<1> HIDE DEF tache, erreur
<1>4. /\ v \in Mesure /\ v.etat = w.etat /\ v.tache = tache /\ v.erreur = erreur
      /\ v.reponse = [w.reponse EXCEPT ![q] = "aucune"]
      /\ v.liste = w.liste /\ v.resultats = w.resultats /\ v.traitees = w.traitees
  BY <1>1, <1>3 DEF Mesure
<1> HIDE DEF v
<1>5. /\ v.reponse[q] = "aucune" /\ w.liste[q] # Rien /\ ~Vierge(w)
      /\ \A k \in Questions \ {q} : v.reponse[k] = w.reponse[k]
  BY <1>1, <1>4 DEF Mesure, Entiere, Tracee, Vierge
<1>6. Deroulee(v)
  BY <1>1, <1>3, <1>4, <1>5 DEF Entiere, Deroulee
<1>7. Tracee(v)
  BY <1>1, <1>4, <1>5 DEF Entiere, Tracee
<1>8. Comptee(v)
  BY <1>1, <1>4, CompteGarde DEF Entiere
<1> QED
  BY <1>1, <1>2, <1>4, <1>5, <1>6, <1>7, <1>8, MesureGarde DEF Entiere, MesureNeuve

-----------------------------------------------------------------------------
\* The requests that launch a measurement, until it has its task.
LEMMA DemandeMesureGarde ==
    ASSUME Inv, NEW p \in Requetes,
           \/ DemanderMesure(p) \/ (\E validees \in BOOLEAN : Rassembler(p, validees))
           \/ VerifierMesure(p) \/ EchouerRequete(p)
    PROVE  Inv'
<1>1. TypeOK /\ Prevoyante(requete[p])
  BY DEF Inv, Prevoyantes
<1>2. Prevoyante(Repos) /\ Repos.etape = "repos"
  BY DEF Prevoyante, Repos
<1>3. CASE DemanderMesure(p)
  <2> DEFINE d == [etape |-> "rassembler"]
  <2>1. Prevoyante(d) /\ d.etape = "rassembler"
    BY DEF Prevoyante
  <2> QED
    BY <1>3, <2>1, RequeteGarde DEF DemanderMesure
<1>4. ASSUME NEW validees \in BOOLEAN, Rassembler(p, validees)
      PROVE  Inv'
  <2> DEFINE choisies == AMesurer(validees)
             liste == [q \in Questions |-> IF q \in choisies THEN jeu[q].texte ELSE Rien]
             d == [etape |-> "verifierMesure", liste |-> liste]
  <2>1. liste \in [Questions -> Textes \cup {Rien}]
    BY <1>1, PresentesType DEF AMesurer, Question
  <2> HIDE DEF liste
  <2>2. Prevoyante(d) /\ d.etape = "verifierMesure"
    BY <2>1 DEF Prevoyante
  <2>3. /\ Aller(p, Repos) \/ Aller(p, d)
        /\ UNCHANGED <<jeu, runs, mesures, arrets>>
    BY <1>4 DEF Rassembler, liste
  <2> QED
    BY <1>2, <2>2, <2>3, RequeteGarde
<1>5. CASE VerifierMesure(p)
  <2> DEFINE d == [etape |-> "creerMesure", liste |-> requete[p].liste]
  <2>1. requete[p].liste \in [Questions -> Textes \cup {Rien}]
    BY <1>1, <1>5 DEF VerifierMesure, Etape, Prevoyante, Repos
  <2>2. Prevoyante(d) /\ d.etape = "creerMesure"
    BY <2>1 DEF Prevoyante
  <2>3. /\ Aller(p, Repos) \/ Aller(p, d)
        /\ UNCHANGED <<jeu, runs, mesures, arrets>>
    BY <1>5 DEF VerifierMesure
  <2> QED
    BY <1>2, <2>2, <2>3, RequeteGarde
<1>6. CASE EchouerRequete(p)
  BY <1>2, <1>6, RequeteGarde DEF EchouerRequete
<1> QED
  BY <1>3, <1>4, <1>5, <1>6

\* The row of a measurement is created, then its task.
LEMMA CreationMesureGarde ==
    ASSUME Inv, NEW p \in Requetes, NEW m \in Mesures, NEW v \in Mesure,
           NEW r, Prevoyante(r),
           \/ r = Repos /\ Etape(p, "lancerMesure") /\ requete[p].mesure = m
           \/ /\ r = [etape |-> "lancerMesure", mesure |-> m] /\ MesureNeuve(v)
              /\ mesures[m].etat = "absent",
           v.etat \in ACTIFS, Entiere(v), v.resultats = mesures[m].resultats,
           mesures[m].etat # "supprime",
           mesures' = [mesures EXCEPT ![m] = v], Aller(p, r),
           UNCHANGED <<jeu, runs, arrets>>
    PROVE  Inv'
<1>1. /\ TypeOK /\ Prevoyantes /\ Lancables /\ DOMAIN requete = Requetes
  BY DEF Inv, Prevoyantes
<1>2. /\ mesures' \in [Mesures -> Mesure] /\ mesures'[m] = v
      /\ \A n \in Mesures \ {m} : mesures'[n] = mesures[n]
  BY <1>1 DEF TypeOK
<1>3. /\ requete'[p] = r /\ DOMAIN requete' = Requetes
      /\ \A q \in Requetes \ {p} : requete'[q] = requete[q]
  BY <1>1 DEF Aller
<1>4. Prevoyantes'
  BY <1>1, <1>3 DEF Prevoyantes
<1>5. ASSUME NEW q \in Requetes \ {p}, Etape(q, "lancerMesure")
      PROVE  requete[q].mesure \in Mesures \ {m} /\ MesureNeuve(mesures[requete[q].mesure])
  BY <1>1, <1>5 DEF Prevoyantes, Prevoyante, Repos, Lancables, Etape, MesureNeuve
<1>6. Lancables'
  BY <1>1, <1>2, <1>3, <1>5 DEF Lancables, Etape, Repos
<1>7. \A n \in Mesures : Entiere(mesures'[n])
  BY <1>2 DEF Inv
<1>8. \A q \in Presentes' : Fondee(q, jeu[q])'
  <2> SUFFICES ASSUME NEW q \in Presentes PROVE Fondee(q, jeu[q])'
    BY DEF Presentes
  <2>1. jeu[q] \in Question /\ Fondee(q, jeu[q])
    BY <1>1, PresentesType DEF Inv
  <2>2. jeu[q].mesure # Rien => jeu[q].mesure \in Mesures
    BY <2>1 DEF Question
  <2> QED
    BY <1>2, <2>1, <2>2 DEF Fondee
<1>9. TypeOK'
  BY <1>1, <1>2 DEF TypeOK
<1> QED
  BY <1>4, <1>6, <1>7, <1>8, <1>9 DEF Inv, Entiere, Deroulee, Tracee, Comptee, Vierge, Posees, Rangees

LEMMA LancementMesureGarde ==
    ASSUME Inv, NEW p \in Requetes, CreerMesure(p) \/ LancerMesure(p)
    PROVE  Inv'
<1>1. TypeOK /\ Prevoyante(requete[p]) /\ Lancables
  BY DEF Inv, Prevoyantes
<1>2. CASE CreerMesure(p)
  <2>1. PICK m \in Mesures : /\ mesures[m].etat = "absent"
                             /\ mesures' = [mesures EXCEPT ![m].etat = "en_attente",
                                                           ![m].liste = requete[p].liste]
                             /\ Aller(p, [etape |-> "lancerMesure", mesure |-> m])
    BY <1>2 DEF CreerMesure
  <2> DEFINE w == mesures[m]
             liste == requete[p].liste
             v == [w EXCEPT !.etat = "en_attente", !.liste = liste]
             d == [etape |-> "lancerMesure", mesure |-> m]
  <2>2. w \in Mesure /\ Entiere(w) /\ w.tache = "aucune" /\ Vierge(w)
    BY <1>1, <2>1 DEF Inv, TypeOK, Entiere, Deroulee
  <2>3. liste \in [Questions -> Textes \cup {Rien}]
    BY <1>1, <1>2 DEF CreerMesure, Etape, Prevoyante, Repos
  <2> HIDE DEF liste
  <2>4. mesures' = [mesures EXCEPT ![m] = v] /\ UNCHANGED <<jeu, runs, arrets>>
    <3>1. mesures' = [mesures EXCEPT ![m] = v]
      BY <2>1, <2>2, <2>3 DEF Mesure, liste
    <3> QED
      BY <1>2, <3>1 DEF CreerMesure
  <2>5. /\ v \in Mesure /\ v.etat = "en_attente" /\ v.tache = "aucune" /\ v.erreur = w.erreur
        /\ v.reponse = w.reponse /\ v.resultats = w.resultats /\ v.traitees = w.traitees
    BY <2>2, <2>3 DEF Mesure, Etats, Existants, ACTIFS
  <2> HIDE DEF v
  <2>6. Deroulee(v) /\ Tracee(v) /\ MesureNeuve(v)
    BY <2>2, <2>5 DEF Entiere, Deroulee, Tracee, Vierge, MesureNeuve
  <2>7. Comptee(v)
    BY <2>2, <2>5, Finis DEF Comptee, Vierge
  <2>8. Prevoyante(d)
    BY DEF Prevoyante
  <2> QED
    BY <2>1, <2>4, <2>5, <2>6, <2>7, <2>8, CreationMesureGarde DEF Entiere, ACTIFS
<1>3. CASE LancerMesure(p)
  <2> DEFINE m == requete[p].mesure
             w == mesures[m]
             v == [w EXCEPT !.tache = "file"]
  <2>1. m \in Mesures /\ MesureNeuve(w) /\ Etape(p, "lancerMesure")
    BY <1>1, <1>3 DEF LancerMesure, Etape, Prevoyante, Repos, Lancables
  <2>2. w \in Mesure /\ Entiere(w)
    BY <1>1, <2>1 DEF Inv, TypeOK
  <2>3. /\ mesures' = [mesures EXCEPT ![m] = v] /\ Aller(p, Repos)
        /\ UNCHANGED <<jeu, runs, arrets>>
    BY <1>3 DEF LancerMesure
  <2>4. /\ v \in Mesure /\ v.etat = "en_attente" /\ v.tache = "file" /\ v.erreur = w.erreur
        /\ v.reponse = w.reponse /\ v.resultats = w.resultats /\ v.traitees = w.traitees
        /\ v.liste = w.liste
    BY <2>1, <2>2 DEF Mesure, MesureNeuve
  <2> HIDE DEF v
  <2>5. Deroulee(v) /\ Tracee(v)
    BY <2>1, <2>2, <2>4 DEF Entiere, Deroulee, Tracee, Vierge, MesureNeuve
  <2>6. Comptee(v)
    BY <2>1, <2>2, <2>4, CompteGarde DEF Entiere, MesureNeuve
  <2>7. Prevoyante(Repos)
    BY DEF Prevoyante
  <2> QED
    BY <2>1, <2>3, <2>4, <2>5, <2>6, <2>7, CreationMesureGarde DEF Entiere, ACTIFS, MesureNeuve
<1> QED
  BY <1>2, <1>3

-----------------------------------------------------------------------------
\* What a measurement is once the process has stopped and started again.
Interrompue(w) == [w EXCEPT !.etat = IF w.etat \in ACTIFS THEN "erreur" ELSE w.etat,
                            !.tache = "aucune",
                            !.reponse = [q \in Questions |-> "aucune"]]

LEMMA ArretMesure ==
    ASSUME NEW w \in Mesure, Entiere(w)
    PROVE  /\ Interrompue(w) \in Mesure /\ Entiere(Interrompue(w))
           /\ Interrompue(w).resultats = w.resultats
           /\ w.etat = "supprime" => Interrompue(w).etat = "supprime"
<1> DEFINE v == Interrompue(w)
           etat == IF w.etat \in ACTIFS THEN "erreur" ELSE w.etat
<1>1. /\ etat \in Etats /\ etat \notin ACTIFS
      /\ etat # "erreur" => etat = w.etat
      /\ w.etat \notin ACTIFS => etat = w.etat
  BY DEF Mesure, Etats, Existants, ACTIFS
<1>2. /\ v \in Mesure /\ v.etat = etat /\ v.tache = "aucune" /\ v.erreur = w.erreur
      /\ v.liste = w.liste /\ v.resultats = w.resultats /\ v.traitees = w.traitees
      /\ \A q \in Questions : v.reponse[q] = "aucune"
  BY <1>1 DEF Mesure, Interrompue
<1> HIDE DEF v, etat
<1>3. Deroulee(v) /\ Tracee(v)
  BY <1>1, <1>2 DEF Entiere, Deroulee, Tracee, Vierge, ACTIFS
<1>4. Comptee(v)
  BY <1>1, <1>2, CompteGarde DEF Entiere, ACTIFS
<1> QED
  BY <1>1, <1>2, <1>3, <1>4 DEF Entiere, v, ACTIFS

LEMMA ArretGarde ==
    ASSUME Inv, Arreter
    PROVE  Inv'
<1> DEFINE Interrompu(etat) == IF etat \in ACTIFS THEN "erreur" ELSE etat
<1>1. /\ TypeOK /\ \A m \in Mesures : mesures[m] \in Mesure /\ Entiere(mesures[m])
      /\ \A r \in Runs : runs[r] \in Run
  BY DEF Inv, TypeOK
<1>2. /\ requete' = [p \in Requetes |-> Repos] /\ jeu' = jeu
      /\ arrets < MaxArrets /\ arrets' = arrets + 1
      /\ runs' = [r \in Runs |-> [etat |-> Interrompu(runs[r].etat), tache |-> "aucune"]]
      /\ mesures' = [m \in Mesures |-> Interrompue(mesures[m])]
  BY DEF Arreter, Interrompue
<1>3. /\ \A r \in Runs : /\ runs'[r] \in Run /\ Tenu(runs'[r])
                         /\ runs[r].etat \in Existants => runs'[r].etat \in Existants
      /\ runs' \in [Runs -> Run]
  BY <1>1, <1>2 DEF Run, Etats, Existants, ACTIFS, Tenu
<1>4. ASSUME NEW m \in Mesures
      PROVE  /\ mesures'[m] \in Mesure /\ Entiere(mesures'[m])
             /\ mesures'[m].resultats = mesures[m].resultats
             /\ mesures[m].etat = "supprime" => mesures'[m].etat = "supprime"
  BY <1>1, <1>2, ArretMesure
<1>5. mesures' \in [Mesures -> Mesure]
  BY <1>2, <1>4
<1> HIDE DEF Interrompu
<1>6. Prevoyantes' /\ Lancables'
  BY <1>2 DEF Prevoyantes, Prevoyante, Lancables, Etape, Repos
<1>7. arrets' \in 0 .. MaxArrets
  <2>1. arrets \in 0 .. MaxArrets /\ arrets < MaxArrets /\ arrets' = arrets + 1
    BY <1>1, <1>2 DEF TypeOK
  <2> QED
    BY <2>1, BornesAssumption
<1>8. TypeOK'
  BY <1>1, <1>2, <1>3, <1>5, <1>7 DEF TypeOK
<1>9. \A q \in Presentes' : Fondee(q, jeu[q])'
  <2> SUFFICES ASSUME NEW q \in Presentes PROVE Fondee(q, jeu[q])'
    BY <1>2 DEF Presentes
  <2>1. jeu[q] \in Question /\ Fondee(q, jeu[q])
    BY <1>1, PresentesType DEF Inv
  <2>2. /\ jeu[q].mesure # Rien => jeu[q].mesure \in Mesures
        /\ jeu[q].run # Rien => jeu[q].run \in Runs
    BY <2>1 DEF Question
  <2> QED
    BY <1>2, <1>3, <1>4, <2>1, <2>2 DEF Fondee
<1> QED
  BY <1>3, <1>4, <1>6, <1>8, <1>9 DEF Inv, Entiere, Deroulee, Tracee, Comptee, Vierge, Posees, Rangees

-----------------------------------------------------------------------------
LEMMA InitInv == Init => Inv
<1> SUFFICES ASSUME Init PROVE Inv
  OBVIOUS
<1>1. /\ Personne \in [Questions -> Textes \cup {Rien}]
      /\ [q \in Questions |-> "aucun"] \in [Questions -> {"aucun", "juge", "erreur"}]
  BY DEF Personne
<1>2. ASSUME NEW m \in Mesures
      PROVE  /\ mesures[m] \in Mesure /\ mesures[m].etat = "absent" /\ mesures[m].tache = "aucune"
             /\ Vierge(mesures[m])
  BY <1>1 DEF Init, Mesure, Etats, Vierge
<1>3. TypeOK
  <2>1. mesures \in [Mesures -> Mesure]
    BY <1>2 DEF Init
  <2>2. runs \in [Runs -> Run]
    BY DEF Init, Run, Etats
  <2>3. jeu \in [Questions -> Question \cup {Rien, Effacee}] /\ arrets = 0
    BY DEF Init
  <2>4. arrets \in 0 .. MaxArrets
    BY <2>3, BornesAssumption
  <2> QED
    BY <2>1, <2>2, <2>3, <2>4 DEF TypeOK
<1>4. ASSUME NEW m \in Mesures
      PROVE  Entiere(mesures[m])
  BY <1>2, Finis DEF Entiere, Deroulee, Tracee, Comptee, Vierge
<1>5. Prevoyantes /\ Lancables
  BY DEF Init, Prevoyantes, Prevoyante, Lancables, Etape, Repos
<1>6. /\ \A r \in Runs : Tenu(runs[r])
      /\ \A q \in Presentes : Fondee(q, jeu[q])
  BY DEF Init, Tenu, Presentes
<1> QED
  BY <1>3, <1>4, <1>5, <1>6 DEF Inv

LEMMA EtapeGarde == Inv /\ [Next]_vars => Inv'
<1> SUFFICES ASSUME Inv, [Next]_vars PROVE Inv'
  OBVIOUS
<1>1. CASE UNCHANGED vars
  <2>1. UNCHANGED jeu /\ UNCHANGED requete /\ UNCHANGED <<runs, mesures, arrets>>
    BY <1>1 DEF vars
  <2>2. /\ jeu' \in [Questions -> Question \cup {Rien, Effacee}]
        /\ \A q \in Questions : jeu'[q] \notin {Rien, Effacee} => Fondee(q, jeu'[q])
    BY <2>1 DEF Inv, TypeOK, Presentes
  <2> QED
    BY <2>1, <2>2, JeuGarde
<1>2. ASSUME NEW p \in Requetes, Demander(p) \/ Continuer(p) \/ EchouerRequete(p)
      PROVE  Inv'
  <2>1. CASE Editer(p) \/ CreerEcrire(p) \/ ModifierEcrire(p)
    BY <2>1, EditionGarde
  <2>2. CASE DemanderRun(p) \/ CreerRun(p) \/ LancerRun(p)
    BY <2>2, DemandeRunGarde
  <2>3. CASE \/ DemanderMesure(p) \/ (\E validees \in BOOLEAN : Rassembler(p, validees))
             \/ VerifierMesure(p) \/ EchouerRequete(p)
    BY <2>3, DemandeMesureGarde
  <2>4. CASE CreerMesure(p) \/ LancerMesure(p)
    BY <2>4, LancementMesureGarde
  <2> QED
    BY <1>2, <2>1, <2>2, <2>3, <2>4 DEF Demander, Continuer
<1>3. ASSUME NEW r \in Runs, Generer(r) \/ Rediger(r) \/ RenoncerRun(r) \/ EchouerRun(r)
      PROVE  Inv'
  BY <1>3, RunEtapeGarde, PairesGarde DEF Generer
<1>4. ASSUME NEW m \in Mesures,
             Mesurer(m) \/ SuivreMesure(m) \/ Depasser(m) \/ EchouerMesure(m)
      PROVE  Inv'
  BY <1>4, EntrerMesureGarde, ReunirGarde, ConclureGarde, SuivreGarde, EchecMesureGarde DEF Mesurer
<1>5. ASSUME NEW m \in Mesures, NEW q \in Questions,
             Evaluer(m, q) \/ Questionner(m, q) \/ EchouerQuestion(m, q)
      PROVE  Inv'
  BY <1>5, EvaluerGarde, RangerGarde, NoterGarde, EchecQuestionGarde DEF Questionner
<1>6. CASE Supprimer
  BY <1>6, SuppressionQuestionGarde, SuppressionRunGarde, SuppressionMesureGarde DEF Supprimer
<1>7. CASE Arreter
  BY <1>7, ArretGarde
<1> QED
  BY <1>1, <1>2, <1>3, <1>4, <1>5, <1>6, <1>7 DEF Next, Marche, Panne

LEMMA InvGarde == Spec => []Inv
BY InitInv, EtapeGarde, PTL DEF Spec

-----------------------------------------------------------------------------
\* The rows of the questions, of the runs and of the measurements keep their
\* shapes, whatever requests, tasks, refused commits and stops are interleaved.
THEOREM TypesGardes == Spec => []TypeOK
<1>1. Inv => TypeOK
  BY DEF Inv
<1> QED
  BY <1>1, InvGarde, PTL

\* execution.executer: however its questions are interleaved, cancelled by the
\* delay or refused by the database, a measurement counts no question whose
\* result is not kept, and is over only when it keeps the result of all.
THEOREM MesuresEntieres == Spec => []MesureEntiere
<1>1. ASSUME Inv PROVE MesureEntiere
  <2> SUFFICES ASSUME NEW m \in Mesures, mesures[m].etat \in Existants
               PROVE  /\ Rangees(mesures[m]) \subseteq Lancees(m)
                      /\ mesures[m].traitees <= Cardinality(Rangees(mesures[m]))
                      /\ mesures[m].etat = "termine" =>
                            /\ Rangees(mesures[m]) = Lancees(m)
                            /\ mesures[m].traitees = Cardinality(Rangees(mesures[m]))
    BY DEF MesureEntiere, Rangees
  <2>1. Entiere(mesures[m]) /\ mesures[m].etat # "supprime"
    BY <1>1 DEF Inv, Existants, ACTIFS
  <2>2. Lancees(m) = Posees(mesures[m])
    BY DEF Lancees, Posees
  <2> QED
    BY <2>1, <2>2, RepondueRangee DEF Entiere, Comptee
<1> QED
  BY <1>1, InvGarde, PTL

\* routers/qualite.lire: the verdict shown on a question comes from a
\* measurement that keeps the answer that was judged, unless it was deleted,
\* even when the question was modified, or the process stopped, between the
\* two commits.
THEOREM VerdictsJustifies == Spec => []VerdictJustifie
<1>1. Inv => VerdictJustifie
  BY DEF Inv, VerdictJustifie, Fondee
<1> QED
  BY <1>1, InvGarde, PTL

\* models.db.PaireQA.run_id: no pair outlives its run, nor is written after
\* the run was deleted.
THEOREM PairesToujoursRattachees == Spec => []PairesRattachees
<1>1. Inv => PairesRattachees
  BY DEF Inv, PairesRattachees, Fondee
<1> QED
  BY <1>1, InvGarde, PTL

-----------------------------------------------------------------------------
(* Requests that follow one another: the flag "fiable".                    *)

\* At most one request is in flight.
Seule == \A p, q \in Requetes : requete[p] # Repos /\ requete[q] # Repos => p = q

\* A reliable question was validated and is on the subject.
Saine(l) == l.fiable => l.relecture = "valide" /\ ~l.horsSujet

\* The three columns that the flag depends on are the same.
MemeAvis(l, lu) == /\ l.fiable = lu.fiable /\ l.relecture = lu.relecture
                   /\ l.horsSujet = lu.horsSujet

\* What a modification in flight wants is sane as a whole, and the row, when it
\* is still there, has the columns it read: verdicts and detachments write others.
AJour(r) == /\ jeu[r.question] # Rien /\ Saine(r.voulu)
            /\ r.question \in Presentes => MemeAvis(jeu[r.question], r.lu)

Fiables == /\ \A q \in Presentes : Saine(jeu[q])
           /\ \A p \in Requetes :
                 /\ Etape(p, "creer") => Saine(requete[p].voulu)
                 /\ Etape(p, "modifier") => AJour(requete[p])

LEMMA SuiteSeule ==
    ASSUME EnVol' <= 1
    PROVE  Seule'
<1> DEFINE S == {p \in Requetes : requete'[p] # Repos}
<1> SUFFICES ASSUME NEW p \in S, NEW q \in S, p # q PROVE FALSE
  BY DEF Seule
<1>1. Cardinality(S) <= 1 /\ IsFiniteSet(S)
  BY RequetesAssumption, FS_Subset DEF EnVol
<1> HIDE DEF S
<1>2. IsFiniteSet({p}) /\ Cardinality({p}) = 1 /\ q \notin {p}
  BY FS_Singleton
<1>3. Cardinality({p} \cup {q}) = 2
  BY <1>2, FS_AddElement
<1>4. Cardinality({p} \cup {q}) <= Cardinality(S)
  BY <1>1, FS_Subset
<1>5. Cardinality(S) \in Nat
  BY <1>1, FS_CardinalityType
<1> QED
  BY <1>1, <1>3, <1>4, <1>5

LEMMA ModificationType ==
    ASSUME Inv, NEW p \in Requetes, Etape(p, "modifier")
    PROVE  LET r == requete[p]
           IN  r.question \in Questions /\ r.lu \in Question /\ r.voulu \in Question
BY DEF Inv, Prevoyantes, Prevoyante, Etape, Repos

\* A step that leaves the requests: each question keeps its flag and what it
\* depends on, goes, or comes in sane.
LEMMA JeuFiable ==
    ASSUME Inv, Fiables, UNCHANGED requete,
           \A q \in Questions :
              \/ jeu'[q] = jeu[q]
              \/ jeu'[q] = Effacee
              \/ q \in Presentes /\ jeu'[q] \in Question /\ MemeAvis(jeu'[q], jeu[q])
              \/ jeu[q] = Rien /\ Saine(jeu'[q])
    PROVE  Fiables'
<1>1. ASSUME NEW q \in Questions, jeu'[q] \notin {Rien, Effacee}
      PROVE  Saine(jeu'[q])
  BY <1>1 DEF Fiables, Presentes, Saine, MemeAvis
<1>2. ASSUME NEW p \in Requetes, Etape(p, "modifier")
      PROVE  AJour(requete[p])'
  <2> DEFINE k == requete[p].question
  <2>1. k \in Questions /\ AJour(requete[p])
    BY <1>2, ModificationType DEF Fiables
  <2>2. jeu'[k] # Rien
    BY <2>1, LignesAssumption DEF AJour
  <2>3. k \in Presentes' => k \in Presentes /\ MemeAvis(jeu'[k], jeu[k])
    BY <2>1 DEF Presentes, AJour, MemeAvis
  <2> QED
    BY <2>1, <2>2, <2>3 DEF AJour, MemeAvis
<1> QED
  BY <1>1, <1>2 DEF Fiables, Presentes, Etape

\* A step of one request alone, which leaves the questions.
LEMMA RequeteFiable ==
    ASSUME Inv, Fiables, Seule', NEW p \in Requetes, NEW r, Aller(p, r), UNCHANGED jeu,
           r.etape = "creer" => Saine(r.voulu),
           r.etape = "modifier" => AJour(r)
    PROVE  Fiables'
<1>1. /\ requete'[p] = r
      /\ \A q \in Requetes \ {p} : requete'[q] = requete[q]
  BY DEF Inv, Prevoyantes, Aller
<1>2. \A q \in Presentes' : Saine(jeu'[q])
  BY DEF Fiables, Presentes
<1>3. ASSUME NEW q \in Requetes
      PROVE  /\ requete'[q].etape = "creer" => Saine(requete'[q].voulu)
             /\ requete'[q].etape = "modifier" => AJour(requete'[q])
  BY <1>1 DEF Fiables, Etape
<1>4. \A q \in Requetes : Etape(q, "modifier")' => AJour(requete[q])'
  BY <1>3 DEF AJour, Presentes, Etape
<1> QED
  BY <1>2, <1>3, <1>4 DEF Fiables, Etape

\* A request that ends: nothing is in flight any more.
LEMMA FinFiable ==
    ASSUME Inv, Seule, NEW p \in Requetes, requete[p] # Repos, Aller(p, Repos),
           \A q \in Questions : jeu'[q] \notin {Rien, Effacee} => Saine(jeu'[q])
    PROVE  Fiables'
<1>1. \A q \in Requetes : requete'[q] = Repos
  BY DEF Inv, Prevoyantes, Aller, Seule
<1> QED
  BY <1>1 DEF Fiables, Presentes, Etape, Repos

\* questions_store.modifier: the flag, in the order of the code, is the one
\* asked for, after what it requires was checked, or the one that nothing in
\* the same body withdraws.
LEMMA ModifieeSaine ==
    ASSUME NEW l \in Question, NEW c \in Corps, Saine(l),
           c.fiable = TRUE => /\ Modifiee(l, c).relecture = "valide"
                              /\ ~Modifiee(l, c).horsSujet
    PROVE  Saine(Modifiee(l, c))
<1>1. c.fiable \in BOOLEAN \cup {Rien} /\ c.horsSujet \in BOOLEAN \cup {Rien}
      /\ c.relecture \in RELECTURES_PAIRE \cup {Rien}
  BY CorpsAssumption
<1>2. /\ Modifiee(l, c).fiable = Fourni(c.fiable, l.fiable /\ ~Retire(c))
      /\ Modifiee(l, c).relecture = Fourni(c.relecture, l.relecture)
      /\ Modifiee(l, c).horsSujet = Fourni(c.horsSujet, l.horsSujet)
  BY DEF Modifiee, Question
<1>3. CASE c.fiable = TRUE
  BY <1>3 DEF Saine
<1>4. CASE c.fiable = Rien /\ c.fiable # TRUE
  <2>1. Modifiee(l, c).fiable = (l.fiable /\ ~Retire(c))
    BY <1>2, <1>4 DEF Fourni
  <2>2. CASE l.fiable /\ ~Retire(c)
    <3>1. l.relecture = "valide" /\ ~l.horsSujet
      BY <2>2 DEF Saine
    <3>2. c.relecture \in {"valide", Rien} /\ c.horsSujet \in {FALSE, Rien}
      BY <1>1, <2>2 DEF Retire, RELECTURES_PAIRE
    <3> QED
      BY <1>2, <3>1, <3>2 DEF Fourni, Saine
  <2> QED
    BY <2>1, <2>2 DEF Saine
<1>5. CASE c.fiable = FALSE /\ c.fiable # Rien
  BY <1>2, <1>5 DEF Fourni, Saine
<1> QED
  BY <1>1, <1>3, <1>4, <1>5

\* The three columns written on the row that was read are those that were wanted.
LEMMA ColonnesAvis ==
    ASSUME NEW l \in Question, NEW lu \in Question, NEW v \in Question, MemeAvis(l, lu)
    PROVE  MemeAvis(Colonnes(l, lu, v), v)
<1>1. DOMAIN l = {"texte", "relecture", "horsSujet", "fiable", "run", "verdict", "mesure"}
  BY DEF Question
<1>2. /\ Colonnes(l, lu, v).fiable = IF v.fiable # lu.fiable THEN v.fiable ELSE l.fiable
      /\ Colonnes(l, lu, v).relecture =
            IF v.relecture # lu.relecture THEN v.relecture ELSE l.relecture
      /\ Colonnes(l, lu, v).horsSujet =
            IF v.horsSujet # lu.horsSujet THEN v.horsSujet ELSE l.horsSujet
  BY <1>1 DEF Colonnes
<1> QED
  BY <1>2 DEF MemeAvis

LEMMA EditionFiable ==
    ASSUME Inv, Fiables, Seule, Seule', NEW p \in Requetes,
           Editer(p) \/ CreerEcrire(p) \/ ModifierEcrire(p)
    PROVE  Fiables'
<1>1. TypeOK
  BY DEF Inv
<1>2. ASSUME NEW t \in Textes, NEW r \in RELECTURES_PAIRE, NEW h \in BOOLEAN,
             CreerLire(p, t, r, h)
      PROVE  Fiables'
  <2> DEFINE v == Nouvelle(t, r, h, Rien)
             d == [etape |-> "creer", voulu |-> v]
  <2>1. Saine(v)
    BY DEF Saine, Nouvelle
  <2>2. Aller(p, d) /\ UNCHANGED jeu
    BY <1>2 DEF CreerLire
  <2> HIDE DEF v
  <2>3. d.etape = "creer" /\ d.voulu = v
    OBVIOUS
  <2> HIDE DEF d
  <2> QED
    BY <2>1, <2>2, <2>3, RequeteFiable
<1>3. ASSUME NEW q \in Questions, NEW c \in Corps, ModifierLire(p, q, c)
      PROVE  Fiables'
  <2> DEFINE v == Modifiee(jeu[q], c)
             d == [etape |-> "modifier", question |-> q, lu |-> jeu[q], voulu |-> v]
  <2>1. jeu[q] \in Question /\ q \in Presentes /\ Saine(jeu[q])
    BY <1>1, <1>3, PresentesType DEF ModifierLire, Fiables
  <2>2. Saine(v)
    BY <1>3, <2>1, ModifieeSaine DEF ModifierLire
  <2>3. Aller(p, d) /\ UNCHANGED jeu
    BY <1>3 DEF ModifierLire
  <2> HIDE DEF v
  <2>4. d.etape = "modifier" /\ AJour(d)
    BY <2>1, <2>2 DEF AJour, MemeAvis, Presentes
  <2> HIDE DEF d
  <2> QED
    BY <2>3, <2>4, RequeteFiable
<1>4. CASE CreerEcrire(p)
  <2>1. PICK q \in Neuves : jeu' = [jeu EXCEPT ![q] = requete[p].voulu]
    BY <1>4 DEF CreerEcrire
  <2>2. Saine(requete[p].voulu) /\ requete[p] # Repos /\ Aller(p, Repos)
    BY <1>4 DEF CreerEcrire, Etape, Fiables, Repos
  <2>3. \A k \in Questions : jeu'[k] \notin {Rien, Effacee} => Saine(jeu'[k])
    BY <1>1, <2>1, <2>2 DEF TypeOK, Neuves, Presentes, Fiables
  <2> QED
    BY <2>2, <2>3, FinFiable
<1>5. CASE ModifierEcrire(p)
  <2> DEFINE r == requete[p]
             q == r.question
  <2>1. /\ r.lu \in Question /\ r.voulu \in Question /\ q \in Questions
        /\ AJour(r) /\ r # Repos /\ Aller(p, Repos)
    BY <1>5, ModificationType DEF ModifierEcrire, Etape, Fiables, Repos
  <2>2. jeu' = IF q \notin Presentes THEN jeu
               ELSE [jeu EXCEPT ![q] = Colonnes(@, r.lu, r.voulu)]
    BY <1>5 DEF ModifierEcrire
  <2>3. q \in Presentes => Saine(Colonnes(jeu[q], r.lu, r.voulu))
    <3> SUFFICES ASSUME q \in Presentes PROVE Saine(Colonnes(jeu[q], r.lu, r.voulu))
      OBVIOUS
    <3>1. jeu[q] \in Question /\ MemeAvis(jeu[q], r.lu) /\ Saine(r.voulu)
      BY <1>1, <2>1, PresentesType DEF AJour
    <3>2. MemeAvis(Colonnes(jeu[q], r.lu, r.voulu), r.voulu)
      BY <2>1, <3>1, ColonnesAvis
    <3> QED
      BY <3>1, <3>2 DEF Saine, MemeAvis
  <2> HIDE DEF r, q
  <2>4. \A k \in Questions : jeu'[k] \notin {Rien, Effacee} => Saine(jeu'[k])
    BY <1>1, <2>1, <2>2, <2>3 DEF TypeOK, Presentes, Fiables
  <2> QED
    BY <2>1, <2>4, FinFiable DEF r
<1> QED
  BY <1>2, <1>3, <1>4, <1>5 DEF Editer

\* The requests of the runs and of the measurements.
LEMMA DemandeFiable ==
    ASSUME Inv, Fiables, Seule', NEW p \in Requetes,
           \/ DemanderRun(p) \/ CreerRun(p) \/ LancerRun(p)
           \/ DemanderMesure(p) \/ (\E validees \in BOOLEAN : Rassembler(p, validees))
           \/ VerifierMesure(p) \/ CreerMesure(p) \/ LancerMesure(p) \/ EchouerRequete(p)
    PROVE  Fiables'
<1>1. UNCHANGED jeu
  BY DEF DemanderRun, CreerRun, LancerRun, DemanderMesure, Rassembler, VerifierMesure,
     CreerMesure, LancerMesure, EchouerRequete
<1>2. \E r : Aller(p, r) /\ r.etape \notin {"creer", "modifier"}
  <2>1. CASE CreerRun(p)
    <3>1. PICK k \in Runs : Aller(p, [etape |-> "lancerRun", run |-> k])
      BY <2>1 DEF CreerRun
    <3> QED
      BY <3>1
  <2>2. CASE CreerMesure(p)
    <3>1. PICK k \in Mesures : Aller(p, [etape |-> "lancerMesure", mesure |-> k])
      BY <2>2 DEF CreerMesure
    <3> QED
      BY <3>1
  <2>3. ASSUME NEW validees \in BOOLEAN, Rassembler(p, validees)
        PROVE  \E r : Aller(p, r) /\ r.etape \notin {"creer", "modifier"}
    BY <2>3 DEF Rassembler, Repos
  <2>4. CASE VerifierMesure(p)
    BY <2>4 DEF VerifierMesure, Repos
  <2>5. CASE DemanderRun(p) \/ LancerRun(p) \/ DemanderMesure(p) \/ LancerMesure(p)
             \/ EchouerRequete(p)
    BY <2>5 DEF DemanderRun, LancerRun, DemanderMesure, LancerMesure, EchouerRequete, Repos
  <2> QED
    BY <2>1, <2>2, <2>3, <2>4, <2>5
<1> QED
  BY <1>1, <1>2, RequeteFiable

\* The tasks write other columns of the questions that are there, and the
\* deletion of a run or of a question withdraws it.
LEMMA TacheFiable ==
    ASSUME Inv, Fiables,
           \/ \E r \in Runs : Generer(r) \/ Rediger(r) \/ RenoncerRun(r) \/ EchouerRun(r)
           \/ \E m \in Mesures : \/ Mesurer(m) \/ SuivreMesure(m) \/ Depasser(m)
                                 \/ EchouerMesure(m)
                                 \/ \E q \in Questions : \/ Evaluer(m, q) \/ Questionner(m, q)
                                                         \/ EchouerQuestion(m, q)
           \/ Supprimer
    PROVE  Fiables'
<1>1. TypeOK /\ TypeOK'
  BY EtapeGarde DEF Inv, Next, Marche, Panne
<1>2. UNCHANGED requete
  BY DEF Generer, EntrerRun, EnregistrerPaires, TerminerRun, Rediger, RenoncerRun, EchouerRun,
     Mesurer, EntrerMesure, Reunir, Conclure, SuivreMesure, Depasser, EchouerMesure, Evaluer,
     Questionner, Ranger, NoterVerdict, EchouerQuestion, Supprimer, SupprimerQuestion,
     SupprimerRun, SupprimerMesure
<1>3. CASE UNCHANGED jeu
  BY <1>2, <1>3, JeuFiable
<1>4. ASSUME NEW r \in Runs, EnregistrerPaires(r)
      PROVE  Fiables'
  <2>1. PICK paires \in SUBSET Neuves : \E t \in [paires -> Textes] :
           jeu' = [q \in Questions |-> IF q \in paires THEN Nouvelle(t[q], "brut", FALSE, r)
                                       ELSE jeu[q]]
    BY <1>4 DEF EnregistrerPaires
  <2>2. \A q \in Questions : \/ jeu'[q] = jeu[q]
                             \/ jeu[q] = Rien /\ Saine(jeu'[q])
    BY <2>1 DEF Neuves, Nouvelle, Saine
  <2> QED
    BY <1>2, <2>2, JeuFiable
<1>5. ASSUME NEW m \in Mesures, NEW q \in Questions, NoterVerdict(m, q)
      PROVE  Fiables'
  <2>1. jeu' = IF q \in Presentes
               THEN [jeu EXCEPT ![q].verdict = mesures[m].liste[q], ![q].mesure = m]
               ELSE jeu
    BY <1>5 DEF NoterVerdict
  <2>2. q \in Presentes => jeu[q] \in Question
    BY <1>1, PresentesType
  <2>3. q \in Presentes => MemeAvis(jeu'[q], jeu[q]) /\ jeu'[q] # Rien /\ jeu'[q] # Effacee
    <3> SUFFICES ASSUME q \in Presentes
                 PROVE  MemeAvis(jeu'[q], jeu[q]) /\ jeu'[q] # Rien /\ jeu'[q] # Effacee
      OBVIOUS
    <3> DEFINE n == [jeu[q] EXCEPT !.verdict = mesures[m].liste[q], !.mesure = m]
    <3>1. jeu'[q] = n
      BY <1>1, <2>1 DEF TypeOK
    <3>2. MemeAvis(n, jeu[q])
      BY <2>2 DEF MemeAvis, Question
    <3>3. mesures[m].liste[q] \in Textes
      BY <1>1, <1>5 DEF TypeOK, Mesure, NoterVerdict, Avancer, Inv, Entiere, Tracee
    <3>4. n \in Question
      BY <2>2, <3>3 DEF Question
    <3> QED
      BY <3>1, <3>2, <3>4, LignesAssumption
  <2>4. \A k \in Questions : \/ jeu'[k] = jeu[k]
                             \/ k = q /\ q \in Presentes
    BY <1>1, <2>1 DEF TypeOK
  <2>5. jeu'[q] \in Question \cup {Rien, Effacee}
    BY <1>1 DEF TypeOK
  <2> QED
    BY <1>2, <2>3, <2>4, <2>5, JeuFiable
<1>6. ASSUME NEW q \in Questions, SupprimerQuestion(q)
      PROVE  Fiables'
  <2>1. \A k \in Questions : jeu'[k] = jeu[k] \/ jeu'[k] = Effacee
    BY <1>1, <1>6 DEF SupprimerQuestion, TypeOK
  <2> QED
    BY <1>2, <2>1, JeuFiable
<1>7. ASSUME NEW r \in Runs, SupprimerRun(r)
      PROVE  Fiables'
  <2>1. \A q \in Questions : \/ jeu'[q] = jeu[q] \/ jeu'[q] = Effacee
                             \/ q \in Presentes /\ jeu'[q] = [jeu[q] EXCEPT !.run = Rien]
    BY <1>7 DEF SupprimerRun
  <2>2. ASSUME NEW q \in Presentes
        PROVE  LET n == [jeu[q] EXCEPT !.run = Rien] IN n \in Question /\ MemeAvis(n, jeu[q])
    <3>1. jeu[q] \in Question
      BY <1>1, PresentesType
    <3> QED
      BY <3>1 DEF Question, MemeAvis
  <2> QED
    BY <1>2, <2>1, <2>2, JeuFiable
<1> QED
  BY <1>3, <1>4, <1>5, <1>6, <1>7
  DEF Generer, EntrerRun, TerminerRun, Rediger, RenoncerRun, EchouerRun,
     Mesurer, EntrerMesure, Reunir, Conclure, SuivreMesure, Depasser, EchouerMesure, Evaluer,
     Questionner, Ranger, EchouerQuestion, Supprimer, SupprimerMesure

\* MCSpec without its bounds: what requests that follow one another may do,
\* among any runs, measurements, refused commits and stops.
Suivies == <<vars, serie>>
PasSuivi == Next /\ serie' = (serie /\ EnVol' <= 1)
SpecSuivie == Init /\ serie = TRUE /\ [][PasSuivi]_Suivies

LEMMA SansBorne == MCSpec => SpecSuivie
<1>1. MCInit => Init /\ serie = TRUE
  BY DEF MCInit
<1>2. [MCNext]_Histoire => [PasSuivi]_Suivies
  BY DEF MCNext, Histoire, PasSuivi, Suivies, Next
<1> QED
  BY <1>1, <1>2, PTL DEF MCSpec, SpecSuivie

\* questions_store: "fiable exige une question validee et pas hors sujet ;
\* rejeter une question lui retire fiable", as long as requests follow one
\* another, whatever tasks write the same rows meanwhile.
THEOREM FiablesToujoursVoulues == SpecSuivie => []FiableVoulue
<1> DEFINE InvSuivi == Inv /\ (serie => Seule /\ Fiables)
<1>1. Init /\ serie = TRUE => InvSuivi
  <2> SUFFICES ASSUME Init PROVE Inv /\ Seule /\ Fiables
    OBVIOUS
  <2> QED
    BY InitInv DEF Init, Seule, Fiables, Presentes, Etape, Repos
<1>2. InvSuivi /\ [PasSuivi]_Suivies => InvSuivi'
  <2> SUFFICES ASSUME InvSuivi, [PasSuivi]_Suivies PROVE InvSuivi'
    OBVIOUS
  <2>1. Inv'
    BY EtapeGarde DEF PasSuivi, Suivies
  <2>2. CASE UNCHANGED Suivies
    BY <2>1, <2>2 DEF Suivies, vars, Seule, Fiables, Presentes, Etape, AJour
  <2>3. CASE PasSuivi /\ ~serie'
    BY <2>1, <2>3
  <2>4. CASE PasSuivi /\ serie'
    <3>1. Inv /\ Seule /\ Fiables /\ Next /\ EnVol' <= 1
      BY <2>4 DEF PasSuivi
    <3>2. Seule'
      BY <3>1, SuiteSeule
    <3>3. ASSUME NEW p \in Requetes, Demander(p) \/ Continuer(p) \/ EchouerRequete(p)
          PROVE  Fiables'
      BY <3>1, <3>2, <3>3, EditionFiable, DemandeFiable DEF Demander, Continuer
    <3>4. ASSUME Arreter PROVE Fiables'
      <4>1. UNCHANGED jeu /\ \A p \in Requetes : requete'[p] = Repos
        BY <3>4 DEF Arreter
      <4>2. \A q \in Presentes' : Saine(jeu'[q])
        BY <3>1, <4>1 DEF Fiables, Presentes
      <4>3. \A p \in Requetes : ~Etape(p, "creer")' /\ ~Etape(p, "modifier")'
        BY <4>1 DEF Etape, Repos
      <4> QED
        BY <4>2, <4>3 DEF Fiables
    <3>5. ASSUME NEW r \in Runs, Generer(r) \/ Rediger(r) \/ RenoncerRun(r) \/ EchouerRun(r)
          PROVE  Fiables'
      BY <3>1, <3>5, TacheFiable
    <3>6. ASSUME NEW m \in Mesures,
                 \/ Mesurer(m) \/ SuivreMesure(m) \/ Depasser(m) \/ EchouerMesure(m)
                 \/ \E q \in Questions : \/ Evaluer(m, q) \/ Questionner(m, q)
                                         \/ EchouerQuestion(m, q)
          PROVE  Fiables'
      BY <3>1, <3>6, TacheFiable
    <3>7. ASSUME Supprimer PROVE Fiables'
      BY <3>1, <3>7, TacheFiable
    <3>8. Fiables'
      BY <3>1, <3>3, <3>4, <3>5, <3>6, <3>7 DEF Next, Marche, Panne
    <3> QED
      BY <2>1, <3>2, <3>8
  <2> QED
    BY <2>2, <2>3, <2>4
<1>3. InvSuivi => FiableVoulue
  BY DEF Fiables, Saine, FiableVoulue, FiableValidee
<1> QED
  BY <1>1, <1>2, <1>3, PTL DEF SpecSuivie
=============================================================================
