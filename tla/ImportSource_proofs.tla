------------------------ MODULE ImportSource_proofs ------------------------
(***************************************************************************)
(* What a source leaves searchable, for any folder, any contents, whatever *)
(* fails and however the folder changes under the passes: nothing readable *)
(* is lost before a pass is cut short, and nothing else is served.         *)
(*                                                                         *)
(* Neither is inductive: both are about what is known at rest, and a pass  *)
(* works from what it knew when it began.  Sus says what a set of notes is *)
(* worth: the content of the version it gives, unless the document changed *)
(* since.  The same notes are followed from the configuration to the pass, *)
(* through the sorting (Triee), and back.                                  *)
(***************************************************************************)
EXTENDS ImportSource, TLAPS

\* Content c was that of document d when it had this version.
Exacte(d, version, c) ==
    /\ version <= espace[d].version
    /\ version = espace[d].version => c = espace[d].contenu

\* A note on d: it is searchable, will be looked at again, or cannot be read.
Servie(d, f) == /\ f.erreur = "aucune" => <<d, f.contenu>> \in index
                /\ f.erreur = "definitive" => f.contenu \in Illisibles

Su(d, f) == Exacte(d, f.version, f.contenu) /\ Servie(d, f)

\* A document was discarded for its format, or for one that has its content.
Ecartee(d, e, docs) ==
    /\ e.version <= espace[d].version
    /\ e.version = espace[d].version =>
          /\ e.doublon_de = Aucun => espace[d].contenu \in Irrecevables
          /\ e.doublon_de \in DOMAIN docs => docs[e.doublon_de].contenu = espace[d].contenu

Fondes(ecartes, docs) == \A d \in DOMAIN ecartes : Ecartee(d, ecartes[d], docs)

Sus(docs, ecartes) == /\ \A d \in DOMAIN docs : Su(d, docs[d])
                      /\ Fondes(ecartes, docs)

\* A pass that has not sorted yet: each listed document is in one place.
Rangee(r) ==
    /\ r.etape # "telecharger" =>
          r.stables \cup r.a_relire \cup DOMAIN r.recus \cup r.identiques \cup r.non_relus = {}
    /\ r.a_relire \cup DOMAIN r.recus \cup r.identiques \cup r.non_relus \subseteq DOMAIN r.liste
    /\ r.stables \subseteq DOMAIN r.connus \cap DOMAIN r.liste
    /\ r.identiques \subseteq DOMAIN r.connus
    /\ DOMAIN r.recus \cap (r.stables \cup r.identiques \cup r.non_relus) = {}
    /\ r.stables \cap r.identiques = {}
    /\ r.a_relire \cap (r.stables \cup DOMAIN r.recus \cup r.identiques \cup r.non_relus) = {}

\* What it has read is what the folder holds, or has held.
Lue(r) ==
    /\ \A d \in DOMAIN r.liste : r.liste[d] <= espace[d].version
    /\ \A d \in DOMAIN r.recus : Exacte(d, r.liste[d], r.recus[d])
    /\ \A d \in r.identiques : Exacte(d, r.liste[d], r.connus[d].contenu)

\* A pass that has sorted: what it keeps is known, or is to be sent.
Triee(r) ==
    /\ \A d \in DOMAIN r.gardes : /\ Exacte(d, r.gardes[d].version, r.gardes[d].contenu)
                                  /\ d \notin r.a_envoyer => Servie(d, r.gardes[d])
    /\ Fondes(r.ecartes, r.gardes)
    /\ \A i \in r.a_retirer : i[1] \notin DOMAIN r.gardes \ r.a_envoyer

Rangement == /\ passe \in Avant => Rangee(passe)
             /\ passe \in Apres => /\ passe.a_envoyer \subseteq DOMAIN passe.gardes
                                   /\ passe.etape # "retirer" => passe.a_retirer = {}
                                   /\ passe.etape = "ecrire" => passe.a_envoyer = {}

Savoir ==
    depuis = 0 =>
        /\ passe \notin Apres => Sus(cfg.documents, cfg.ecartes)
        /\ passe \in Avant => Lue(passe)
        /\ passe \in Avant /\ passe.etape = "telecharger" => Sus(passe.connus, passe.rejets)
        /\ passe \in Apres /\ ~passe.partiel => Triee(passe)

Inv == TypeOK /\ Rangement /\ Savoir

\* What OpenRAG holds or will hold is what these notes say.
Porte(docs) == \A i \in index \cup lecture :
                  i[1] \in DOMAIN docs /\ i[2] = docs[i[1]].contenu

\* Every removal succeeds, and no task of OpenRAG is lost.
SansReste == "perdue" \notin Defaillances /\ "retrait" \notin Defaillances /\ "file" \notin Defaillances

Listes == /\ passe # Repos => cfg.relie /\ cfg.travail = "en_cours"
          /\ ~cfg.relie => DOMAIN cfg.documents = {}
          /\ AuRepos => sources = DOMAIN cfg.documents
          /\ passe \in Apres /\ passe.etape = "ecrire" => sources = DOMAIN passe.gardes

Portes ==
    depuis = 0 =>
        /\ passe \notin Apres => Porte(cfg.documents)
        /\ passe \in Avant /\ passe.etape = "telecharger" => Porte(passe.connus)
        /\ passe \in Apres /\ ~passe.partiel =>
              \A i \in index \cup lecture :
                  \/ i \in passe.a_retirer
                  \/ /\ i[1] \in DOMAIN passe.gardes \ passe.a_envoyer
                     /\ i[2] = passe.gardes[i[1]].contenu

InvPorte == Inv /\ Listes /\ Portes

-----------------------------------------------------------------------------
(* Dictionaries.                                                           *)

LEMMA PartielleDe ==
    ASSUME NEW T, NEW f \in Partielles(T)
    PROVE  /\ f \in [DOMAIN f -> T]
           /\ \A d \in DOMAIN f : d \in Docs /\ f[d] \in T
BY DEF Partielles

LEMMA EnPartielle ==
    ASSUME NEW T, NEW S \in SUBSET Docs, NEW f \in [S -> T]
    PROVE  f \in Partielles(T)
BY DEF Partielles

LEMMA VidePartielle ==
    ASSUME NEW T
    PROVE  Vide \in Partielles(T) /\ DOMAIN Vide = {}
<1>1. DOMAIN Vide = {} /\ Vide \in [{} -> T]
  BY DEF Vide
<1> QED
  BY <1>1, EnPartielle

LEMMA ListeType == TypeOK => Liste \in Partielles(Versions) /\ DOMAIN Liste = presents
<1> SUFFICES ASSUME TypeOK PROVE Liste \in Partielles(Versions) /\ DOMAIN Liste = presents
  OBVIOUS
<1>1. Liste \in [presents -> Versions] /\ presents \in SUBSET Docs
  BY DEF TypeOK, Liste
<1> QED
  BY <1>1, EnPartielle

LEMMA RattrapesType ==
    ASSUME NEW docs \in Partielles(Fiche)
    PROVE  /\ Rattrapes(docs) \in Partielles(Fiche)
           /\ DOMAIN Rattrapes(docs) = DOMAIN docs
           /\ \A d \in DOMAIN docs :
                 /\ Rattrapes(docs)[d].contenu = docs[d].contenu
                 /\ Rattrapes(docs)[d].version = docs[d].version
                 /\ \/ Rattrapes(docs)[d].erreur = docs[d].erreur
                    \/ Rattrapes(docs)[d].erreur = "aucune" /\ <<d, docs[d].contenu>> \in index
<1>1. \A d \in DOMAIN docs : d \in Docs /\ docs[d] \in Fiche
  BY PartielleDe
<1>2. DOMAIN docs \in SUBSET Docs
  BY <1>1
<1>3. ASSUME NEW d \in DOMAIN docs
      PROVE  /\ Rattrapes(docs)[d] \in Fiche
             /\ Rattrapes(docs)[d].contenu = docs[d].contenu
             /\ Rattrapes(docs)[d].version = docs[d].version
             /\ \/ Rattrapes(docs)[d].erreur = docs[d].erreur
                \/ Rattrapes(docs)[d].erreur = "aucune" /\ <<d, docs[d].contenu>> \in index
  BY <1>1 DEF Rattrapes, Fiche
<1>4. Rattrapes(docs) \in [DOMAIN docs -> Fiche]
  BY <1>3 DEF Rattrapes
<1> QED
  BY <1>2, <1>3, <1>4, EnPartielle

LEMMA CompleteeType ==
    ASSUME NEW T, NEW f \in Partielles(T), NEW g \in Partielles(T)
    PROVE  Completee(f, g) \in Partielles(T)
<1>1. /\ \A d \in DOMAIN f : d \in Docs /\ f[d] \in T
      /\ \A d \in DOMAIN g : d \in Docs /\ g[d] \in T
  BY PartielleDe
<1>2. Completee(f, g) \in [DOMAIN f \cup DOMAIN g -> T]
  BY <1>1 DEF Completee
<1>3. DOMAIN f \cup DOMAIN g \in SUBSET Docs
  BY <1>1
<1> QED
  BY <1>2, <1>3, EnPartielle

LEMMA CompleteeValeurs ==
    ASSUME NEW f, NEW g
    PROVE  /\ DOMAIN Completee(f, g) = DOMAIN f \cup DOMAIN g
           /\ \A d \in DOMAIN f : Completee(f, g)[d] = f[d]
           /\ \A d \in DOMAIN g \ DOMAIN f : Completee(f, g)[d] = g[d]
BY DEF Completee

LEMMA RestreinteType ==
    ASSUME NEW T, NEW f \in Partielles(T), NEW S
    PROVE  Restrict(f, DOMAIN f \ S) \in Partielles(T)
<1>1. \A d \in DOMAIN f : d \in Docs /\ f[d] \in T
  BY PartielleDe
<1>2. Restrict(f, DOMAIN f \ S) \in [DOMAIN f \ S -> T]
  BY <1>1 DEF Restrict
<1>3. DOMAIN f \ S \in SUBSET Docs
  BY <1>1
<1> QED
  BY <1>2, <1>3, EnPartielle

-----------------------------------------------------------------------------
(* Shapes.                                                                 *)

\* The step a pass is at tells what it holds.
LEMMA EtapesDe ==
    ASSUME NEW r \in {Repos} \cup Avant \cup Apres
    PROVE  /\ r \in Avant <=> r.etape \in {"lister", "comparer", "telecharger"}
           /\ r \in Apres <=> r.etape \in {"retirer", "envoyer", "noter", "ecrire"}
           /\ r = Repos <=> r.etape = "repos"
<1>1. Repos.etape = "repos"
  BY DEF Repos
<1>2. r \in Avant => r.etape \in {"lister", "comparer", "telecharger"}
  BY DEF Avant
<1>3. r \in Apres => r.etape \in {"retirer", "envoyer", "noter", "ecrire"}
  BY DEF Apres
<1> QED
  BY <1>1, <1>2, <1>3

LEMMA Etapes ==
    /\ TypeOK => /\ passe \in Avant <=> passe.etape \in {"lister", "comparer", "telecharger"}
                 /\ passe \in Apres <=> passe.etape \in {"retirer", "envoyer", "noter", "ecrire"}
                 /\ passe = Repos <=> passe.etape = "repos"
    /\ TypeOK' => /\ passe' \in Avant <=> passe'.etape \in {"lister", "comparer", "telecharger"}
                  /\ passe' \in Apres <=> passe'.etape \in {"retirer", "envoyer", "noter", "ecrire"}
                  /\ passe' = Repos <=> passe'.etape = "repos"
<1>1. (TypeOK => passe \in {Repos} \cup Avant \cup Apres)
      /\ (TypeOK' => passe' \in {Repos} \cup Avant \cup Apres)
  BY DEF TypeOK
<1> QED
  BY <1>1, EtapesDe

LEMMA LancerPas ==
    ASSUME TypeOK, NEW complet \in BOOLEAN, NEW reprendre \in SUBSET Docs, NEW prete \in BOOLEAN,
           Lancer(complet, reprendre, prete)
    PROVE  /\ passe' \in Avant /\ Rangee(passe')
           /\ passe'.etape \in {"lister", "comparer"}
           /\ passe'.liste \in {Vide, Liste}
           /\ DOMAIN passe'.recus = {} /\ passe'.identiques = {}
<1>1. /\ Vide \in Partielles(Versions) /\ Vide \in Partielles(Fiche)
      /\ Vide \in Partielles(Ecart) /\ Vide \in Partielles(Contenus) /\ DOMAIN Vide = {}
  BY VidePartielle
<1>2. Liste \in Partielles(Versions)
  BY ListeType
<1>3. passe' \in Avant
  BY <1>1, <1>2 DEF Lancer, Avant
<1> QED
  BY <1>1, <1>3 DEF Lancer, Rangee

\* The routes begin a pass, or catch up with late readings.
LEMMA RouteType ==
    ASSUME TypeOK, Route
    PROVE  TypeOK' /\ Rangement'
<1>1. CASE Importer
  <2>1. PICK prete \in BOOLEAN : Lancer(FALSE, {}, prete)
    BY <1>1 DEF Importer
  <2>2. passe' \in Avant /\ Rangee(passe')
    BY <2>1, LancerPas
  <2>3. Vide \in Partielles(Fiche) /\ Vide \in Partielles(Ecart)
    BY VidePartielle
  <2>4. TypeOK'
    BY <1>1, <2>2, <2>3 DEF Importer, TypeOK, Etats, dehors, openrag
  <2> QED
    BY <2>2, <2>4, Etapes DEF Rangement
<1>2. ASSUME NEW complet \in BOOLEAN, NEW reprendre \in SUBSET Docs,
             Synchroniser(complet, reprendre)
      PROVE  TypeOK' /\ Rangement'
  <2>1. PICK prete \in BOOLEAN : Lancer(complet, reprendre, prete)
    BY <1>2 DEF Synchroniser
  <2>2. passe' \in Avant /\ Rangee(passe')
    BY <2>1, LancerPas
  <2>3. depuis' \in 0 .. MaxPasses + 1
    BY <1>2, BornesImportAssumption DEF Synchroniser, TypeOK
  <2>4. TypeOK'
    BY <1>2, <2>2, <2>3 DEF Synchroniser, TypeOK, Etats, dehors, openrag
  <2> QED
    BY <2>2, <2>4, Etapes DEF Rangement
<1>3. CASE RelireLaQualite
  <2>1. Rattrapes(cfg.documents) \in Partielles(Fiche)
    BY RattrapesType DEF TypeOK
  <2>2. TypeOK'
    BY <1>3, <2>1 DEF RelireLaQualite, TypeOK, Etats, dehors, openrag
  <2> QED
    BY <1>3, <2>2, Etapes DEF Rangement, RelireLaQualite
<1> QED
  BY <1>1, <1>2, <1>3 DEF Route

LEMMA EchouerType ==
    ASSUME TypeOK, Echouer, UNCHANGED <<dehors, sources, openrag>>
    PROVE  TypeOK' /\ Rangement'
<1>1. TypeOK'
  BY DEF Echouer, TypeOK, Etats, dehors, openrag
<1> QED
  BY <1>1, Etapes DEF Echouer, Rangement

\* What a pass that has not sorted does changes itself only.
LEMMA AvantType ==
    ASSUME TypeOK, passe' \in Avant, Rangee(passe'), UNCHANGED <<dehors, cfg, sources, openrag, depuis>>
    PROVE  TypeOK' /\ Rangement'
<1>1. TypeOK'
  BY DEF TypeOK, dehors, openrag
<1> QED
  BY <1>1, Etapes DEF Rangement

LEMMA ListerType ==
    ASSUME TypeOK, Rangement, Lister
    PROVE  TypeOK' /\ Rangement'
<1>1. passe \in Avant /\ Rangee(passe)
  BY Etapes DEF Lister, Rangement
<1>2. CASE Echouer
  BY <1>2, EchouerType DEF Lister
<1>3. CASE ~Echouer
  <2>1. Liste \in Partielles(Versions)
    BY ListeType
  <2>2. passe' = [passe EXCEPT !.etape = "comparer", !.liste = Liste]
    BY <1>3 DEF Lister
  <2>3. passe' \in Avant
    BY <1>1, <2>1, <2>2 DEF Avant
  <2>5. Rangee(passe')
    BY <1>1, <2>2, <2>3 DEF Rangee, Lister, Avant
  <2> QED
    BY <1>3, <2>3, <2>5, AvantType DEF Lister
<1> QED
  BY <1>2, <1>3

LEMMA ComparerPas ==
    ASSUME TypeOK, Rangement, Comparer
    PROVE  /\ passe \in Avant /\ passe' \in Avant /\ Rangee(passe')
           /\ passe'.etape = "telecharger" /\ passe'.liste = passe.liste
           /\ passe'.connus \in {cfg.documents, Rattrapes(cfg.documents)}
           /\ passe'.rejets = cfg.ecartes
           /\ DOMAIN passe'.recus = {} /\ passe'.identiques = {}
           /\ UNCHANGED <<dehors, cfg, sources, openrag, depuis>>
<1>1. passe \in Avant /\ Rangee(passe)
  BY Etapes DEF Comparer, Rangement
<1>2. PICK connus \in {cfg.documents, Rattrapes(cfg.documents)} :
         LET stables == Stables(passe.liste, connus, passe.complet, passe.reprendre)
             toujours == ToujoursEcartes(passe.liste, connus, cfg.ecartes, passe.complet, stables)
         IN  passe' = [passe EXCEPT
                 !.etape = "telecharger", !.connus = connus, !.stables = stables,
                 !.rejets = cfg.ecartes,
                 !.a_relire = DOMAIN passe.liste \ (stables \cup toujours)]
  BY DEF Comparer
<1> DEFINE stables == Stables(passe.liste, connus, passe.complet, passe.reprendre)
           toujours == ToujoursEcartes(passe.liste, connus, cfg.ecartes, passe.complet, stables)
           relire == DOMAIN passe.liste \ (stables \cup toujours)
<1>3. connus \in Partielles(Fiche)
  BY RattrapesType DEF TypeOK
<1>4. passe.liste \in Partielles(Versions)
  BY <1>1 DEF Avant
<1>5. relire \in SUBSET Docs /\ stables \in SUBSET Docs
  BY <1>4, PartielleDe DEF Stables
<1>6. stables \subseteq DOMAIN connus \cap DOMAIN passe.liste
  BY DEF Stables, ARelire
<1>7. relire \cap stables = {} /\ relire \subseteq DOMAIN passe.liste
  OBVIOUS
<1>8. passe' = [passe EXCEPT !.etape = "telecharger", !.connus = connus, !.stables = stables,
                             !.rejets = cfg.ecartes, !.a_relire = relire]
  BY <1>2
<1> HIDE DEF stables, toujours, relire
<1>9. passe' \in Avant
  BY <1>1, <1>3, <1>5, <1>8 DEF Avant, TypeOK
<1>10. /\ passe'.liste = passe.liste /\ passe'.connus = connus /\ passe'.rejets = cfg.ecartes
       /\ passe'.etape = "telecharger" /\ passe'.stables = stables /\ passe'.a_relire = relire
       /\ passe'.recus = passe.recus /\ passe'.identiques = passe.identiques
       /\ passe'.non_relus = passe.non_relus
  BY <1>1, <1>8 DEF Avant
<1>11. passe.a_relire \cup DOMAIN passe.recus \cup passe.identiques \cup passe.non_relus = {}
  BY <1>1 DEF Rangee, Comparer
<1>12. Rangee(passe')
  BY <1>6, <1>7, <1>10, <1>11 DEF Rangee
<1> QED
  BY <1>1, <1>9, <1>10, <1>11, <1>12 DEF Comparer

\* What one document becomes once it is downloaded.
LEMMA TelechargerPas ==
    ASSUME TypeOK, Rangement, NEW d \in Docs, Telecharger(d)
    PROVE  /\ passe \in Avant /\ passe' \in Avant /\ Rangee(passe')
           /\ passe'.etape = "telecharger" /\ passe.etape = "telecharger"
           /\ passe'.liste = passe.liste /\ passe'.connus = passe.connus
           /\ passe'.rejets = passe.rejets
           /\ \A e \in DOMAIN passe'.recus :
                 \/ e \in DOMAIN passe.recus /\ passe'.recus[e] = passe.recus[e]
                 \/ e = d /\ passe'.recus[e] = espace[d].contenu
           /\ \A e \in passe'.identiques :
                 \/ e \in passe.identiques
                 \/ e = d /\ passe.connus[d].contenu = espace[d].contenu
           /\ UNCHANGED <<dehors, cfg, sources, openrag, depuis>>
<1> DEFINE c == espace[d].contenu
           lu == [passe EXCEPT !.a_relire = @ \ {d}]
           recus == [e \in DOMAIN passe.recus \cup {d} |-> IF e = d THEN c ELSE passe.recus[e]]
<1>1. passe \in Avant /\ Rangee(passe) /\ d \in passe.a_relire /\ passe.etape = "telecharger"
  BY Etapes DEF Telecharger, Rangement
<1>2. /\ lu \in Avant /\ Rangee(lu) /\ d \in DOMAIN passe.liste
      /\ d \notin DOMAIN passe.recus \cup passe.stables \cup passe.identiques \cup passe.non_relus
      /\ lu.etape = "telecharger" /\ lu.liste = passe.liste /\ lu.connus = passe.connus
      /\ lu.rejets = passe.rejets /\ lu.recus = passe.recus /\ lu.identiques = passe.identiques
      /\ lu.non_relus = passe.non_relus /\ lu.stables = passe.stables /\ d \notin lu.a_relire
  BY <1>1 DEF Avant, Rangee
<1> HIDE DEF lu
<1>3. CASE passe' = lu
  BY <1>1, <1>2, <1>3 DEF Telecharger
<1>4. CASE passe' = [lu EXCEPT !.identiques = @ \cup {d}] /\ Identique(d, c)
  <2>1. d \in DOMAIN passe.connus /\ passe.connus[d].contenu = c
    BY <1>4 DEF Identique
  <2>2. passe' \in Avant /\ Rangee(passe')
    BY <1>2, <1>4, <2>1 DEF Avant, Rangee
  <2> QED
    BY <1>1, <1>2, <1>4, <2>1, <2>2 DEF Avant, Telecharger
<1>5. CASE passe' = [lu EXCEPT !.recus = recus]
  <2>1. recus \in Partielles(Contenus)
    <3>1. passe.recus \in Partielles(Contenus)
      BY <1>1 DEF Avant
    <3>2. c \in Contenus
      BY DEF TypeOK
    <3>3. DOMAIN passe.recus \cup {d} \in SUBSET Docs
          /\ recus \in [DOMAIN passe.recus \cup {d} -> Contenus]
      BY <3>1, <3>2, PartielleDe
    <3> HIDE DEF recus
    <3> QED
      BY <3>3, EnPartielle
  <2>2. /\ DOMAIN recus = DOMAIN passe.recus \cup {d} /\ recus[d] = c
        /\ \A e \in DOMAIN passe.recus : recus[e] = passe.recus[e]
    BY <1>2
  <2> HIDE DEF recus, c
  <2>3. passe' \in Avant
    BY <1>2, <1>5, <2>1 DEF Avant
  <2>4. /\ passe'.recus = recus /\ passe'.liste = passe.liste /\ passe'.connus = passe.connus
        /\ passe'.rejets = passe.rejets /\ passe'.identiques = passe.identiques
        /\ passe'.non_relus = passe.non_relus /\ passe'.stables = passe.stables
        /\ passe'.a_relire = lu.a_relire /\ passe'.etape = "telecharger"
    BY <1>2, <1>5 DEF Avant
  <2>5. Rangee(passe')
    BY <1>2, <2>2, <2>4 DEF Rangee
  <2>6. UNCHANGED <<dehors, cfg, sources, openrag, depuis>>
    BY DEF Telecharger
  <2> QED
    BY <1>1, <2>2, <2>3, <2>4, <2>5, <2>6 DEF c
<1>6. CASE passe' = [lu EXCEPT !.non_relus = @ \cup {d}]
  <2>1. passe' \in Avant /\ Rangee(passe')
    BY <1>2, <1>6 DEF Avant, Rangee
  <2> QED
    BY <1>1, <1>2, <1>6, <2>1 DEF Avant, Telecharger
<1> QED
  BY <1>2, <1>3, <1>4, <1>5, <1>6 DEF Telecharger, lu

LEMMA CouperPas ==
    ASSUME TypeOK, Rangement, Couper
    PROVE  /\ passe \in Avant /\ passe' \in Avant /\ Rangee(passe')
           /\ passe'.etape = "telecharger" /\ passe.etape = "telecharger"
           /\ passe'.liste = passe.liste /\ passe'.connus = passe.connus
           /\ passe'.rejets = passe.rejets /\ passe'.recus = passe.recus
           /\ passe'.identiques = passe.identiques
           /\ UNCHANGED <<dehors, cfg, sources, openrag, depuis>>
<1>1. passe \in Avant /\ Rangee(passe)
  BY Etapes DEF Couper, Rangement
<1>2. passe' \in Avant /\ Rangee(passe')
  BY <1>1 DEF Couper, Avant, Rangee
<1> QED
  BY <1>1, <1>2 DEF Couper, Avant

-----------------------------------------------------------------------------
(* The sorting.                                                            *)

\* What is kept without being sent is known, with the content it had.
LEMMA ConservesType ==
    ASSUME passe \in Avant, Rangee(passe)
    PROVE  /\ Conserves \in Partielles(Fiche)
           /\ DOMAIN Conserves \cap DOMAIN passe.recus = {}
           /\ passe.stables \subseteq DOMAIN Conserves
           /\ \A d \in DOMAIN Conserves :
                 /\ d \in DOMAIN passe.connus
                 /\ Conserves[d].contenu = passe.connus[d].contenu
                 /\ Conserves[d].erreur = passe.connus[d].erreur
                 /\ \/ d \in passe.identiques /\ Conserves[d].version = passe.liste[d]
                    \/ Conserves[d].version = passe.connus[d].version
<1> DEFINE S == passe.stables \cup passe.identiques \cup (passe.non_relus \cap DOMAIN passe.connus)
<1>1. /\ passe.connus \in Partielles(Fiche) /\ passe.liste \in Partielles(Versions)
      /\ S \in SUBSET Docs
  BY DEF Avant
<1>2. /\ \A d \in DOMAIN passe.connus : passe.connus[d] \in Fiche
      /\ \A d \in DOMAIN passe.liste : passe.liste[d] \in Versions
  BY <1>1, PartielleDe
<1>3. /\ S \subseteq DOMAIN passe.connus /\ passe.identiques \subseteq DOMAIN passe.liste
      /\ S \cap DOMAIN passe.recus = {}
  BY DEF Rangee
<1>4. DOMAIN Conserves = S
  BY DEF Conserves
<1>5. ASSUME NEW d \in S
      PROVE  /\ Conserves[d] \in Fiche
             /\ Conserves[d].contenu = passe.connus[d].contenu
             /\ Conserves[d].erreur = passe.connus[d].erreur
             /\ \/ d \in passe.identiques /\ Conserves[d].version = passe.liste[d]
                \/ Conserves[d].version = passe.connus[d].version
  <2>1. Conserves[d] = IF d \in passe.identiques
                       THEN [passe.connus[d] EXCEPT !.version = passe.liste[d]]
                       ELSE passe.connus[d]
    BY DEF Conserves
  <2> QED
    BY <1>2, <1>3, <2>1 DEF Fiche
<1>6. Conserves \in [S -> Fiche]
  BY <1>5 DEF Conserves
<1> QED
  BY <1>1, <1>3, <1>4, <1>5, <1>6, EnPartielle

\* What a pass that was not stopped decides: what it sends was received, the
\* rest of what it keeps was known, and each document it discards is discarded
\* for its format or has its content in what it keeps.
LEMMA TrierPas ==
    ASSUME TypeOK, Rangement, Trier
    PROVE  /\ passe \in Avant /\ Rangee(passe) /\ passe.etape = "telecharger"
           /\ passe' \in Apres /\ passe'.etape = "retirer"
           /\ passe'.a_envoyer \subseteq DOMAIN passe'.gardes
           /\ UNCHANGED <<dehors, cfg, sources, openrag, depuis>>
           /\ ~passe'.partiel =>
                 /\ passe'.a_envoyer \subseteq DOMAIN passe.recus
                 /\ \A d \in passe'.a_envoyer :
                       /\ passe'.gardes[d].contenu = passe.recus[d]
                       /\ passe'.gardes[d].version = passe.liste[d]
                 /\ DOMAIN passe'.gardes = passe'.a_envoyer \cup DOMAIN Conserves
                 /\ \A d \in DOMAIN Conserves : passe'.gardes[d] = Conserves[d]
                 /\ \A d \in DOMAIN passe'.ecartes :
                       \/ /\ d \in ToujoursEcartes(passe.liste, passe.connus, passe.rejets,
                                                   passe.complet, passe.stables)
                          /\ passe'.ecartes[d] = passe.rejets[d]
                       \/ /\ d \in DOMAIN passe.recus
                          /\ passe'.ecartes[d].version = passe.liste[d]
                          /\ \/ /\ passe'.ecartes[d].doublon_de = Aucun
                                /\ passe.recus[d] \in Irrecevables
                             \/ /\ passe'.ecartes[d].doublon_de \in DOMAIN passe'.gardes
                                /\ passe'.gardes[passe'.ecartes[d].doublon_de].contenu
                                      = passe.recus[d]
                 /\ passe'.a_retirer =
                       {AncienIdentifiant(d) : d \in
                           (DOMAIN passe.recus \cap DOMAIN passe.connus)
                              \cup (DOMAIN passe.connus \ DOMAIN passe'.gardes)}
<1>1. passe \in Avant /\ Rangee(passe) /\ passe.etape = "telecharger"
  BY Etapes DEF Trier, Rangement
<1>2. PICK originaux \in [Contenus -> Docs \cup {Aucun}] :
         LET porteurs == {originaux[c] : c \in Nouveaux}
             nouvelles == [d \in porteurs |-> [contenu |-> passe.recus[d],
                              version |-> passe.liste[d], erreur |-> "aucune"]]
             vus == Completee(nouvelles, Conserves)
             ecartes == Ecartes(porteurs, originaux)
         IN  /\ \A c \in Contenus :
                   IF c \in Nouveaux THEN originaux[c] \in Candidats(c)
                   ELSE IF \E d \in DOMAIN Conserves : Conserves[d].contenu = c
                   THEN originaux[c] \in {d \in DOMAIN Conserves : Conserves[d].contenu = c}
                   ELSE originaux[c] = Aucun
             /\ passe' = [etape |-> "retirer", partiel |-> passe.partiel,
                    gardes |-> IF passe.partiel THEN Completee(vus, passe.connus) ELSE vus,
                    ecartes |-> IF passe.partiel
                       THEN Completee(ecartes, Restrict(passe.rejets,
                               DOMAIN passe.rejets \ (DOMAIN vus \cup DOMAIN passe.connus)))
                       ELSE ecartes,
                    a_retirer |-> ARetirer(vus, porteurs),
                    a_envoyer |-> porteurs]
  BY DEF Trier
<1> DEFINE porteurs == {originaux[c] : c \in Nouveaux}
           nouvelles == [d \in porteurs |-> [contenu |-> passe.recus[d],
                              version |-> passe.liste[d], erreur |-> "aucune"]]
           vus == Completee(nouvelles, Conserves)
           ecartes == Ecartes(porteurs, originaux)
           toujours == ToujoursEcartes(passe.liste, passe.connus, passe.rejets,
                                       passe.complet, passe.stables)
<1>3. /\ passe.recus \in Partielles(Contenus) /\ passe.liste \in Partielles(Versions)
      /\ passe.connus \in Partielles(Fiche) /\ passe.rejets \in Partielles(Ecart)
      /\ passe.partiel \in BOOLEAN
  BY <1>1 DEF Avant
<1>4. /\ \A d \in DOMAIN passe.recus : d \in Docs /\ passe.recus[d] \in Contenus
      /\ \A d \in DOMAIN passe.liste : d \in Docs /\ passe.liste[d] \in Versions
      /\ \A d \in DOMAIN passe.connus : d \in Docs /\ passe.connus[d] \in Fiche
      /\ \A d \in DOMAIN passe.rejets : d \in Docs /\ passe.rejets[d] \in Ecart
      /\ DOMAIN passe.recus \subseteq DOMAIN passe.liste
  BY <1>1, <1>3, PartielleDe DEF Rangee
<1>5. \A c \in Nouveaux : /\ c \in Contenus
                          /\ originaux[c] \in DOMAIN passe.recus
                          /\ passe.recus[originaux[c]] = c
  BY <1>2, <1>4 DEF Nouveaux, Candidats
<1>6. porteurs \subseteq DOMAIN passe.recus /\ porteurs \in SUBSET Docs
  BY <1>4, <1>5
<1>7. /\ nouvelles \in Partielles(Fiche) /\ DOMAIN nouvelles = porteurs
      /\ \A d \in porteurs : /\ nouvelles[d].contenu = passe.recus[d]
                             /\ nouvelles[d].version = passe.liste[d]
  <2>1. \A d \in porteurs : [contenu |-> passe.recus[d], version |-> passe.liste[d],
                             erreur |-> "aucune"] \in Fiche
    BY <1>4, <1>6 DEF Fiche
  <2> HIDE DEF porteurs
  <2>2. nouvelles \in [porteurs -> Fiche]
    BY <2>1
  <2>3. nouvelles \in Partielles(Fiche)
    <3> HIDE DEF nouvelles
    <3> QED
      BY <1>6, <2>2, EnPartielle
  <2> QED
    BY <2>3
<1> HIDE DEF nouvelles
<1>8. /\ Conserves \in Partielles(Fiche) /\ DOMAIN Conserves \cap DOMAIN passe.recus = {}
      /\ \A d \in DOMAIN Conserves : Conserves[d].contenu = passe.connus[d].contenu
  BY <1>1, ConservesType
<1>9. /\ vus \in Partielles(Fiche) /\ DOMAIN vus = porteurs \cup DOMAIN Conserves
      /\ \A d \in porteurs : vus[d] = nouvelles[d]
      /\ \A d \in DOMAIN Conserves : vus[d] = Conserves[d]
  <2>1. /\ DOMAIN vus = DOMAIN nouvelles \cup DOMAIN Conserves
        /\ \A d \in DOMAIN nouvelles : vus[d] = nouvelles[d]
        /\ \A d \in DOMAIN Conserves \ DOMAIN nouvelles : vus[d] = Conserves[d]
    BY CompleteeValeurs
  <2>2. vus \in Partielles(Fiche)
    BY <1>7, <1>8, CompleteeType
  <2>3. DOMAIN Conserves \cap DOMAIN nouvelles = {}
    BY <1>6, <1>7, <1>8
  <2> HIDE DEF vus, porteurs
  <2> QED
    BY <1>7, <2>1, <2>2, <2>3
<1> HIDE DEF vus
\* A document that is discarded.
<1>10. ASSUME NEW d \in DOMAIN passe.recus \ porteurs
       PROVE  LET o == IF passe.recus[d] \in Irrecevables THEN Aucun
                       ELSE originaux[passe.recus[d]]
              IN  /\ [version |-> passe.liste[d], doublon_de |-> o] \in Ecart
                  /\ \/ o = Aucun /\ passe.recus[d] \in Irrecevables
                     \/ o \in DOMAIN vus /\ vus[o].contenu = passe.recus[d]
  <2> DEFINE c == passe.recus[d]
  <2>1. c \in Contenus /\ originaux[c] \in Docs \cup {Aucun} /\ passe.liste[d] \in Versions
    BY <1>4
  <2>2. CASE c \in Irrecevables
    BY <2>1, <2>2 DEF Ecart
  <2>3. CASE c \in Nouveaux
    <3>1. originaux[c] \in porteurs /\ passe.recus[originaux[c]] = c
      BY <1>5, <2>3
    <3>2. vus[originaux[c]].contenu = c
      BY <1>7, <1>9, <3>1
    <3> QED
      BY <1>9, <2>1, <2>3, <3>1, <3>2 DEF Ecart, Nouveaux
  <2>4. CASE c \notin Irrecevables /\ c \notin Nouveaux
    <3>1. \E e \in DOMAIN Conserves : Conserves[e].contenu = c
      BY <2>4 DEF Nouveaux
    <3>2. originaux[c] \in DOMAIN Conserves /\ Conserves[originaux[c]].contenu = c
      BY <1>2, <2>1, <2>4, <3>1
    <3> QED
      BY <1>9, <2>1, <2>4, <3>2 DEF Ecart
  <2> QED
    BY <2>2, <2>3, <2>4
<1>11. /\ ecartes \in Partielles(Ecart)
       /\ \A d \in DOMAIN ecartes :
             \/ d \in toujours /\ ecartes[d] = passe.rejets[d]
             \/ /\ d \in DOMAIN passe.recus /\ ecartes[d].version = passe.liste[d]
                /\ \/ ecartes[d].doublon_de = Aucun /\ passe.recus[d] \in Irrecevables
                   \/ /\ ecartes[d].doublon_de \in DOMAIN vus
                      /\ vus[ecartes[d].doublon_de].contenu = passe.recus[d]
  <2> DEFINE S == (DOMAIN passe.recus \ porteurs) \cup toujours
  <2>1. ecartes = [d \in S |->
                     IF d \in toujours THEN passe.rejets[d]
                     ELSE [version |-> passe.liste[d],
                           doublon_de |-> IF passe.recus[d] \in Irrecevables THEN Aucun
                                          ELSE originaux[passe.recus[d]]]]
    BY DEF Ecartes
  <2>2. toujours \subseteq DOMAIN passe.rejets
    BY DEF ToujoursEcartes
  <2>3. S \in SUBSET Docs
    BY <1>4, <2>2
  <2> HIDE DEF ecartes, toujours, porteurs
  <2>4. ASSUME NEW d \in S
        PROVE  /\ ecartes[d] \in Ecart
               /\ \/ d \in toujours /\ ecartes[d] = passe.rejets[d]
                  \/ /\ d \in DOMAIN passe.recus /\ ecartes[d].version = passe.liste[d]
                     /\ \/ ecartes[d].doublon_de = Aucun /\ passe.recus[d] \in Irrecevables
                        \/ /\ ecartes[d].doublon_de \in DOMAIN vus
                           /\ vus[ecartes[d].doublon_de].contenu = passe.recus[d]
    <3>1. CASE d \in toujours
      BY <1>4, <2>1, <2>2, <3>1
    <3>2. CASE d \notin toujours
      BY <1>10, <2>1, <3>2
    <3> QED
      BY <3>1, <3>2
  <2>5. DOMAIN ecartes = S /\ ecartes = [d \in S |-> ecartes[d]]
    BY <2>1
  <2>6. ecartes \in [S -> Ecart]
    BY <2>4, <2>5
  <2> HIDE DEF S
  <2>7. ecartes \in Partielles(Ecart)
    BY <2>3, <2>6, EnPartielle
  <2> QED
    BY <2>4, <2>5, <2>7 DEF S
<1>12. /\ Completee(vus, passe.connus) \in Partielles(Fiche)
       /\ DOMAIN Completee(vus, passe.connus) = DOMAIN vus \cup DOMAIN passe.connus
       /\ Completee(ecartes, Restrict(passe.rejets,
             DOMAIN passe.rejets \ (DOMAIN vus \cup DOMAIN passe.connus))) \in Partielles(Ecart)
  <2> DEFINE autres == Restrict(passe.rejets,
                          DOMAIN passe.rejets \ (DOMAIN vus \cup DOMAIN passe.connus))
  <2>1. autres \in Partielles(Ecart)
    BY <1>3, RestreinteType
  <2> HIDE DEF autres, ecartes
  <2>2. Completee(ecartes, autres) \in Partielles(Ecart)
    BY <1>11, <2>1, CompleteeType
  <2> QED
    <3>1. vus \in Partielles(Fiche) /\ passe.connus \in Partielles(Fiche)
      BY <1>3, <1>9
    <3>2. /\ Completee(vus, passe.connus) \in Partielles(Fiche)
          /\ DOMAIN Completee(vus, passe.connus) = DOMAIN vus \cup DOMAIN passe.connus
      BY <3>1, CompleteeType, CompleteeValeurs
    <3> QED
      BY <2>2, <3>2 DEF autres
<1>13. ARetirer(vus, porteurs) \in SUBSET Identifiants
  BY <1>4 DEF ARetirer, Disparus, AncienIdentifiant, Identifiants, Fiche
<1>14. /\ passe'.etape = "retirer" /\ passe'.partiel = passe.partiel
       /\ passe'.gardes = IF passe.partiel THEN Completee(vus, passe.connus) ELSE vus
       /\ passe'.a_retirer = ARetirer(vus, porteurs) /\ passe'.a_envoyer = porteurs
       /\ ~passe.partiel => passe'.ecartes = ecartes
  BY <1>2 DEF vus, nouvelles
<1>15. passe' \in Apres
  <2>1. passe' = [etape |-> "retirer", partiel |-> passe.partiel,
                  gardes |-> IF passe.partiel THEN Completee(vus, passe.connus) ELSE vus,
                  ecartes |-> IF passe.partiel
                     THEN Completee(ecartes, Restrict(passe.rejets,
                             DOMAIN passe.rejets \ (DOMAIN vus \cup DOMAIN passe.connus)))
                     ELSE ecartes,
                  a_retirer |-> ARetirer(vus, porteurs),
                  a_envoyer |-> porteurs]
    BY <1>2 DEF vus, nouvelles
  <2> HIDE DEF porteurs, ecartes
  <2> QED
    BY <1>3, <1>6, <1>9, <1>11, <1>12, <1>13, <2>1 DEF Apres
<1>16. ~passe.partiel =>
          ARetirer(vus, porteurs) = {AncienIdentifiant(d) : d \in
              (DOMAIN passe.recus \cap DOMAIN passe.connus)
                 \cup (DOMAIN passe.connus \ DOMAIN vus)}
  BY DEF ARetirer, Disparus
<1>17. UNCHANGED <<dehors, cfg, sources, openrag, depuis>>
  BY DEF Trier
<1> HIDE DEF porteurs, ecartes, toujours
<1>18. passe'.a_envoyer \subseteq DOMAIN passe'.gardes
  BY <1>9, <1>12, <1>14
<1> QED
  BY <1>1, <1>6, <1>7, <1>9, <1>11, <1>14, <1>15, <1>16, <1>17, <1>18 DEF toujours

-----------------------------------------------------------------------------
(* What follows it.                                                        *)

LEMMA TrierType ==
    ASSUME TypeOK, Rangement, Trier
    PROVE  TypeOK' /\ Rangement'
<1>1. /\ passe' \in Apres /\ passe'.etape = "retirer"
      /\ passe'.a_envoyer \subseteq DOMAIN passe'.gardes
      /\ UNCHANGED <<dehors, cfg, sources, openrag, depuis>>
  BY TrierPas
<1>2. TypeOK'
  BY <1>1 DEF TypeOK, dehors, openrag
<1> QED
  BY <1>1, <1>2, Etapes DEF Rangement

LEMMA RetirerPas ==
    ASSUME TypeOK, Rangement, Retirer
    PROVE  /\ passe \in Apres /\ passe' \in Apres
           /\ passe'.etape = "envoyer" /\ passe'.partiel = passe.partiel
           /\ passe'.gardes = passe.gardes /\ passe'.ecartes = passe.ecartes
           /\ passe'.a_envoyer = passe.a_envoyer /\ passe'.a_retirer = {}
           /\ index \ passe.a_retirer \subseteq index' /\ index' \subseteq index
           /\ lecture' \subseteq lecture
           /\ SansReste => (index' \cup lecture') \cap passe.a_retirer = {}
           /\ UNCHANGED <<dehors, cfg, sources, depuis>>
<1>1. passe \in Apres
  BY Etapes DEF Retirer
<1>2. passe' \in Apres
  BY <1>1 DEF Retirer, Apres
<1>3. PICK rates \in SUBSET (IF "retrait" \in Defaillances THEN passe.a_retirer ELSE {}) :
         /\ index' = index \ (passe.a_retirer \ rates)
         /\ lecture' = IF "file" \in Defaillances THEN lecture
                       ELSE lecture \ (passe.a_retirer \ rates)
  BY DEF Retirer
<1>4. /\ index \ passe.a_retirer \subseteq index' /\ index' \subseteq index
      /\ lecture' \subseteq lecture
  BY <1>3
<1>5. SansReste => (index' \cup lecture') \cap passe.a_retirer = {}
  BY <1>3 DEF SansReste
<1> QED
  BY <1>1, <1>2, <1>4, <1>5 DEF Retirer, Apres

LEMMA RetirerType ==
    ASSUME TypeOK, Rangement, Retirer
    PROVE  TypeOK' /\ Rangement'
<1>1. TypeOK'
  BY RetirerPas DEF TypeOK, dehors
<1> QED
  BY <1>1, RetirerPas, Etapes DEF Rangement

\* One document, as OpenRAG answers.
LEMMA EnvoyerPas ==
    ASSUME TypeOK, Rangement, NEW d \in Docs, Envoyer(d)
    PROVE  LET c == passe.gardes[d].contenu
           IN  /\ passe \in Apres /\ passe' \in Apres /\ d \in passe.a_envoyer
               /\ passe.etape = "envoyer" /\ passe'.etape = "envoyer"
               /\ passe'.partiel = passe.partiel
               /\ passe'.a_envoyer = passe.a_envoyer \ {d}
               /\ passe'.a_envoyer \subseteq DOMAIN passe'.gardes
               /\ passe'.ecartes = passe.ecartes /\ passe'.a_retirer = {}
               /\ DOMAIN passe'.gardes \in {DOMAIN passe.gardes, DOMAIN passe.gardes \ {d}}
               /\ \A e \in DOMAIN passe'.gardes \ {d} : passe'.gardes[e] = passe.gardes[e]
               /\ d \in DOMAIN passe'.gardes =>
                     /\ passe'.gardes[d].contenu = c
                     /\ passe'.gardes[d].version = passe.gardes[d].version
                     /\ \/ passe'.gardes[d].erreur = "aucune" /\ <<d, c>> \in index'
                        \/ passe'.gardes[d].erreur = "passagere"
                        \/ passe'.gardes[d].erreur = "definitive" /\ c \in Illisibles
               /\ index \subseteq index'
               /\ index' \cup lecture' \subseteq index \cup lecture \cup {<<d, c>>}
               /\ SansReste /\ d \notin DOMAIN passe'.gardes =>
                     index' \cup lecture' \subseteq index \cup lecture
               /\ <<d, c>> \in Identifiants
               /\ UNCHANGED <<dehors, cfg, sources, depuis>>
<1> DEFINE c == passe.gardes[d].contenu
           fait == [passe EXCEPT !.a_envoyer = @ \ {d}]
           Note(erreur) == passe' = [fait EXCEPT !.gardes[d].erreur = erreur]
           Oublie == passe' = [fait EXCEPT !.gardes = Restrict(@, DOMAIN @ \ {d})]
<1>1. /\ passe \in Apres /\ d \in passe.a_envoyer /\ passe.etape = "envoyer"
      /\ passe.a_envoyer \subseteq DOMAIN passe.gardes /\ passe.a_retirer = {}
  BY Etapes DEF Envoyer, Rangement
<1>2. /\ passe.gardes \in Partielles(Fiche)
      /\ \A e \in DOMAIN passe.gardes : e \in Docs /\ passe.gardes[e] \in Fiche
  <2>1. passe.gardes \in Partielles(Fiche)
    BY <1>1 DEF Apres
  <2> QED
    BY <2>1, PartielleDe
<1>3. <<d, c>> \in Identifiants
  BY <1>1, <1>2 DEF Identifiants, Fiche
<1>4. ASSUME NEW erreur \in {"aucune", "passagere", "definitive"}, Note(erreur)
      PROVE  /\ passe' \in Apres /\ passe'.a_envoyer = passe.a_envoyer \ {d}
             /\ passe'.etape = "envoyer" /\ passe'.partiel = passe.partiel
             /\ passe'.ecartes = passe.ecartes /\ passe'.a_retirer = {}
             /\ DOMAIN passe'.gardes = DOMAIN passe.gardes
             /\ \A e \in DOMAIN passe'.gardes \ {d} : passe'.gardes[e] = passe.gardes[e]
             /\ passe'.gardes[d].contenu = c /\ passe'.gardes[d].erreur = erreur
             /\ passe'.gardes[d].version = passe.gardes[d].version
  <2> DEFINE notes == [passe.gardes EXCEPT ![d].erreur = erreur]
  <2>1. /\ DOMAIN notes = DOMAIN passe.gardes
        /\ \A e \in DOMAIN passe.gardes \ {d} : notes[e] = passe.gardes[e]
        /\ notes[d] = [passe.gardes[d] EXCEPT !.erreur = erreur]
    BY <1>1
  <2>2. /\ notes[d].contenu = c /\ notes[d].erreur = erreur
        /\ notes[d].version = passe.gardes[d].version /\ notes[d] \in Fiche
    BY <1>1, <1>2, <2>1 DEF Fiche
  <2>3. notes \in [DOMAIN passe.gardes -> Fiche]
    BY <1>2, <2>2
  <2>4. DOMAIN passe.gardes \in SUBSET Docs
    BY <1>2
  <2>5. passe' = [passe EXCEPT !.a_envoyer = @ \ {d}, !.gardes = notes]
    BY <1>1, <1>4 DEF Apres
  <2> HIDE DEF notes
  <2>6. notes \in Partielles(Fiche)
    BY <2>3, <2>4, EnPartielle
  <2>7. passe' \in Apres
    BY <1>1, <2>5, <2>6 DEF Apres
  <2> QED
    BY <1>1, <2>1, <2>2, <2>5, <2>7 DEF Apres
<1>5. ASSUME Oublie
      PROVE  /\ passe' \in Apres /\ passe'.a_envoyer = passe.a_envoyer \ {d}
             /\ passe'.etape = "envoyer" /\ passe'.partiel = passe.partiel
             /\ passe'.ecartes = passe.ecartes /\ passe'.a_retirer = {}
             /\ DOMAIN passe'.gardes = DOMAIN passe.gardes \ {d}
             /\ \A e \in DOMAIN passe'.gardes : passe'.gardes[e] = passe.gardes[e]
  <2> DEFINE notes == Restrict(passe.gardes, DOMAIN passe.gardes \ {d})
  <2>1. notes \in Partielles(Fiche)
    BY <1>2, RestreinteType
  <2>4. /\ DOMAIN notes = DOMAIN passe.gardes \ {d}
        /\ \A e \in DOMAIN notes : notes[e] = passe.gardes[e]
    BY DEF Restrict
  <2>2. passe' = [passe EXCEPT !.a_envoyer = @ \ {d}, !.gardes = notes]
    BY <1>1, <1>5 DEF Apres
  <2> HIDE DEF notes
  <2>3. passe' \in Apres
    BY <1>1, <2>1, <2>2 DEF Apres
  <2> QED
    BY <1>1, <2>1, <2>2, <2>3, <2>4 DEF Apres
<1>6. \/ Note("aucune") /\ index' = index \cup {<<d, c>>} /\ lecture' = lecture \ {<<d, c>>}
      \/ Note("definitive") /\ c \in Illisibles /\ UNCHANGED <<index, lecture>>
      \/ Note("passagere") /\ lecture' = lecture \cup {<<d, c>>} /\ UNCHANGED index
      \/ Oublie /\ UNCHANGED <<index, lecture>>
      \/ Oublie /\ "perdue" \in Defaillances /\ lecture' = lecture \cup {<<d, c>>}
           /\ UNCHANGED index
  BY DEF Envoyer
<1>7. UNCHANGED <<dehors, cfg, sources, depuis>>
  BY DEF Envoyer
<1>8. \/ \E erreur \in {"aucune", "passagere", "definitive"} :
            /\ Note(erreur)
            /\ \/ erreur = "aucune" /\ <<d, c>> \in index'
               \/ erreur = "passagere"
               \/ erreur = "definitive" /\ c \in Illisibles
            /\ index \subseteq index'
            /\ index' \cup lecture' \subseteq index \cup lecture \cup {<<d, c>>}
      \/ /\ Oublie /\ index \subseteq index'
         /\ index' \cup lecture' \subseteq index \cup lecture \cup {<<d, c>>}
         /\ SansReste => index' \cup lecture' \subseteq index \cup lecture
  <2> HIDE DEF Note, Oublie, c
  <2> QED
    BY <1>6 DEF SansReste
<1> HIDE DEF Note, Oublie, fait
<1>9. CASE /\ Oublie /\ index \subseteq index'
           /\ index' \cup lecture' \subseteq index \cup lecture \cup {<<d, c>>}
           /\ SansReste => index' \cup lecture' \subseteq index \cup lecture
  <2> HIDE DEF c
  <2> QED
    BY <1>1, <1>3, <1>5, <1>7, <1>9 DEF c
<1>10. CASE \E erreur \in {"aucune", "passagere", "definitive"} :
            /\ Note(erreur)
            /\ \/ erreur = "aucune" /\ <<d, c>> \in index'
               \/ erreur = "passagere"
               \/ erreur = "definitive" /\ c \in Illisibles
            /\ index \subseteq index'
            /\ index' \cup lecture' \subseteq index \cup lecture \cup {<<d, c>>}
  <2> HIDE DEF c
  <2>1. PICK erreur \in {"aucune", "passagere", "definitive"} :
            /\ Note(erreur)
            /\ \/ erreur = "aucune" /\ <<d, c>> \in index'
               \/ erreur = "passagere"
               \/ erreur = "definitive" /\ c \in Illisibles
            /\ index \subseteq index'
            /\ index' \cup lecture' \subseteq index \cup lecture \cup {<<d, c>>}
    BY <1>10
  <2> QED
    BY <1>1, <1>3, <1>4, <1>7, <2>1 DEF c
<1> QED
  BY <1>8, <1>9, <1>10

LEMMA ApresType ==
    ASSUME TypeOK, Rangement,
           (\E d \in Docs : Envoyer(d)) \/ Noter \/ Ecrire \/ RienRecu \/ Interrompre
    PROVE  TypeOK' /\ Rangement'
<1>1. ASSUME NEW d \in Docs, Envoyer(d)
      PROVE  TypeOK' /\ Rangement'
  <2>2. /\ passe' \in Apres /\ <<d, passe.gardes[d].contenu>> \in Identifiants
        /\ index' \cup lecture' \subseteq index \cup lecture \cup {<<d, passe.gardes[d].contenu>>}
        /\ UNCHANGED <<dehors, cfg, sources, depuis>>
    BY <1>1, EnvoyerPas
  <2>1. TypeOK'
    BY <2>2 DEF TypeOK, dehors
  <2> QED
    BY <1>1, <2>1, EnvoyerPas, Etapes DEF Rangement
<1>2. CASE Noter
  <2>1. passe \in Apres
    BY <1>2, Etapes DEF Noter
  <2>2. passe' \in Apres
    BY <1>2, <2>1 DEF Noter, Apres
  <2>3. passe.gardes \in Partielles(Fiche)
    BY <2>1 DEF Apres
  <2>4. DOMAIN passe.gardes \subseteq Docs
    BY <2>3, PartielleDe
  <2>5. TypeOK'
    BY <1>2, <2>2, <2>4 DEF Noter, TypeOK, dehors, openrag
  <2>6. /\ passe'.a_envoyer = {} /\ passe'.a_retirer = {}
    BY <1>2, <2>1 DEF Noter, Apres, Rangement
  <2> QED
    BY <2>2, <2>5, <2>6, Etapes DEF Rangement
<1>3. CASE Ecrire
  <2>1. passe \in Apres
    BY <1>3, Etapes DEF Ecrire
  <2>2. passe.gardes \in Partielles(Fiche) /\ passe.ecartes \in Partielles(Ecart)
    BY <2>1 DEF Apres
  <2>3. depuis' \in 0 .. MaxPasses + 1
    BY <1>3, BornesImportAssumption DEF Ecrire, Coupee, TypeOK
  <2>4. TypeOK'
    BY <1>3, <2>2, <2>3 DEF Ecrire, TypeOK, Etats, dehors, openrag
  <2> QED
    BY <1>3, <2>4, Etapes DEF Ecrire, Rangement
<1>4. CASE RienRecu
  BY <1>4, EchouerType DEF RienRecu
<1>5. CASE Interrompre
  <2>1. depuis' \in 0 .. MaxPasses + 1
    BY <1>5, BornesImportAssumption DEF Interrompre, Coupee, TypeOK
  <2>2. TypeOK'
    BY <1>5, <2>1 DEF Interrompre, TypeOK, Etats, dehors, openrag
  <2> QED
    BY <1>5, <2>2, Etapes DEF Interrompre, Rangement
<1> QED
  BY <1>1, <1>2, <1>3, <1>4, <1>5

LEMMA ExterieurType ==
    ASSUME TypeOK, Rangement, Exterieur
    PROVE  TypeOK' /\ Rangement'
<1>1. passe' = passe
  BY DEF Exterieur, Modifier, Deplacer, LireTardivement
<1>2. ASSUME NEW d \in Docs, Modifier(d)
      PROVE  TypeOK'
  <2>1. PICK c \in Contenus :
           espace' = [espace EXCEPT ![d] = [contenu |-> c, version |-> @.version + 1]]
    BY <1>2 DEF Modifier
  <2>2. espace[d].version + 1 \in Versions
    BY <1>2, BornesImportAssumption DEF Modifier, TypeOK, Versions
  <2>3. espace' \in [Docs -> [contenu : Contenus, version : Versions]]
    BY <2>1, <2>2 DEF TypeOK
  <2> QED
    BY <1>2, <2>3 DEF Modifier, TypeOK, openrag
<1>3. ASSUME NEW d \in Docs, Deplacer(d)
      PROVE  TypeOK'
  BY <1>3 DEF Deplacer, TypeOK, openrag
<1>4. ASSUME NEW i \in Identifiants, LireTardivement(i)
      PROVE  TypeOK'
  BY <1>4 DEF LireTardivement, TypeOK, dehors
<1>5. TypeOK'
  BY <1>2, <1>3, <1>4 DEF Exterieur
<1> QED
  BY <1>1, <1>5, Etapes DEF Rangement

LEMMA TypeEtape ==
    ASSUME TypeOK, Rangement, [Next]_vars
    PROVE  TypeOK' /\ Rangement'
<1>1. CASE Route
  BY <1>1, RouteType
<1>2. CASE Avancer
  <2>1. CASE Comparer
    BY <2>1, ComparerPas, AvantType
  <2>2. ASSUME NEW d \in Docs, Telecharger(d)
        PROVE  TypeOK' /\ Rangement'
    BY <2>2, TelechargerPas, AvantType
  <2>3. CASE Couper
    BY <2>3, CouperPas, AvantType
  <2> QED
    BY <1>2, <2>1, <2>2, <2>3, ListerType, TrierType, RetirerType, ApresType DEF Avancer
<1>3. CASE Interrompre
  BY <1>3, ApresType
<1>4. CASE Exterieur
  BY <1>4, ExterieurType
<1>5. CASE UNCHANGED vars
  BY <1>5, Etapes DEF vars, TypeOK, Rangement
<1> QED
  BY <1>1, <1>2, <1>3, <1>4, <1>5 DEF Next

-----------------------------------------------------------------------------
(* What is known, kept by each step.                                       *)

\* What OpenRAG has read since is searchable.
LEMMA RattrapesSus ==
    ASSUME NEW docs \in Partielles(Fiche), NEW ecartes, Sus(docs, ecartes)
    PROVE  Sus(Rattrapes(docs), ecartes)
<1>1. ASSUME NEW d \in DOMAIN docs
      PROVE  Su(d, Rattrapes(docs)[d])
  BY RattrapesType DEF Sus, Su, Exacte, Servie
<1>2. DOMAIN Rattrapes(docs) = DOMAIN docs
      /\ \A d \in DOMAIN docs : Rattrapes(docs)[d].contenu = docs[d].contenu
  BY RattrapesType
<1>3. Fondes(ecartes, Rattrapes(docs))
  BY <1>2 DEF Sus, Fondes, Ecartee
<1> QED
  BY <1>1, <1>2, <1>3 DEF Sus

LEMMA RouteSavoir ==
    ASSUME Inv, Route
    PROVE  Savoir'
<1>1. TypeOK /\ TypeOK' /\ passe = Repos /\ passe \notin Apres
  BY RouteType, Etapes DEF Inv, Route, Importer, Synchroniser, RelireLaQualite, Repos
<1>2. /\ DOMAIN Liste = presents /\ presents \subseteq Docs
      /\ \A d \in presents : Liste[d] = espace[d].version /\ espace[d].version \in Nat
      /\ DOMAIN Vide = {}
  BY <1>1, ListeType, VidePartielle, BornesImportAssumption DEF TypeOK, Versions, Liste
<1>3. ASSUME NEW complet \in BOOLEAN, NEW reprendre \in SUBSET Docs, NEW prete \in BOOLEAN,
             Lancer(complet, reprendre, prete), espace' = espace
      PROVE  passe' \in Avant /\ passe'.etape # "telecharger" /\ Lue(passe)'
  <2>1. /\ passe' \in Avant /\ passe'.etape \in {"lister", "comparer"}
        /\ passe'.liste \in {Vide, Liste} /\ DOMAIN passe'.recus = {} /\ passe'.identiques = {}
    BY <1>1, <1>3, LancerPas
  <2>2. \A d \in DOMAIN passe'.liste : passe'.liste[d] <= espace[d].version
    BY <1>2, <2>1
  <2> QED
    BY <1>3, <2>1, <2>2 DEF Lue
<1>4. CASE Importer
  <2>1. PICK prete \in BOOLEAN : Lancer(FALSE, {}, prete)
    BY <1>4 DEF Importer
  <2>2. espace' = espace /\ cfg'.documents = Vide /\ cfg'.ecartes = Vide
    BY <1>4 DEF Importer, dehors
  <2>3. Sus(cfg.documents, cfg.ecartes)'
    BY <1>2, <2>2 DEF Sus, Fondes
  <2>4. passe' \in Avant /\ passe'.etape # "telecharger" /\ Lue(passe)'
    BY <1>3, <2>1, <2>2
  <2> QED
    BY <1>1, <2>3, <2>4, Etapes DEF Savoir
<1>5. ASSUME NEW complet \in BOOLEAN, NEW reprendre \in SUBSET Docs,
             Synchroniser(complet, reprendre)
      PROVE  Savoir'
  <2>1. PICK prete \in BOOLEAN : Lancer(complet, reprendre, prete)
    BY <1>5 DEF Synchroniser
  <2>2. /\ espace' = espace /\ index' = index
        /\ cfg'.documents = cfg.documents /\ cfg'.ecartes = cfg.ecartes
    BY <1>1, <1>5 DEF Synchroniser, dehors, openrag, TypeOK
  <2>3. passe' \in Avant /\ passe'.etape # "telecharger" /\ Lue(passe)'
    BY <1>3, <2>1, <2>2
  <2>4. depuis' = 0 => depuis = 0
    BY <1>1, <1>5, BornesImportAssumption DEF Synchroniser, TypeOK
  <2>5. depuis' = 0 => Sus(cfg.documents, cfg.ecartes)'
    <3>1. depuis' = 0 => Sus(cfg.documents, cfg.ecartes)
      BY <1>1, <2>4 DEF Inv, Savoir
    <3> QED
      BY <2>2, <3>1 DEF Sus, Su, Exacte, Servie, Fondes, Ecartee
  <2> QED
    BY <1>1, <2>3, <2>5, Etapes DEF Savoir
<1>6. CASE RelireLaQualite
  <2>1. /\ espace' = espace /\ index' = index /\ passe' = Repos /\ depuis' = depuis
        /\ cfg'.documents = Rattrapes(cfg.documents) /\ cfg'.ecartes = cfg.ecartes
    BY <1>1, <1>6 DEF RelireLaQualite, dehors, openrag, TypeOK
  <2>2. depuis = 0 => Sus(Rattrapes(cfg.documents), cfg.ecartes)
    <3>1. depuis = 0 => Sus(cfg.documents, cfg.ecartes)
      BY <1>1 DEF Inv, Savoir
    <3>2. cfg.documents \in Partielles(Fiche)
      BY <1>1 DEF TypeOK
    <3> QED
      BY <3>1, <3>2, RattrapesSus
  <2>3. depuis' = 0 => Sus(cfg.documents, cfg.ecartes)'
    BY <2>1, <2>2 DEF Sus, Su, Exacte, Servie, Fondes, Ecartee
  <2>4. passe' \notin Avant /\ passe' \notin Apres
    BY <1>1, <2>1, Etapes DEF Repos
  <2> QED
    BY <2>3, <2>4 DEF Savoir
<1> QED
  BY <1>4, <1>5, <1>6 DEF Route

\* A step that leaves the notes of the configuration as they are, and the pass
\* before its sorting.
LEMMA AvantSavoir ==
    ASSUME Inv, passe \in Avant, passe' \in Avant, UNCHANGED <<dehors, cfg, sources, openrag, depuis>>,
           depuis = 0 => Lue(passe)',
           depuis = 0 /\ passe'.etape = "telecharger" => Sus(passe'.connus, passe'.rejets)
    PROVE  Savoir'
<1>1. espace' = espace /\ index' = index /\ cfg' = cfg /\ depuis' = depuis /\ passe \notin Apres
  BY Etapes DEF dehors, openrag, Inv
<1>2. TypeOK'
  BY DEF Inv, TypeOK, dehors, openrag
<1>3. passe' \notin Apres
  BY <1>2, Etapes
<1>4. depuis = 0 => Sus(cfg.documents, cfg.ecartes)
  BY <1>1 DEF Inv, Savoir
<1>5. depuis = 0 => Sus(cfg.documents, cfg.ecartes)'
  BY <1>1, <1>4 DEF Sus, Su, Exacte, Servie, Fondes, Ecartee
<1>6. depuis = 0 /\ passe'.etape = "telecharger" => Sus(passe.connus, passe.rejets)'
  BY <1>1 DEF Sus, Su, Exacte, Servie, Fondes, Ecartee
<1> QED
  BY <1>1, <1>3, <1>5, <1>6 DEF Savoir

\* A pass that ends with nothing changed.
LEMMA EchouerSavoir ==
    ASSUME Inv, passe \in Avant, Echouer, UNCHANGED <<dehors, sources, openrag>>
    PROVE  Savoir'
<1>1. /\ espace' = espace /\ index' = index /\ depuis' = depuis /\ passe' = Repos
      /\ cfg'.documents = cfg.documents /\ cfg'.ecartes = cfg.ecartes
  BY DEF Echouer, dehors, openrag, Inv, TypeOK
<1>2. depuis = 0 => Sus(cfg.documents, cfg.ecartes)
  BY Etapes DEF Inv, Savoir
<1>3. depuis = 0 => Sus(cfg.documents, cfg.ecartes)'
  BY <1>1, <1>2 DEF Sus, Su, Exacte, Servie, Fondes, Ecartee
<1>4. passe' \notin Avant /\ passe' \notin Apres
  BY <1>1 DEF Repos, Avant, Apres
<1> QED
  BY <1>1, <1>3, <1>4 DEF Savoir

LEMMA ListerSavoir ==
    ASSUME Inv, Lister
    PROVE  Savoir'
<1>1. passe \in Avant /\ Rangee(passe) /\ passe.etape = "lister"
  BY Etapes DEF Lister, Inv, Rangement
<1>2. CASE Echouer
  BY <1>1, <1>2, EchouerSavoir DEF Lister
<1>3. CASE ~Echouer
  <2>1. /\ passe' = [passe EXCEPT !.etape = "comparer", !.liste = Liste]
        /\ UNCHANGED <<dehors, cfg, sources, openrag, depuis>>
    BY <1>3 DEF Lister
  <2>2. Liste \in Partielles(Versions) /\ DOMAIN Liste = presents
    BY ListeType DEF Inv
  <2>3. \A d \in DOMAIN Liste : Liste[d] <= espace[d].version
    BY <2>2, BornesImportAssumption DEF Liste, Inv, TypeOK, Versions
  <2>4. /\ passe' \in Avant /\ passe'.liste = Liste /\ passe'.etape = "comparer"
        /\ DOMAIN passe'.recus = {} /\ passe'.identiques = {}
    BY <1>1, <2>1, <2>2 DEF Avant, Rangee
  <2>5. Lue(passe)'
    BY <2>1, <2>3, <2>4 DEF Lue, dehors
  <2> QED
    BY <1>1, <2>1, <2>4, <2>5, AvantSavoir
<1> QED
  BY <1>2, <1>3

LEMMA ComparerSavoir ==
    ASSUME Inv, Comparer
    PROVE  Savoir'
<1>1. /\ passe \in Avant /\ passe' \in Avant /\ passe'.liste = passe.liste
      /\ passe'.connus \in {cfg.documents, Rattrapes(cfg.documents)}
      /\ passe'.rejets = cfg.ecartes
      /\ DOMAIN passe'.recus = {} /\ passe'.identiques = {}
      /\ UNCHANGED <<dehors, cfg, sources, openrag, depuis>>
  BY ComparerPas DEF Inv
<1>2. depuis = 0 => Lue(passe) /\ Sus(cfg.documents, cfg.ecartes)
  BY <1>1, Etapes DEF Inv, Savoir
<1>3. depuis = 0 => Lue(passe)'
  BY <1>1, <1>2 DEF Lue, dehors
<1>4. depuis = 0 => Sus(passe'.connus, passe'.rejets)
  <2>1. cfg.documents \in Partielles(Fiche)
    BY DEF Inv, TypeOK
  <2>2. depuis = 0 => Sus(Rattrapes(cfg.documents), cfg.ecartes)
    BY <1>2, <2>1, RattrapesSus
  <2> QED
    BY <1>1, <1>2, <2>2
<1> QED
  BY <1>1, <1>3, <1>4, AvantSavoir

LEMMA TelechargerSavoir ==
    ASSUME Inv, NEW d \in Docs, Telecharger(d)
    PROVE  Savoir'
<1>1. /\ passe \in Avant /\ passe' \in Avant /\ passe.etape = "telecharger"
      /\ Rangee(passe')
      /\ passe'.liste = passe.liste /\ passe'.connus = passe.connus
      /\ passe'.rejets = passe.rejets
      /\ \A e \in DOMAIN passe'.recus :
            \/ e \in DOMAIN passe.recus /\ passe'.recus[e] = passe.recus[e]
            \/ e = d /\ passe'.recus[e] = espace[d].contenu
      /\ \A e \in passe'.identiques :
            \/ e \in passe.identiques
            \/ e = d /\ passe.connus[d].contenu = espace[d].contenu
      /\ UNCHANGED <<dehors, cfg, sources, openrag, depuis>>
  BY TelechargerPas DEF Inv
<1>2. depuis = 0 => Lue(passe) /\ Sus(passe.connus, passe.rejets)
  BY <1>1 DEF Inv, Savoir
<1>3. DOMAIN passe'.recus \cup passe'.identiques \subseteq DOMAIN passe.liste
  BY <1>1 DEF Rangee
<1>4. depuis = 0 => Lue(passe)'
  BY <1>1, <1>2, <1>3 DEF Lue, Exacte, dehors
<1> QED
  BY <1>1, <1>2, <1>4, AvantSavoir

LEMMA CouperSavoir ==
    ASSUME Inv, Couper
    PROVE  Savoir'
<1>1. /\ passe \in Avant /\ passe' \in Avant /\ passe.etape = "telecharger"
      /\ passe'.liste = passe.liste /\ passe'.connus = passe.connus
      /\ passe'.rejets = passe.rejets /\ passe'.recus = passe.recus
      /\ passe'.identiques = passe.identiques
      /\ UNCHANGED <<dehors, cfg, sources, openrag, depuis>>
  BY CouperPas DEF Inv
<1>2. depuis = 0 => Lue(passe) /\ Sus(passe.connus, passe.rejets)
  BY <1>1 DEF Inv, Savoir
<1>3. depuis = 0 => Lue(passe)'
  BY <1>1, <1>2 DEF Lue, Exacte, dehors
<1> QED
  BY <1>1, <1>2, <1>3, AvantSavoir

LEMMA TrierSavoir ==
    ASSUME Inv, Trier
    PROVE  Savoir'
<1> DEFINE p == passe'
           toujours == ToujoursEcartes(passe.liste, passe.connus, passe.rejets,
                                       passe.complet, passe.stables)
<1>1. /\ passe \in Avant /\ Rangee(passe) /\ passe.etape = "telecharger"
      /\ p \in Apres /\ p.etape = "retirer"
      /\ UNCHANGED <<dehors, cfg, sources, openrag, depuis>>
  BY TrierPas DEF Inv
<1>2. TypeOK /\ TypeOK' /\ p \notin Avant
  BY <1>1, TrierType, Etapes DEF Inv
<1>3. espace' = espace /\ index' = index /\ depuis' = depuis
  BY <1>1 DEF dehors, openrag
<1> SUFFICES ASSUME depuis = 0, ~p.partiel
             PROVE  Triee(passe)'
  BY <1>1, <1>2, <1>3 DEF Savoir
<1>4. /\ Lue(passe) /\ Sus(passe.connus, passe.rejets)
  BY <1>1 DEF Inv, Savoir
<1>5. /\ p.a_envoyer \subseteq DOMAIN passe.recus
      /\ \A d \in p.a_envoyer : /\ p.gardes[d].contenu = passe.recus[d]
                                /\ p.gardes[d].version = passe.liste[d]
      /\ DOMAIN p.gardes = p.a_envoyer \cup DOMAIN Conserves
      /\ \A d \in DOMAIN Conserves : p.gardes[d] = Conserves[d]
      /\ p.a_retirer = {AncienIdentifiant(d) : d \in
             (DOMAIN passe.recus \cap DOMAIN passe.connus)
                \cup (DOMAIN passe.connus \ DOMAIN p.gardes)}
  BY TrierPas DEF Inv
<1>6. /\ DOMAIN Conserves \cap DOMAIN passe.recus = {}
      /\ passe.stables \subseteq DOMAIN Conserves
      /\ \A d \in DOMAIN Conserves :
            /\ d \in DOMAIN passe.connus
            /\ Conserves[d].contenu = passe.connus[d].contenu
            /\ Conserves[d].erreur = passe.connus[d].erreur
            /\ \/ d \in passe.identiques /\ Conserves[d].version = passe.liste[d]
               \/ Conserves[d].version = passe.connus[d].version
  BY <1>1, ConservesType
<1>7. \A d \in DOMAIN p.ecartes :
         \/ d \in toujours /\ p.ecartes[d] = passe.rejets[d]
         \/ /\ d \in DOMAIN passe.recus /\ p.ecartes[d].version = passe.liste[d]
            /\ \/ p.ecartes[d].doublon_de = Aucun /\ passe.recus[d] \in Irrecevables
               \/ /\ p.ecartes[d].doublon_de \in DOMAIN p.gardes
                  /\ p.gardes[p.ecartes[d].doublon_de].contenu = passe.recus[d]
  BY TrierPas DEF Inv
<1>8. Aucun \notin DOMAIN p.gardes
  <2>1. p.gardes \in Partielles(Fiche)
    BY <1>1 DEF Apres
  <2> QED
    BY <2>1, PartielleDe, AucunDocAssumption
<1>9. ASSUME NEW d \in DOMAIN p.gardes
      PROVE  /\ Exacte(d, p.gardes[d].version, p.gardes[d].contenu)
             /\ d \notin p.a_envoyer => Servie(d, p.gardes[d])
  <2>1. CASE d \in p.a_envoyer
    BY <1>4, <1>5, <2>1 DEF Lue
  <2>2. CASE d \in DOMAIN Conserves
    <3>1. Exacte(d, p.gardes[d].version, p.gardes[d].contenu)
      BY <1>4, <1>5, <1>6, <2>2 DEF Lue, Sus, Su
    <3>2. Servie(d, p.gardes[d])
      BY <1>4, <1>5, <1>6, <2>2 DEF Sus, Su, Servie
    <3> QED
      BY <3>1, <3>2
  <2> QED
    BY <1>5, <2>1, <2>2
<1>10. ASSUME NEW d \in DOMAIN p.ecartes
      PROVE  Ecartee(d, p.ecartes[d], p.gardes)
  <2>1. CASE d \in toujours /\ p.ecartes[d] = passe.rejets[d]
    <3>1. /\ d \in DOMAIN passe.rejets /\ passe.rejets[d].doublon_de \in passe.stables \cup {Aucun}
      BY <2>1 DEF ToujoursEcartes
    <3>2. Ecartee(d, passe.rejets[d], passe.connus)
      BY <1>4, <3>1 DEF Sus, Fondes
    <3>3. CASE passe.rejets[d].doublon_de \in passe.stables
      BY <1>5, <1>6, <2>1, <3>2, <3>3 DEF Ecartee
    <3>4. CASE passe.rejets[d].doublon_de = Aucun
      BY <2>1, <3>2, <3>4, <1>8 DEF Ecartee
    <3> QED
      BY <3>1, <3>3, <3>4
  <2>2. CASE d \in DOMAIN passe.recus /\ p.ecartes[d].version = passe.liste[d]
    <3>1. Exacte(d, passe.liste[d], passe.recus[d])
      BY <1>4, <2>2 DEF Lue
    <3>2. CASE p.ecartes[d].doublon_de = Aucun /\ passe.recus[d] \in Irrecevables
      BY <2>2, <3>1, <3>2, <1>8 DEF Ecartee, Exacte
    <3>3. CASE /\ p.ecartes[d].doublon_de \in DOMAIN p.gardes
               /\ p.gardes[p.ecartes[d].doublon_de].contenu = passe.recus[d]
      BY <2>2, <3>1, <3>3, <1>8 DEF Ecartee, Exacte
    <3>4. \/ p.ecartes[d].doublon_de = Aucun /\ passe.recus[d] \in Irrecevables
          \/ /\ p.ecartes[d].doublon_de \in DOMAIN p.gardes
             /\ p.gardes[p.ecartes[d].doublon_de].contenu = passe.recus[d]
          \/ d \in toujours /\ p.ecartes[d] = passe.rejets[d]
      BY <1>7
    <3> QED
      BY <2>1, <3>2, <3>3, <3>4
  <2> QED
    BY <1>7, <2>1, <2>2
<1>11. \A i \in p.a_retirer : i[1] \notin DOMAIN p.gardes \ p.a_envoyer
  BY <1>5, <1>6 DEF AncienIdentifiant
<1> QED
  BY <1>3, <1>9, <1>10, <1>11 DEF Triee, Fondes, Exacte, Servie, Ecartee

LEMMA RetirerSavoir ==
    ASSUME Inv, Retirer
    PROVE  Savoir'
<1>1. /\ passe \in Apres /\ passe' \in Apres
      /\ passe'.partiel = passe.partiel
      /\ passe'.gardes = passe.gardes /\ passe'.ecartes = passe.ecartes
      /\ passe'.a_envoyer = passe.a_envoyer /\ passe'.a_retirer = {}
      /\ index \ passe.a_retirer \subseteq index'
      /\ UNCHANGED <<dehors, cfg, sources, depuis>>
  BY RetirerPas DEF Inv
<1>2. passe' \notin Avant
  BY <1>1, RetirerType, Etapes DEF Inv
<1>3. depuis = 0 /\ ~passe.partiel => Triee(passe)
  BY <1>1 DEF Inv, Savoir
<1>4. depuis = 0 /\ ~passe.partiel => Triee(passe)'
  BY <1>1, <1>3 DEF Triee, Exacte, Servie, Fondes, Ecartee, dehors
<1> QED
  BY <1>1, <1>2, <1>4 DEF Savoir

LEMMA EnvoyerSavoir ==
    ASSUME Inv, NEW d \in Docs, Envoyer(d)
    PROVE  Savoir'
<1> DEFINE c == passe.gardes[d].contenu
<1>1. /\ passe \in Apres /\ passe' \in Apres /\ d \in passe.a_envoyer
      /\ passe'.partiel = passe.partiel
      /\ passe'.a_envoyer = passe.a_envoyer \ {d}
      /\ passe'.ecartes = passe.ecartes /\ passe'.a_retirer = {}
      /\ DOMAIN passe'.gardes \in {DOMAIN passe.gardes, DOMAIN passe.gardes \ {d}}
      /\ \A e \in DOMAIN passe'.gardes \ {d} : passe'.gardes[e] = passe.gardes[e]
      /\ d \in DOMAIN passe'.gardes =>
            /\ passe'.gardes[d].contenu = c
            /\ passe'.gardes[d].version = passe.gardes[d].version
            /\ \/ passe'.gardes[d].erreur = "aucune" /\ <<d, c>> \in index'
               \/ passe'.gardes[d].erreur = "passagere"
               \/ passe'.gardes[d].erreur = "definitive" /\ c \in Illisibles
      /\ index \subseteq index'
      /\ UNCHANGED <<dehors, cfg, sources, depuis>>
  BY EnvoyerPas DEF Inv
<1>2. passe' \notin Avant
  <2>1. TypeOK'
    BY ApresType DEF Inv
  <2> QED
    BY <1>1, <2>1, Etapes
<1> HIDE DEF c
<1> SUFFICES ASSUME depuis = 0, ~passe.partiel
             PROVE  Triee(passe)'
  BY <1>1, <1>2 DEF Savoir
<1>3. Triee(passe) /\ espace' = espace
  BY <1>1 DEF Inv, Savoir, dehors
<1>4. ASSUME NEW e \in DOMAIN passe'.gardes
      PROVE  /\ passe'.gardes[e].contenu = passe.gardes[e].contenu
             /\ Exacte(e, passe'.gardes[e].version, passe'.gardes[e].contenu)
             /\ e \notin passe'.a_envoyer => Servie(e, passe.gardes[e])'
  <2>1. CASE e = d
    BY <1>1, <1>3, <2>1 DEF Triee, Exacte, Servie, c
  <2>2. CASE e # d
    BY <1>1, <1>3, <2>2 DEF Triee, Servie
  <2> QED
    BY <2>1, <2>2
<1>5. \A e \in DOMAIN passe.ecartes : Ecartee(e, passe.ecartes[e], passe.gardes)
  BY <1>3 DEF Triee, Fondes
<1>6. \A e \in DOMAIN passe.ecartes : Ecartee(e, passe.ecartes[e], passe'.gardes)
  BY <1>1, <1>4, <1>5 DEF Ecartee
<1> QED
  BY <1>1, <1>3, <1>4, <1>6 DEF Triee, Exacte, Servie, Fondes, Ecartee

\* The end of a pass: what it kept is what is known.
LEMMA EcrireSavoir ==
    ASSUME Inv, Ecrire
    PROVE  Savoir'
<1>1. /\ passe \in Apres /\ passe' = Repos /\ espace' = espace /\ index' = index
      /\ cfg'.documents = passe.gardes /\ cfg'.ecartes = passe.ecartes
      /\ depuis' = IF passe.partiel THEN Coupee ELSE depuis
      /\ passe.a_envoyer = {}
  BY Etapes DEF Ecrire, dehors, openrag, Inv, TypeOK, Rangement
<1>2. depuis' = 0 => depuis = 0 /\ ~passe.partiel
  BY <1>1 DEF Coupee
<1>3. depuis' = 0 => Triee(passe)
  BY <1>1, <1>2 DEF Inv, Savoir
<1>4. depuis' = 0 => Sus(cfg.documents, cfg.ecartes)'
  BY <1>1, <1>3 DEF Triee, Sus, Su, Exacte, Servie, Fondes, Ecartee
<1>5. passe' \notin Avant /\ passe' \notin Apres
  BY <1>1 DEF Repos, Avant, Apres
<1> QED
  BY <1>4, <1>5 DEF Savoir

LEMMA NoterSavoir ==
    ASSUME Inv, Noter
    PROVE  Savoir'
<1>1. passe \in Apres /\ passe.etape = "envoyer"
  BY Etapes DEF Noter, Inv
<1>2. /\ passe' \in Apres /\ passe'.partiel = passe.partiel
      /\ passe'.gardes = passe.gardes /\ passe'.ecartes = passe.ecartes
      /\ passe'.a_envoyer = passe.a_envoyer /\ passe'.a_retirer = passe.a_retirer
      /\ espace' = espace /\ index' = index /\ depuis' = depuis
  BY <1>1 DEF Noter, Apres, dehors, openrag
<1>3. passe' \notin Avant
  <2>1. TypeOK'
    BY ApresType DEF Inv
  <2> QED
    BY <1>2, <2>1, Etapes
<1>4. depuis = 0 /\ ~passe.partiel => Triee(passe)
  BY <1>1 DEF Inv, Savoir
<1>5. depuis = 0 /\ ~passe.partiel => Triee(passe)'
  BY <1>2, <1>4 DEF Triee, Exacte, Servie, Fondes, Ecartee
<1> QED
  BY <1>2, <1>3, <1>5 DEF Savoir

LEMMA InterrompreSavoir == ASSUME Inv, Interrompre PROVE Savoir'
<1>1. depuis' # 0
  BY DEF Interrompre, Coupee
<1> QED
  BY <1>1 DEF Savoir

\* Every version that is noted somewhere is a number.
LEMMA VersionsNotees ==
    ASSUME TypeOK
    PROVE  /\ \A d \in Docs : espace[d].version \in Int
           /\ \A d \in DOMAIN cfg.documents : d \in Docs /\ cfg.documents[d].version \in Int
           /\ \A d \in DOMAIN cfg.ecartes : d \in Docs /\ cfg.ecartes[d].version \in Int
           /\ passe \in Avant =>
                 /\ \A d \in DOMAIN passe.liste : d \in Docs /\ passe.liste[d] \in Int
                 /\ \A d \in DOMAIN passe.connus : d \in Docs /\ passe.connus[d].version \in Int
                 /\ \A d \in DOMAIN passe.rejets : d \in Docs /\ passe.rejets[d].version \in Int
           /\ passe \in Apres =>
                 /\ \A d \in DOMAIN passe.gardes : d \in Docs /\ passe.gardes[d].version \in Int
                 /\ \A d \in DOMAIN passe.ecartes : d \in Docs /\ passe.ecartes[d].version \in Int
<1>1. Versions \subseteq Int
  BY BornesImportAssumption DEF Versions
<1>2. /\ \A f \in Partielles(Fiche) : \A d \in DOMAIN f : d \in Docs /\ f[d].version \in Int
      /\ \A f \in Partielles(Ecart) : \A d \in DOMAIN f : d \in Docs /\ f[d].version \in Int
      /\ \A f \in Partielles(Versions) : \A d \in DOMAIN f : d \in Docs /\ f[d] \in Int
  <2>1. ASSUME NEW f \in Partielles(Fiche), NEW d \in DOMAIN f
        PROVE  d \in Docs /\ f[d].version \in Int
    <3>1. d \in Docs /\ f[d] \in Fiche
      BY PartielleDe
    <3> QED
      BY <1>1, <3>1 DEF Fiche
  <2>2. ASSUME NEW f \in Partielles(Ecart), NEW d \in DOMAIN f
        PROVE  d \in Docs /\ f[d].version \in Int
    <3>1. d \in Docs /\ f[d] \in Ecart
      BY PartielleDe
    <3> QED
      BY <1>1, <3>1 DEF Ecart
  <2>3. ASSUME NEW f \in Partielles(Versions), NEW d \in DOMAIN f
        PROVE  d \in Docs /\ f[d] \in Int
    <3>1. d \in Docs /\ f[d] \in Versions
      BY PartielleDe
    <3> QED
      BY <1>1, <3>1
  <2> QED
    BY <2>1, <2>2, <2>3
<1>3. \A d \in Docs : espace[d].version \in Int
  BY <1>1 DEF TypeOK
<1>4. cfg.documents \in Partielles(Fiche) /\ cfg.ecartes \in Partielles(Ecart)
  BY DEF TypeOK
<1>5. passe \in Avant => /\ passe.liste \in Partielles(Versions)
                         /\ passe.connus \in Partielles(Fiche)
                         /\ passe.rejets \in Partielles(Ecart)
  BY DEF Avant
<1>6. passe \in Apres => passe.gardes \in Partielles(Fiche) /\ passe.ecartes \in Partielles(Ecart)
  BY DEF Apres
<1> QED
  BY <1>2, <1>3, <1>4, <1>5, <1>6

\* A document only goes forward, and what was late may become searchable.
LEMMA ExterieurSavoir ==
    ASSUME Inv, Exterieur
    PROVE  Savoir'
<1>1. /\ UNCHANGED <<cfg, passe, depuis>> /\ index \subseteq index'
      /\ \A d \in Docs : /\ espace'[d].version \in Int
                         /\ espace[d].version <= espace'[d].version
                         /\ espace'[d].version = espace[d].version => espace'[d] = espace[d]
  <2> USE VersionsNotees DEF Inv
  <2>1. ASSUME NEW d \in Docs, Modifier(d)
        PROVE  \A e \in Docs : /\ espace'[e].version \in Int
                               /\ espace[e].version <= espace'[e].version
                               /\ espace'[e].version = espace[e].version => espace'[e] = espace[e]
    <3>1. PICK c \in Contenus :
             espace' = [espace EXCEPT ![d] = [contenu |-> c, version |-> @.version + 1]]
      BY <2>1 DEF Modifier
    <3> QED
      BY <3>1 DEF TypeOK
  <2>2. CASE espace' = espace
    BY <2>2, ExterieurType DEF Exterieur, Modifier, Deplacer, LireTardivement, openrag, dehors
  <2> QED
    BY <2>1, <2>2 DEF Exterieur, Modifier, Deplacer, LireTardivement, openrag, dehors
<1>2. \A d \in Docs : espace[d].version \in Int
  BY VersionsNotees DEF Inv
<1> SUFFICES ASSUME depuis = 0
             PROVE  /\ passe \notin Apres => Sus(cfg.documents, cfg.ecartes)'
                    /\ passe \in Avant => Lue(passe)'
                    /\ passe \in Avant /\ passe.etape = "telecharger"
                          => Sus(passe.connus, passe.rejets)'
                    /\ passe \in Apres /\ ~passe.partiel => Triee(passe)'
  BY <1>1 DEF Savoir
<1>3. passe \notin Apres => Sus(cfg.documents, cfg.ecartes)'
  <2> SUFFICES ASSUME passe \notin Apres PROVE Sus(cfg.documents, cfg.ecartes)'
    OBVIOUS
  <2>1. Sus(cfg.documents, cfg.ecartes)
    BY DEF Inv, Savoir
  <2>2. /\ \A d \in DOMAIN cfg.documents : d \in Docs /\ cfg.documents[d].version \in Int
        /\ \A d \in DOMAIN cfg.ecartes : d \in Docs /\ cfg.ecartes[d].version \in Int
    BY VersionsNotees DEF Inv
  <2> QED
    BY <1>1, <1>2, <2>1, <2>2 DEF Sus, Su, Exacte, Servie, Fondes, Ecartee
<1>4. passe \in Avant /\ passe.etape = "telecharger" => Sus(passe.connus, passe.rejets)'
  <2> SUFFICES ASSUME passe \in Avant, passe.etape = "telecharger"
               PROVE  Sus(passe.connus, passe.rejets)'
    OBVIOUS
  <2>1. Sus(passe.connus, passe.rejets)
    BY DEF Inv, Savoir
  <2>2. /\ \A d \in DOMAIN passe.connus : d \in Docs /\ passe.connus[d].version \in Int
        /\ \A d \in DOMAIN passe.rejets : d \in Docs /\ passe.rejets[d].version \in Int
    BY VersionsNotees DEF Inv
  <2> QED
    BY <1>1, <1>2, <2>1, <2>2 DEF Sus, Su, Exacte, Servie, Fondes, Ecartee
<1>5. passe \in Avant => Lue(passe)'
  <2> SUFFICES ASSUME passe \in Avant PROVE Lue(passe)'
    OBVIOUS
  <2>1. Lue(passe) /\ DOMAIN passe.recus \cup passe.identiques \subseteq DOMAIN passe.liste
    BY DEF Inv, Savoir, Rangement, Rangee
  <2>2. \A d \in DOMAIN passe.liste : d \in Docs /\ passe.liste[d] \in Int
    BY VersionsNotees DEF Inv
  <2> QED
    BY <1>1, <1>2, <2>1, <2>2 DEF Lue, Exacte
<1>6. passe \in Apres /\ ~passe.partiel => Triee(passe)'
  <2> SUFFICES ASSUME passe \in Apres, ~passe.partiel PROVE Triee(passe)'
    OBVIOUS
  <2>1. Triee(passe)
    BY DEF Inv, Savoir
  <2>2. /\ \A d \in DOMAIN passe.gardes : d \in Docs /\ passe.gardes[d].version \in Int
        /\ \A d \in DOMAIN passe.ecartes : d \in Docs /\ passe.ecartes[d].version \in Int
    BY VersionsNotees DEF Inv
  <2> QED
    BY <1>1, <1>2, <2>1, <2>2 DEF Triee, Exacte, Servie, Fondes, Ecartee
<1> QED
  BY <1>3, <1>4, <1>5, <1>6

-----------------------------------------------------------------------------
(* Nothing is lost.                                                        *)

LEMMA InitInv == Init => Inv
<1> SUFFICES ASSUME Init PROVE Inv
  OBVIOUS
<1>1. /\ DOMAIN Vide = {} /\ Vide \in Partielles(Fiche) /\ Vide \in Partielles(Ecart)
  BY VidePartielle
<1>2. TypeOK
  BY <1>1, BornesImportAssumption DEF Init, TypeOK, Etats, Versions
<1>3. passe \notin Avant /\ passe \notin Apres
  BY DEF Init, Repos, Avant, Apres
<1>4. Sus(cfg.documents, cfg.ecartes)
  BY <1>1 DEF Init, Sus, Fondes
<1> QED
  BY <1>2, <1>3, <1>4 DEF Inv, Rangement, Savoir

LEMMA InvEtape == Inv /\ [Next]_vars => Inv'
<1> SUFFICES ASSUME Inv, [Next]_vars PROVE Inv'
  OBVIOUS
<1>1. TypeOK' /\ Rangement'
  BY TypeEtape DEF Inv
<1>2. CASE Avancer
  <2>1. CASE RienRecu
    <3>1. passe \in Avant
      BY <2>1, Etapes DEF RienRecu, Inv
    <3> QED
      BY <1>1, <2>1, <3>1, EchouerSavoir DEF RienRecu, Inv
  <2> QED
    BY <1>1, <1>2, <2>1, ListerSavoir, ComparerSavoir, TelechargerSavoir, CouperSavoir,
       TrierSavoir, RetirerSavoir, EnvoyerSavoir, NoterSavoir, EcrireSavoir DEF Avancer, Inv
<1>3. CASE UNCHANGED vars
  BY <1>1, <1>3 DEF vars, Inv, Savoir, Sus, Su, Exacte, Servie, Fondes, Ecartee, Lue, Triee
<1> QED
  BY <1>1, <1>2, <1>3, RouteSavoir, InterrompreSavoir, ExterieurSavoir DEF Next, Inv

LEMMA InvGarde == Spec => []Inv
BY InitInv, InvEtape, PTL DEF Spec

\* The configuration and the pass keep their shapes, whatever fails.
THEOREM TypesGardes == Spec => []TypeOK
<1>1. Inv => TypeOK
  BY DEF Inv
<1> QED
  BY <1>1, InvGarde, PTL

\* docs/resana.md, "Relais", "Memoire des ecartes" and "passageres": before a
\* pass is cut short, what a document of the folders holds is searchable, or
\* will be downloaded again, whatever was empty, refused, late, lost, left in
\* the queue, discarded or taken over by a duplicate on the way.
THEOREM RienPerdu == Spec => []RienNeSePerd
<1>1. Inv => RienNeSePerd
  <2> SUFFICES ASSUME Inv, depuis = 0, AuRepos, NEW d \in presents, Lisible(espace[d].contenu),
                      ~SeraRelu(d)
               PROVE  Cherchable(espace[d].contenu)
    BY DEF RienNeSePerd, Relais
  <2> DEFINE c == espace[d].contenu
             stables == Stables(Liste, cfg.documents, FALSE, {})
  <2>1. passe \notin Apres /\ Sus(cfg.documents, cfg.ecartes)
    BY Etapes DEF Inv, Savoir, AuRepos, Repos
  <2>2. Liste[d] = espace[d].version /\ c \notin Irrecevables /\ c \notin Illisibles
    BY DEF Liste, Lisible
  <2>3. /\ cfg.documents \in Partielles(Fiche) /\ cfg.ecartes \in Partielles(Ecart)
    BY DEF Inv, TypeOK
  \* A document that is known as it is, is searchable.
  <2>4. ASSUME NEW e \in stables
        PROVE  /\ e \in DOMAIN cfg.documents /\ e \in Docs
               /\ cfg.documents[e].contenu \notin Illisibles =>
                     <<e, cfg.documents[e].contenu>> \in index
               /\ cfg.documents[e].version = Liste[e]
    <3>1. e \in DOMAIN cfg.documents /\ cfg.documents[e].erreur # "passagere"
          /\ cfg.documents[e].version = Liste[e]
      BY DEF Stables, ARelire, ErreurPassagere, MemeVersion
    <3>2. e \in Docs /\ cfg.documents[e] \in Fiche
      BY <2>3, <3>1, PartielleDe
    <3> QED
      BY <2>1, <3>1, <3>2 DEF Sus, Su, Servie, Fiche
  <2>5. CASE d \in stables
    <3>1. cfg.documents[d].contenu = c
      BY <2>1, <2>2, <2>4, <2>5 DEF Sus, Su, Exacte
    <3> QED
      BY <2>2, <2>4, <2>5, <3>1 DEF Cherchable
  <2>6. CASE d \in ToujoursEcartes(Liste, cfg.documents, cfg.ecartes, FALSE, stables)
    <3>1. /\ d \in DOMAIN cfg.ecartes /\ cfg.ecartes[d].version = espace[d].version
          /\ cfg.ecartes[d].doublon_de \in stables \cup {Aucun}
      BY <2>2, <2>6 DEF ToujoursEcartes, MemeVersion
    <3>2. Ecartee(d, cfg.ecartes[d], cfg.documents)
      BY <2>1, <3>1 DEF Sus, Fondes
    <3>3. cfg.ecartes[d].doublon_de \in stables
      BY <2>2, <3>1, <3>2 DEF Ecartee
    <3>4. cfg.documents[cfg.ecartes[d].doublon_de].contenu = c
      BY <2>4, <3>1, <3>2, <3>3 DEF Ecartee
    <3> QED
      BY <2>2, <2>4, <3>3, <3>4 DEF Cherchable
  <2> QED
    BY <2>5, <2>6 DEF SeraRelu
<1> QED
  BY <1>1, InvGarde, PTL

-----------------------------------------------------------------------------
(* Nothing else is served, as long as every removal succeeds.              *)

\* The list of sources is written just before the configuration, and nothing
\* else changes either of them.
LEMMA ListesGardees ==
    ASSUME Inv, Listes, [Next]_vars
    PROVE  Listes'
<1>1. TypeOK /\ TypeOK' /\ Repos.etape = "repos"
  BY InvEtape DEF Inv, Repos
<1>2. CASE Route
  <2>1. CASE Importer \/ \E complet \in BOOLEAN, reprendre \in SUBSET Docs :
                            Synchroniser(complet, reprendre)
    <3>1. PICK complet \in BOOLEAN, reprendre \in SUBSET Docs, prete \in BOOLEAN :
             Lancer(complet, reprendre, prete)
      BY <2>1 DEF Importer, Synchroniser
    <3>2. passe' \in Avant
      BY <1>1, <3>1, LancerPas
    <3>3. cfg'.relie /\ cfg'.travail = "en_cours"
      <4>1. CASE Importer
        BY <4>1 DEF Importer
      <4>2. CASE cfg.relie /\ cfg' = [cfg EXCEPT !.travail = "en_cours"]
        BY <1>1, <4>2 DEF TypeOK
      <4> QED
        BY <2>1, <4>1, <4>2 DEF Synchroniser
    <3> QED
      BY <1>1, <3>2, <3>3, Etapes DEF Listes, AuRepos
  <2>2. CASE RelireLaQualite
    <3>1. DOMAIN Rattrapes(cfg.documents) = DOMAIN cfg.documents
      BY <1>1, RattrapesType DEF TypeOK
    <3>2. /\ cfg'.documents = Rattrapes(cfg.documents) /\ cfg'.travail = cfg.travail
          /\ passe' = Repos /\ sources' = sources /\ passe = Repos /\ cfg'.relie
      BY <1>1, <2>2 DEF RelireLaQualite, TypeOK
    <3> QED
      BY <1>1, <3>1, <3>2, Etapes DEF Listes, AuRepos
  <2> QED
    BY <1>2, <2>1, <2>2 DEF Route
<1>3. CASE Avancer
  <2>1. CASE cfg' = cfg /\ passe \in Avant /\ passe' \in Avant \cup Apres
             /\ passe'.etape # "ecrire" /\ sources' = sources
    BY <1>1, <2>1, Etapes DEF Listes, AuRepos
  <2>2. CASE Echouer /\ sources' = sources
    <3>1. cfg'.travail = "echec" /\ cfg'.relie /\ passe' = Repos
      <4>1. cfg.relie
        BY <1>1, <1>3, Etapes DEF Listes, Avancer, Lister, Comparer, Telecharger, Envoyer, Couper,
           Trier, RienRecu, Retirer, Noter, Ecrire
      <4> QED
        BY <1>1, <2>2, <4>1 DEF Echouer, TypeOK
    <3> QED
      BY <1>1, <3>1, Etapes DEF Listes, AuRepos
  <2>3. CASE Lister /\ ~Echouer
    <3>1. passe \in Avant /\ passe' \in Avant /\ passe'.etape = "comparer"
      <4>1. passe \in Avant
        BY <1>1, <2>3, Etapes DEF Lister
      <4>2. Liste \in Partielles(Versions)
        BY <1>1, ListeType
      <4> QED
        BY <2>3, <4>1, <4>2 DEF Lister, Avant
    <3> QED
      BY <2>1, <2>3, <3>1 DEF Lister
  <2>4. CASE Comparer
    BY <2>1, <2>4, ComparerPas DEF Inv
  <2>5. ASSUME NEW d \in Docs, Telecharger(d)
        PROVE  Listes'
    BY <2>1, <2>5, TelechargerPas DEF Inv
  <2>6. CASE Couper
    BY <2>1, <2>6, CouperPas DEF Inv
  <2>7. CASE Trier
    BY <2>1, <2>7, TrierPas DEF Inv
  <2>8. CASE Retirer
    <3>1. passe \in Apres /\ passe' \in Apres /\ passe'.etape = "envoyer" /\ UNCHANGED <<cfg, sources>>
      BY <2>8, RetirerPas DEF Inv
    <3> QED
      BY <1>1, <3>1, Etapes DEF Listes, AuRepos
  <2>9. ASSUME NEW d \in Docs, Envoyer(d)
        PROVE  Listes'
    <3>1. passe \in Apres /\ passe' \in Apres /\ passe'.etape = "envoyer" /\ UNCHANGED <<cfg, sources>>
      BY <2>9, EnvoyerPas DEF Inv
    <3> QED
      BY <1>1, <3>1, Etapes DEF Listes, AuRepos
  <2>10. CASE Noter
    <3>1. passe \in Apres
      BY <1>1, <2>10, Etapes DEF Noter
    <3>2. /\ passe'.etape = "ecrire" /\ passe'.gardes = passe.gardes
          /\ sources' = DOMAIN passe.gardes /\ cfg' = cfg
      BY <2>10, <3>1 DEF Noter, Apres
    <3> QED
      BY <1>1, <3>1, <3>2, Etapes DEF Listes, AuRepos
  <2>11. CASE Ecrire
    <3>1. passe \in Apres /\ passe.etape = "ecrire"
      BY <1>1, <2>11, Etapes DEF Ecrire
    <3>2. passe' = Repos /\ sources' = sources /\ cfg'.documents = passe.gardes /\ cfg'.relie
      BY <1>1, <2>11 DEF Ecrire, Listes, TypeOK
    <3> QED
      BY <1>1, <3>1, <3>2, Etapes DEF Listes, AuRepos
  <2> QED
    BY <1>3, <2>2, <2>3, <2>4, <2>5, <2>6, <2>7, <2>8, <2>9, <2>10, <2>11
       DEF Avancer, Lister, RienRecu
<1>4. CASE Interrompre
  <2>1. passe' = Repos /\ cfg'.travail \in {"echec", "en_cours"} /\ cfg'.relie
    BY <1>1, <1>4 DEF Interrompre, Listes, TypeOK
  <2> QED
    BY <1>1, <2>1, Etapes DEF Listes, AuRepos
<1>5. CASE UNCHANGED <<cfg, sources, passe>>
  BY <1>5 DEF Listes, AuRepos
<1> QED
  BY <1>2, <1>3, <1>4, <1>5 DEF Next, Exterieur, Modifier, Deplacer, LireTardivement, vars

LEMMA RattrapesPorte ==
    ASSUME NEW docs \in Partielles(Fiche), Porte(docs)
    PROVE  Porte(Rattrapes(docs))
<1>1. DOMAIN Rattrapes(docs) = DOMAIN docs
      /\ \A d \in DOMAIN docs : Rattrapes(docs)[d].contenu = docs[d].contenu
  BY RattrapesType
<1> QED
  BY <1>1 DEF Porte

LEMMA AvantPortes ==
    ASSUME Inv, Portes, passe \in Avant, passe' \in Avant,
           UNCHANGED <<dehors, cfg, sources, openrag, depuis>>,
           passe'.etape = "telecharger" =>
               \/ passe.etape = "telecharger" /\ passe'.connus = passe.connus
               \/ passe'.connus \in {cfg.documents, Rattrapes(cfg.documents)}
    PROVE  Portes'
<1>1. /\ TypeOK /\ TypeOK' /\ passe \notin Apres /\ passe' \notin Apres
      /\ UNCHANGED <<cfg, index, lecture, depuis>>
  <2>1. TypeOK /\ UNCHANGED <<cfg, index, lecture, depuis>>
    BY DEF Inv, openrag
  <2>2. TypeOK'
    BY DEF Inv, TypeOK, dehors, openrag
  <2> QED
    BY <2>1, <2>2, Etapes
<1> SUFFICES ASSUME depuis = 0
             PROVE  /\ Porte(cfg.documents)'
                    /\ passe'.etape = "telecharger" => Porte(passe.connus)'
  BY <1>1 DEF Portes
<1>2. Porte(cfg.documents)
  BY <1>1 DEF Portes
<1>3. Porte(cfg.documents)'
  BY <1>1, <1>2 DEF Porte
<1>4. Porte(Rattrapes(cfg.documents))
  BY <1>1, <1>2, RattrapesPorte DEF TypeOK
<1>5. passe'.etape = "telecharger" => Porte(passe'.connus)
  BY <1>2, <1>4 DEF Portes
<1>6. passe'.etape = "telecharger" => Porte(passe.connus)'
  BY <1>1, <1>5 DEF Porte
<1> QED
  BY <1>3, <1>6

\* The configuration keeps its notes, or what OpenRAG has read of them.
LEMMA ReposPortes ==
    ASSUME Inv, Portes, passe \notin Apres, TypeOK', passe' = Repos,
           UNCHANGED <<index, lecture>>, depuis' = 0 => depuis = 0,
           cfg'.documents \in {cfg.documents, Rattrapes(cfg.documents)}
    PROVE  Portes'
<1>1. passe' \notin Avant /\ passe' \notin Apres
  BY DEF Repos, Avant, Apres
<1>2. depuis' = 0 => Porte(cfg.documents)
  BY DEF Portes
<1>3. depuis' = 0 => Porte(Rattrapes(cfg.documents))
  BY <1>2, RattrapesPorte DEF Inv, TypeOK
<1>4. depuis' = 0 => Porte(cfg'.documents)
  BY <1>2, <1>3
<1>5. depuis' = 0 => Porte(cfg.documents)'
  BY <1>4 DEF Porte
<1> QED
  BY <1>1, <1>5 DEF Portes

LEMMA RoutePortes ==
    ASSUME Inv, Listes, Portes, Route
    PROVE  Portes'
<1>1. TypeOK /\ TypeOK' /\ passe = Repos /\ passe \notin Apres /\ UNCHANGED <<index, lecture>>
  BY RouteType, Etapes DEF Inv, Route, Importer, Synchroniser, RelireLaQualite, Repos, openrag
<1>2. CASE RelireLaQualite
  <2>1. cfg'.documents = Rattrapes(cfg.documents) /\ passe' = Repos /\ depuis' = depuis
    BY <1>1, <1>2 DEF RelireLaQualite, TypeOK
  <2> QED
    BY <1>1, <2>1, ReposPortes
<1>3. ASSUME NEW complet \in BOOLEAN, NEW reprendre \in SUBSET Docs,
             Synchroniser(complet, reprendre)
      PROVE  Portes'
  <2>1. PICK prete \in BOOLEAN : Lancer(complet, reprendre, prete)
    BY <1>3 DEF Synchroniser
  <2>2. passe' \in Avant /\ passe'.etape # "telecharger"
    BY <1>1, <2>1, LancerPas
  <2>3. cfg'.documents = cfg.documents
    BY <1>1, <1>3 DEF Synchroniser, TypeOK
  <2>4. depuis' = 0 => depuis = 0
    BY <1>1, <1>3, BornesImportAssumption DEF Synchroniser, TypeOK
  <2>5. depuis' = 0 => Porte(cfg.documents)
    BY <1>1, <2>4 DEF Portes
  <2>6. depuis' = 0 => Porte(cfg.documents)'
    BY <1>1, <2>3, <2>5 DEF Porte
  <2> QED
    BY <1>1, <2>2, <2>6, Etapes DEF Portes
<1>4. CASE Importer
  <2>1. PICK prete \in BOOLEAN : Lancer(FALSE, {}, prete)
    BY <1>4 DEF Importer
  <2>2. passe' \in Avant /\ passe'.etape # "telecharger"
    BY <1>1, <2>1, LancerPas
  <2>3. depuis' = depuis /\ DOMAIN cfg.documents = {}
    BY <1>4 DEF Importer, Listes
  <2>4. depuis' = 0 => index \cup lecture = {}
    BY <1>1, <2>3 DEF Portes, Porte
  <2>5. depuis' = 0 => Porte(cfg.documents)'
    BY <1>1, <2>4 DEF Porte
  <2> QED
    BY <1>1, <2>2, <2>5, Etapes DEF Portes
<1> QED
  BY <1>2, <1>3, <1>4 DEF Route

\* The sorting: what OpenRAG has is to be taken out, or is kept as it is.
LEMMA TrierPortes ==
    ASSUME Inv, Portes, Trier
    PROVE  Portes'
<1> DEFINE p == passe'
<1>1. /\ passe \in Avant /\ Rangee(passe) /\ passe.etape = "telecharger"
      /\ p \in Apres
      /\ UNCHANGED <<dehors, cfg, sources, openrag, depuis>>
  BY TrierPas DEF Inv
<1>2. TypeOK' /\ p \notin Avant /\ UNCHANGED <<index, lecture, depuis>>
  BY <1>1, TrierType, Etapes DEF Inv, openrag
<1> SUFFICES ASSUME depuis = 0, ~p.partiel, NEW i \in index \cup lecture
             PROVE  \/ i \in p.a_retirer
                    \/ i[1] \in DOMAIN p.gardes \ p.a_envoyer /\ i[2] = p.gardes[i[1]].contenu
  BY <1>1, <1>2 DEF Portes
<1>3. i[1] \in DOMAIN passe.connus /\ i[2] = passe.connus[i[1]].contenu
  BY <1>1 DEF Portes, Porte
<1>4. i = AncienIdentifiant(i[1])
  BY <1>3 DEF AncienIdentifiant, Inv, TypeOK, Identifiants
<1>5. /\ p.a_envoyer \subseteq DOMAIN passe.recus
      /\ DOMAIN p.gardes = p.a_envoyer \cup DOMAIN Conserves
      /\ \A d \in DOMAIN Conserves : p.gardes[d] = Conserves[d]
      /\ p.a_retirer = {AncienIdentifiant(d) : d \in
             (DOMAIN passe.recus \cap DOMAIN passe.connus)
                \cup (DOMAIN passe.connus \ DOMAIN p.gardes)}
  BY TrierPas DEF Inv
<1>6. /\ DOMAIN Conserves \cap DOMAIN passe.recus = {}
      /\ \A d \in DOMAIN Conserves : Conserves[d].contenu = passe.connus[d].contenu
  BY <1>1, ConservesType
<1>7. CASE i[1] \in DOMAIN passe.recus \/ i[1] \notin DOMAIN p.gardes
  BY <1>3, <1>4, <1>5, <1>7
<1>8. CASE i[1] \notin DOMAIN passe.recus /\ i[1] \in DOMAIN p.gardes
  BY <1>3, <1>5, <1>6, <1>8
<1> QED
  BY <1>7, <1>8

\* Every removal succeeds: what is left is kept.
LEMMA RetirerPortes ==
    ASSUME SansReste, Inv, Portes, Retirer
    PROVE  Portes'
<1>1. /\ passe \in Apres /\ passe' \in Apres /\ passe'.partiel = passe.partiel
      /\ passe'.gardes = passe.gardes /\ passe'.a_envoyer = passe.a_envoyer
      /\ index' \cup lecture' \subseteq (index \cup lecture) \ passe.a_retirer
      /\ depuis' = depuis
  BY RetirerPas DEF Inv
<1>2. passe' \notin Avant
  BY <1>1, RetirerType, Etapes DEF Inv
<1> QED
  BY <1>1, <1>2 DEF Portes

\* A new version is the only one its document has.
LEMMA EnvoyerPortes ==
    ASSUME SansReste, Inv, Portes, NEW d \in Docs, Envoyer(d)
    PROVE  Portes'
<1> DEFINE c == passe.gardes[d].contenu
<1>1. /\ passe \in Apres /\ passe' \in Apres /\ d \in passe.a_envoyer
      /\ passe.etape = "envoyer" /\ passe'.partiel = passe.partiel
      /\ passe'.a_envoyer = passe.a_envoyer \ {d}
      /\ DOMAIN passe'.gardes \in {DOMAIN passe.gardes, DOMAIN passe.gardes \ {d}}
      /\ \A e \in DOMAIN passe'.gardes \ {d} : passe'.gardes[e] = passe.gardes[e]
      /\ d \in DOMAIN passe'.gardes => passe'.gardes[d].contenu = c
      /\ index' \cup lecture' \subseteq index \cup lecture \cup {<<d, c>>}
      /\ d \notin DOMAIN passe'.gardes => index' \cup lecture' \subseteq index \cup lecture
      /\ depuis' = depuis
  BY EnvoyerPas DEF Inv
<1>2. passe' \notin Avant
  <2>1. TypeOK'
    BY ApresType DEF Inv
  <2> QED
    BY <1>1, <2>1, Etapes
<1>3. passe.a_retirer = {}
  BY <1>1 DEF Inv, Rangement
<1> HIDE DEF c
<1> SUFFICES ASSUME depuis = 0, ~passe.partiel, NEW i \in index' \cup lecture'
             PROVE  /\ i[1] \in DOMAIN passe'.gardes \ passe'.a_envoyer
                    /\ i[2] = passe'.gardes[i[1]].contenu
  BY <1>1, <1>2 DEF Portes
<1>4. CASE i \in index \cup lecture
  <2>1. i[1] \in DOMAIN passe.gardes \ passe.a_envoyer /\ i[2] = passe.gardes[i[1]].contenu
    BY <1>1, <1>3, <1>4 DEF Portes
  <2> QED
    BY <1>1, <2>1
<1>5. CASE i \notin index \cup lecture
  <2>1. i = <<d, c>> /\ d \in DOMAIN passe'.gardes
    BY <1>1, <1>5
  <2> QED
    BY <1>1, <2>1
<1> QED
  BY <1>4, <1>5

\* Once everything is sent, what OpenRAG has is what the pass kept.
LEMMA EcrirePortes ==
    ASSUME Inv, Portes, Ecrire
    PROVE  Portes'
<1>1. /\ passe \in Apres /\ passe' = Repos /\ UNCHANGED <<index, lecture>>
      /\ cfg'.documents = passe.gardes
      /\ depuis' = IF passe.partiel THEN Coupee ELSE depuis
      /\ passe.a_retirer = {}
  BY Etapes DEF Ecrire, openrag, Inv, TypeOK, Rangement
<1>2. depuis' = 0 => depuis = 0 /\ ~passe.partiel
  BY <1>1 DEF Coupee
<1>3. depuis' = 0 => Porte(cfg.documents)'
  BY <1>1, <1>2 DEF Portes, Porte
<1>4. passe' \notin Avant /\ passe' \notin Apres
  BY <1>1 DEF Repos, Avant, Apres
<1> QED
  BY <1>3, <1>4 DEF Portes

LEMMA NoterPortes ==
    ASSUME Inv, Portes, Noter
    PROVE  Portes'
<1>1. passe \in Apres
  BY Etapes DEF Noter, Inv
<1>2. /\ passe' \in Apres /\ passe'.partiel = passe.partiel
      /\ passe'.gardes = passe.gardes /\ passe'.a_retirer = passe.a_retirer
      /\ passe'.a_envoyer = passe.a_envoyer /\ UNCHANGED <<index, lecture, depuis>>
  BY <1>1 DEF Noter, Apres, openrag
<1>3. passe' \notin Avant
  <2>1. TypeOK'
    BY ApresType DEF Inv
  <2> QED
    BY <1>2, <2>1, Etapes
<1> QED
  BY <1>1, <1>2, <1>3 DEF Portes

\* What was late moves from the queue to the index, or leaves it.
LEMMA ExterieurPortes ==
    ASSUME Inv, Portes, Exterieur
    PROVE  Portes'
<1>1. index' \cup lecture' \subseteq index \cup lecture /\ UNCHANGED <<cfg, passe, depuis>>
  BY DEF Exterieur, Modifier, Deplacer, LireTardivement, openrag
<1> QED
  BY <1>1 DEF Portes, Porte

LEMMA InvPorteEtape == SansReste /\ InvPorte /\ [Next]_vars => InvPorte'
<1> SUFFICES ASSUME SansReste, InvPorte, [Next]_vars PROVE InvPorte'
  OBVIOUS
<1>1. Inv /\ TypeOK /\ Rangement /\ Listes /\ Portes
  BY DEF InvPorte, Inv
<1>2. Inv' /\ TypeOK' /\ Listes'
  BY <1>1, InvEtape, ListesGardees DEF Inv
<1> SUFFICES Portes'
  BY <1>2 DEF InvPorte
<1>3. CASE Avancer
  <2>1. CASE Lister \/ RienRecu
    <3>1. passe \in Avant /\ passe \notin Apres
      BY <1>1, <2>1, Etapes DEF Lister, RienRecu, Inv
    <3>2. UNCHANGED <<index, lecture, depuis>>
      BY <2>1 DEF Lister, RienRecu, Echouer, openrag
    <3>3. CASE Echouer
      <4>1. passe' = Repos /\ cfg'.documents = cfg.documents
        BY <1>1, <3>3 DEF Echouer, Inv, TypeOK
      <4> QED
        BY <1>1, <1>2, <3>1, <3>2, <4>1, ReposPortes
    <3>4. CASE ~Echouer
      <4>1. Liste \in Partielles(Versions)
        BY <1>1, ListeType DEF Inv
      <4>2. /\ passe' = [passe EXCEPT !.etape = "comparer", !.liste = Liste]
            /\ UNCHANGED <<dehors, cfg, sources, openrag, depuis>>
        BY <2>1, <3>4 DEF Lister, RienRecu
      <4>3. passe' \in Avant /\ passe'.etape # "telecharger"
        BY <3>1, <4>1, <4>2 DEF Avant
      <4> QED
        BY <1>1, <3>1, <4>2, <4>3, AvantPortes
    <3> QED
      BY <3>3, <3>4
  <2>2. CASE Comparer
    BY <1>1, <2>2, ComparerPas, AvantPortes
  <2>3. ASSUME NEW d \in Docs, Telecharger(d)
        PROVE  Portes'
    BY <1>1, <2>3, TelechargerPas, AvantPortes
  <2>4. CASE Couper
    BY <1>1, <2>4, CouperPas, AvantPortes
  <2> QED
    BY <1>1, <1>3, <2>1, <2>2, <2>3, <2>4, TrierPortes, RetirerPortes, EnvoyerPortes,
       NoterPortes, EcrirePortes DEF Avancer
<1>4. CASE Interrompre
  <2>1. depuis' # 0
    BY <1>4 DEF Interrompre, Coupee
  <2> QED
    BY <2>1 DEF Portes
<1>5. CASE UNCHANGED vars
  BY <1>1, <1>5 DEF vars, Portes, Porte
<1> QED
  BY <1>1, <1>3, <1>4, <1>5, RoutePortes, ExterieurPortes DEF Next

\* sources_resana, "son ancienne version ne doit pas rester seule": when every
\* removal succeeds and no task of OpenRAG is lost, the list of sources after a
\* pass is the list of the documents that are kept, and as long as no pass was
\* cut short the index neither holds nor will come to hold another document or
\* another version.
THEOREM SansFantomes ==
    ASSUME SansReste
    PROVE  Spec => []SansFantome
<1>1. Init => InvPorte
  <2> SUFFICES ASSUME Init PROVE InvPorte
    OBVIOUS
  <2>1. DOMAIN Vide = {}
    BY VidePartielle
  <2>2. passe \notin Avant /\ passe \notin Apres
    BY DEF Init, Repos, Avant, Apres
  <2>3. Listes /\ Portes
    BY <2>1, <2>2 DEF Init, Listes, AuRepos, Portes, Porte
  <2> QED
    BY <2>3, InitInv DEF InvPorte
<1>2. InvPorte => SansFantome
  <2> SUFFICES ASSUME InvPorte, AuRepos PROVE SansFantome
    BY DEF SansFantome
  <2>1. passe \notin Apres
    BY DEF AuRepos, Repos, Apres
  <2> QED
    BY <2>1 DEF InvPorte, Listes, Portes, Porte, SansFantome
<1> QED
  BY <1>1, <1>2, InvPorteEtape, PTL DEF Spec

=============================================================================
