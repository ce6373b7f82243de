---------------------------- MODULE ImportSource ----------------------------
(***************************************************************************)
(* A collection fed from a folder of Resana (or of Fichiers, by the same   *)
(* engine): the import, then the passes that read the folder again and send *)
(* OpenRAG what changed.  One collection, one pass at a time.              *)
(*                                                                         *)
(* The pass decides from the list alone which documents to download, keeps *)
(* one document per content, takes old versions out of the index, sends    *)
(* the new ones, and writes what it knows in the configuration at the very *)
(* end.  Every await is a step: the folder changes under it, OpenRAG reads *)
(* late, the process stops.                                                *)
(***************************************************************************)
EXTENDS Naturals, FiniteSets, Functions

CONSTANTS
    Docs,          \* the documents of the space
    Contenus,      \* what a document may hold, told apart by its fingerprint
    Irrecevables,  \* contents in a format that is not indexed
    Illisibles,    \* contents OpenRAG cannot read
    Defaillances,  \* what may go wrong
    MaxVersion,    \* bound: versions of a document
    MaxPasses,     \* bound: passes started after one was cut short
    Aucun          \* no document

ASSUME ContenusAssumption == Irrecevables \subseteq Contenus /\ Illisibles \subseteq Contenus
ASSUME DefaillancesAssumption ==
    Defaillances \subseteq {"vide", "droits", "coupure", "refus", "perdue", "retard",
                            "retrait", "file", "qualites", "exception", "arret"}
ASSUME BornesImportAssumption == MaxVersion \in Nat \ {0} /\ MaxPasses \in Nat
ASSUME AucunDocAssumption == Aucun \notin Docs

VARIABLES
    espace,   \* the documents as the space holds them: content, version announced
    presents, \* those that are in the folders of the perimeter
    cfg,      \* source_config_json
    sources,  \* the documents that have a row in source_files
    index,    \* the <<document, content>> that are searchable
    lecture,  \* those OpenRAG has accepted and has not read yet
    passe,    \* what the background task is doing
    depuis    \* 0 as long as every pass went to its end; then 1, and 1 more per pass

vars == <<espace, presents, cfg, sources, index, lecture, passe, depuis>>

dehors == <<espace, presents>>
openrag == <<index, lecture>>

Versions == 1 .. MaxVersion
Etats == {"aucun", "en_cours", "termine", "partiel", "echec"}

\* file_id is <<document, contenu>> (identifiant_dans_l_index).
Fiche == [contenu : Contenus, version : Versions,
          erreur : {"aucune", "passagere", "definitive"}]

Ecart == [version : Versions, doublon_de : Docs \cup {Aucun}]

Identifiants == Docs \X Contenus

\* A dictionary: what some of the documents have.
Partielles(T) == UNION {[S -> T] : S \in SUBSET Docs}

Repos == [etape |-> "repos"]

\* Before the sorting: what was listed, known, received.
\* After it: what is kept, discarded, still to take out and to send.
Avant == [etape : {"lister", "comparer", "telecharger"}, complet : BOOLEAN,
          reprendre : SUBSET Docs, liste : Partielles(Versions),
          connus : Partielles(Fiche),
          rejets : Partielles(Ecart),
          a_relire : SUBSET Docs, stables : SUBSET Docs,
          recus : Partielles(Contenus),
          identiques : SUBSET Docs, non_relus : SUBSET Docs, partiel : BOOLEAN]

Apres == [etape : {"retirer", "envoyer", "noter", "ecrire"},
          gardes : Partielles(Fiche),
          ecartes : Partielles(Ecart),
          a_retirer : SUBSET Identifiants, a_envoyer : SUBSET Docs, partiel : BOOLEAN]

Vide == <<>>

Init == /\ espace \in [Docs -> [contenu : Contenus, version : {1}]]
        /\ presents = Docs
        /\ cfg = [relie |-> FALSE, documents |-> Vide, ecartes |-> Vide, travail |-> "aucun"]
        /\ sources = {} /\ index = {} /\ lecture = {}
        /\ passe = Repos /\ depuis = 0

-----------------------------------------------------------------------------
(* What the list is enough to say: meme_version, a_relire, and the first   *)
(* part of _comparer_et_appliquer.                                         *)

Liste == [d \in presents |-> espace[d].version]

ErreurPassagere(f) == f.erreur = "passagere"

MemeVersion(version, note) == version = note.version

ARelire(liste, connus, d) ==
    \/ d \notin DOMAIN connus
    \/ ErreurPassagere(connus[d])
    \/ ~MemeVersion(liste[d], connus[d])

Stables(liste, connus, complet, reprendre) ==
    {d \in DOMAIN liste \ reprendre : ~complet /\ ~ARelire(liste, connus, d)}

\* Plausible bug, in no specification: a duplicate stays discarded whatever became of its original.
ToujoursEcartes_SansRelais(liste, connus, rejets, complet, stables) ==
    {d \in (DOMAIN liste \cap DOMAIN rejets) \ DOMAIN connus :
        ~complet /\ MemeVersion(liste[d], rejets[d])}

\* Discarded before, not downloaded again; a duplicate is, once its original
\* changes or goes away.
ToujoursEcartes(liste, connus, rejets, complet, stables) ==
    {d \in (DOMAIN liste \cap DOMAIN rejets) \ DOMAIN connus :
        /\ ~complet /\ MemeVersion(liste[d], rejets[d])
        /\ rejets[d].doublon_de \in stables \cup {Aucun}}

\* _rattraper_les_lectures_tardives: what OpenRAG has read since.
Rattrapes(connus) ==
    [d \in DOMAIN connus |->
        IF ErreurPassagere(connus[d]) /\ <<d, connus[d].contenu>> \in index
        THEN [connus[d] EXCEPT !.erreur = "aucune"] ELSE connus[d]]

-----------------------------------------------------------------------------
(* The routes.                                                             *)

Lancer(complet, reprendre, prete) ==
    passe' = [etape |-> IF prete THEN "comparer" ELSE "lister",
              complet |-> complet, reprendre |-> reprendre,
              liste |-> IF prete THEN Liste ELSE Vide,
              connus |-> Vide, rejets |-> Vide, a_relire |-> {}, stables |-> {},
              recus |-> Vide, identiques |-> {}, non_relus |-> {}, partiel |-> FALSE]

\* creer, ajouter: _lancer_import.  The list may still be in preparation.
Importer ==
    /\ passe = Repos /\ ~cfg.relie
    /\ \E prete \in BOOLEAN : /\ prete => presents # {}
                              /\ Lancer(FALSE, {}, prete)
    /\ cfg' = [relie |-> TRUE, documents |-> Vide, ecartes |-> Vide, travail |-> "en_cours"]
    /\ UNCHANGED <<dehors, sources, openrag, depuis>>

\* synchroniser; `reprendre` is what quality has made of some known documents.
Synchroniser(complet, reprendre) ==
    /\ passe = Repos /\ cfg.relie /\ depuis <= MaxPasses
    /\ reprendre \subseteq DOMAIN cfg.documents
    /\ \E prete \in BOOLEAN : /\ prete => presents # {}
                              /\ Lancer(complet, reprendre, prete)
    /\ cfg' = [cfg EXCEPT !.travail = "en_cours"]
    /\ depuis' = IF depuis = 0 THEN 0 ELSE depuis + 1
    /\ UNCHANGED <<dehors, sources, openrag>>

\* relire_la_qualite
RelireLaQualite ==
    /\ passe = Repos /\ cfg.relie
    /\ cfg' = [cfg EXCEPT !.documents = Rattrapes(@)]
    /\ UNCHANGED <<dehors, sources, openrag, passe, depuis>>

-----------------------------------------------------------------------------
(* _executer_passe                                                         *)

\* Plausible bug, in no specification: a state only statut computes is written.
Echouer_Interrompu == /\ cfg' = [cfg EXCEPT !.travail = "interrompu"]
                      /\ passe' = Repos
                      /\ UNCHANGED depuis

Echouer == /\ cfg' = [cfg EXCEPT !.travail = "echec"]
           /\ passe' = Repos
           /\ UNCHANGED depuis

Lister ==
    /\ passe.etape = "lister"
    /\ \/ (presents = {} \/ "coupure" \in Defaillances) /\ Echouer
       \/ /\ presents # {}
          /\ passe' = [passe EXCEPT !.etape = "comparer", !.liste = Liste]
          /\ UNCHANGED <<cfg, depuis>>
    /\ UNCHANGED <<dehors, sources, openrag>>

\* Late readings first, if OpenRAG answers; then what to download.
Comparer ==
    /\ passe.etape = "comparer"
    /\ \E repond \in {TRUE} \cup (IF "qualites" \in Defaillances THEN {FALSE} ELSE {}) :
         LET connus == IF repond THEN Rattrapes(cfg.documents) ELSE cfg.documents
             stables == Stables(passe.liste, connus, passe.complet, passe.reprendre)
             toujours == ToujoursEcartes(passe.liste, connus, cfg.ecartes, passe.complet, stables)
         IN  passe' = [passe EXCEPT
                 !.etape = "telecharger", !.connus = connus, !.stables = stables,
                 !.rejets = cfg.ecartes,
                 !.a_relire = DOMAIN passe.liste \ (stables \cup toujours)]
    /\ UNCHANGED <<dehors, cfg, sources, openrag, depuis>>

\* What has not changed since it was last read whole.
Identique(d, c) == /\ d \in DOMAIN passe.connus \ passe.reprendre
                   /\ passe.connus[d].contenu = c
                   /\ ~ErreurPassagere(passe.connus[d])

\* _rapatrier: a file, as it is now; or empty, or refused to that person.
Telecharger(d) ==
    /\ passe.etape = "telecharger" /\ d \in passe.a_relire
    /\ LET c == espace[d].contenu
           lu == [passe EXCEPT !.a_relire = @ \ {d}]
       IN  \/ d \in presents
                /\ passe' = IF Identique(d, c)
                            THEN [lu EXCEPT !.identiques = @ \cup {d}]
                            ELSE [lu EXCEPT !.recus = [e \in DOMAIN @ \cup {d} |->
                                                         IF e = d THEN c ELSE @[e]]]
           \/ "vide" \in Defaillances /\ passe' = [lu EXCEPT !.non_relus = @ \cup {d}]
           \/ ("droits" \in Defaillances \/ d \notin presents) /\ passe' = lu
    /\ UNCHANGED <<dehors, cfg, sources, openrag, depuis>>

\* ERREURS_BLOQUANTES: the session ends, the service or the disk gives up.
Couper ==
    /\ "coupure" \in Defaillances
    /\ passe.etape = "telecharger" /\ passe.a_relire # {}
    /\ passe' = [passe EXCEPT !.a_relire = {}, !.partiel = TRUE]
    /\ UNCHANGED <<dehors, cfg, sources, openrag, depuis>>

-----------------------------------------------------------------------------
(* _comparer_et_appliquer, once everything is received.                    *)

\* Known, and kept as they are: unchanged, read again the same, not readable now.
Conserves ==
    [d \in passe.stables \cup passe.identiques \cup (passe.non_relus \cap DOMAIN passe.connus) |->
        IF d \in passe.identiques
        THEN [passe.connus[d] EXCEPT !.version = passe.liste[d]] ELSE passe.connus[d]]

\* The received documents that may carry a content, the known ones first.
Candidats(c) ==
    LET recus  == {d \in DOMAIN passe.recus : passe.recus[d] = c}
        connus == recus \cap DOMAIN passe.connus
    IN  IF connus # {} THEN connus ELSE recus

\* The contents to index: received, acceptable, carried by no document kept.
Nouveaux == {passe.recus[d] : d \in DOMAIN passe.recus}
              \ (Irrecevables \cup {Conserves[d].contenu : d \in DOMAIN Conserves})

\* The discarded documents, each with the document that has its content.
Ecartes(porteurs, originaux) ==
    LET rejetes  == DOMAIN passe.recus \ porteurs
        toujours == ToujoursEcartes(passe.liste, passe.connus, passe.rejets,
                                    passe.complet, passe.stables)
    IN  [d \in rejetes \cup toujours |->
            IF d \in toujours THEN passe.rejets[d]
            ELSE [version |-> passe.liste[d],
                  doublon_de |-> IF passe.recus[d] \in Irrecevables THEN Aucun
                                 ELSE originaux[passe.recus[d]]]]

\* f, completed by g.
Completee(f, g) == [d \in DOMAIN f \cup DOMAIN g |-> IF d \in DOMAIN f THEN f[d] ELSE g[d]]

Disparus(vus) == IF passe.partiel THEN {} ELSE DOMAIN passe.connus \ DOMAIN vus

AncienIdentifiant(d) == <<d, passe.connus[d].contenu>>

\* Plausible bug, in no specification: a new version is thought to replace the old one.
ARetirer_SansRecus(vus, porteurs) == {AncienIdentifiant(d) : d \in Disparus(vus)}

\* The identifiers to take out: the old version of what was received, kept or
\* discarded, and the documents that are gone.
ARetirer(vus, porteurs) ==
    {AncienIdentifiant(d) : d \in (DOMAIN passe.recus \cap DOMAIN passe.connus) \cup Disparus(vus)}

\* A pass stopped on the way keeps what it did not read, and loses nobody.
Trier ==
    /\ passe.etape = "telecharger" /\ passe.a_relire = {}
    /\ ~(passe.partiel /\ passe.recus = Vide /\ passe.identiques = {})
    /\ \E originaux \in [Contenus -> Docs \cup {Aucun}] :
         LET porteurs == {originaux[c] : c \in Nouveaux}
             nouvelles == [d \in porteurs |-> [contenu |-> passe.recus[d],
                              version |-> passe.liste[d], erreur |-> "aucune"]]
             vus == Completee(nouvelles, Conserves)
             ecartes == Ecartes(porteurs, originaux)
         IN  /\ \A c \in Contenus :
                   IF c \in Nouveaux THEN originaux[c] \in Candidats(c)
                   ELSE IF \E d \in DOMAIN Conserves : Conserves[d].contenu = c
                   THEN originaux[c] \in {d \in DOMAIN Conserves : Conserves[d].contenu = c}
                   ELSE originaux[c] = Aucun
             /\ passe' = [etape |-> "retirer", partiel |-> passe.partiel,
                    gardes |-> IF passe.partiel THEN Completee(vus, passe.connus) ELSE vus,
                    ecartes |-> IF passe.partiel
                       THEN Completee(ecartes, Restrict(passe.rejets,
                               DOMAIN passe.rejets \ (DOMAIN vus \cup DOMAIN passe.connus)))
                       ELSE ecartes,
                    a_retirer |-> ARetirer(vus, porteurs),
                    a_envoyer |-> porteurs]
    /\ UNCHANGED <<dehors, cfg, sources, openrag, depuis>>

\* A pass was cut short.
Coupee == IF depuis = 0 THEN 1 ELSE depuis

\* Stopped before anything arrived: nothing is touched.
RienRecu ==
    /\ passe.etape = "telecharger" /\ passe.a_relire = {}
    /\ passe.partiel /\ passe.recus = Vide /\ passe.identiques = {}
    /\ Echouer
    /\ UNCHANGED <<dehors, sources, openrag>>

\* _retirer_de_l_index: a removal that fails is not tried again.
Retirer ==
    /\ passe.etape = "retirer"
    /\ \E rates \in SUBSET (IF "retrait" \in Defaillances THEN passe.a_retirer ELSE {}) :
          LET retires == passe.a_retirer \ rates
          IN  /\ index' = index \ retires
              /\ lecture' = IF "file" \in Defaillances THEN lecture ELSE lecture \ retires
    /\ passe' = [passe EXCEPT !.etape = "envoyer", !.a_retirer = {}]
    /\ UNCHANGED <<dehors, cfg, sources, depuis>>

\* _envoyer, _indexer_document_background.  Already there counts as sent; read,
\* or not readable; the reading takes too long; refused; the answer is lost.
Envoyer(d) ==
    /\ passe.etape = "envoyer" /\ d \in passe.a_envoyer
    /\ LET c == passe.gardes[d].contenu
           fait == [passe EXCEPT !.a_envoyer = @ \ {d}]
           note(erreur) == passe' = [fait EXCEPT !.gardes[d].erreur = erreur]
           oublie == passe' = [fait EXCEPT !.gardes = Restrict(@, DOMAIN @ \ {d})]
       IN  \/ /\ <<d, c>> \in index \/ c \notin Illisibles
              /\ index' = index \cup {<<d, c>>} /\ lecture' = lecture \ {<<d, c>>}
              /\ note("aucune")
           \/ /\ <<d, c>> \notin index /\ c \in Illisibles
              /\ note("definitive") /\ UNCHANGED <<index, lecture>>
           \/ /\ "retard" \in Defaillances /\ <<d, c>> \notin index
              /\ lecture' = lecture \cup {<<d, c>>} /\ UNCHANGED index
              /\ note("passagere")
           \/ /\ "refus" \in Defaillances
              /\ oublie /\ UNCHANGED <<index, lecture>>
           \/ /\ "perdue" \in Defaillances
              /\ lecture' = lecture \cup {<<d, c>>} /\ UNCHANGED index
              /\ oublie
    /\ UNCHANGED <<dehors, cfg, sources, depuis>>

\* _noter_sources, then _ecrire_config: two commits.
Noter ==
    /\ passe.etape = "envoyer" /\ passe.a_envoyer = {}
    /\ sources' = DOMAIN passe.gardes
    /\ passe' = [passe EXCEPT !.etape = "ecrire"]
    /\ UNCHANGED <<dehors, cfg, openrag, depuis>>

Ecrire ==
    /\ passe.etape = "ecrire"
    /\ cfg' = [cfg EXCEPT !.documents = passe.gardes, !.ecartes = passe.ecartes,
                          !.travail = IF passe.partiel THEN "partiel" ELSE "termine"]
    /\ passe' = Repos
    /\ depuis' = IF passe.partiel THEN Coupee ELSE depuis
    /\ UNCHANGED <<dehors, sources, openrag>>

\* An exception ends the pass where it is; so does the end of the process,
\* which leaves the work "en_cours" (statut then says "interrompu").
Interrompre ==
    /\ passe # Repos
    /\ passe' = Repos /\ depuis' = Coupee
    /\ \/ "exception" \in Defaillances /\ cfg' = [cfg EXCEPT !.travail = "echec"]
       \/ "arret" \in Defaillances /\ UNCHANGED cfg
    /\ UNCHANGED <<dehors, sources, openrag>>

-----------------------------------------------------------------------------
(* What happens outside.                                                   *)

\* A new version of a document, with the same content or another.
Modifier(d) ==
    /\ espace[d].version < MaxVersion
    /\ \E c \in Contenus :
         espace' = [espace EXCEPT ![d] = [contenu |-> c, version |-> @.version + 1]]
    /\ UNCHANGED <<presents, cfg, sources, openrag, passe, depuis>>

\* A document enters or leaves the folders: it is moved, deleted, put back, or
\* the importer changes the perimeter.
Deplacer(d) ==
    /\ presents' = IF d \in presents THEN presents \ {d} ELSE presents \cup {d}
    /\ UNCHANGED <<espace, cfg, sources, openrag, passe, depuis>>

\* OpenRAG comes to a document whose reading was given up on.
LireTardivement(i) ==
    /\ i \in lecture
    /\ lecture' = lecture \ {i}
    /\ index' = IF i[2] \in Illisibles THEN index ELSE index \cup {i}
    /\ UNCHANGED <<dehors, cfg, sources, passe, depuis>>

-----------------------------------------------------------------------------
Route == \/ Importer
         \/ \E complet \in BOOLEAN, reprendre \in SUBSET Docs : Synchroniser(complet, reprendre)
         \/ RelireLaQualite

Avancer == \/ Lister \/ Comparer
           \/ \E d \in Docs : Telecharger(d) \/ Envoyer(d)
           \/ Couper \/ Trier \/ RienRecu \/ Retirer \/ Noter \/ Ecrire

Exterieur == \/ \E d \in Docs : Modifier(d) \/ Deplacer(d)
             \/ \E i \in Identifiants : LireTardivement(i)

Next == Route \/ Avancer \/ Interrompre \/ Exterieur

Spec == Init /\ [][Next]_vars

-----------------------------------------------------------------------------
\* The configuration and the pass keep their shapes.
TypeOK == /\ espace \in [Docs -> [contenu : Contenus, version : Versions]]
          /\ presents \subseteq Docs
          /\ DOMAIN cfg = {"relie", "documents", "ecartes", "travail"}
          /\ cfg.relie \in BOOLEAN /\ cfg.travail \in Etats
          /\ cfg.documents \in Partielles(Fiche)
          /\ cfg.ecartes \in Partielles(Ecart)
          /\ sources \subseteq Docs
          /\ index \cup lecture \subseteq Identifiants
          /\ passe \in {Repos} \cup Avant \cup Apres
          /\ depuis \in 0 .. MaxPasses + 1

AuRepos == passe = Repos /\ cfg.travail \in {"termine", "partiel"}

\* What the next "Mettre a jour" would download.
SeraRelu(d) ==
    LET stables == Stables(Liste, cfg.documents, FALSE, {})
    IN  d \notin stables \cup ToujoursEcartes(Liste, cfg.documents, cfg.ecartes, FALSE, stables)

Lisible(c) == c \notin Irrecevables \cup Illisibles

Cherchable(c) == \E d \in Docs : <<d, c>> \in index

\* docs/resana.md, "Relais : si l'original change ou disparait, son doublon est
\* relu, et il porte alors le contenu : rien ne sort de l'index".
Relais ==
    AuRepos => \A d \in presents :
        Lisible(espace[d].contenu) => SeraRelu(d) \/ Cherchable(espace[d].contenu)

\* docs/resana.md, "Relais", "Memoire des ecartes" and "passageres": as long as
\* no pass was cut short, what a document of the folders holds is searchable,
\* under its own name or under that of a duplicate, or else the next pass
\* downloads it again; whatever was empty, refused, late, discarded, or taken
\* over by a duplicate on the way.
RienNeSePerd == depuis = 0 => Relais

\* sources_resana, "son ancienne version ne doit pas rester seule": after a
\* pass, the list of sources is the list of the documents that are kept, and
\* as long as no pass was cut short the index neither holds nor will come to
\* hold another document or another version.
SansFantome ==
    AuRepos =>
        /\ sources = DOMAIN cfg.documents
        /\ depuis = 0 => \A i \in index \cup lecture :
                          /\ i[1] \in DOMAIN cfg.documents
                          /\ i[2] = cfg.documents[i[1]].contenu
=============================================================================
