------------------------------ MODULE Amorces ------------------------------
(***************************************************************************)
(* One amorce: a collection filled from open data by a connector           *)
(* (routers/amorces.py, services/amorces/*, the amorce table).             *)
(*                                                                         *)
(* The source publishes files, here one per month with one document each;  *)
(* a month may not be published yet.  An import marks the row "en_cours",  *)
(* may purge, downloads, sends what is not known yet, notes the documents  *)
(* in one commit, then the coverage and its end in two more.  The connector*)
(* of the administrative courts remembers the months it has done (memoire) *)
(* and takes the first MaxParRun others; the other connectors download     *)
(* everything each time.  Imports overlap: the route looks at the row      *)
(* before it marks it, the command line does not look.                     *)
(*                                                                         *)
(* A document is sent whole or not (a refused chunk is counted, not        *)
(* raised).  The option --max-documents is left out.                       *)
(***************************************************************************)
EXTENDS Integers, FiniteSets

CONSTANTS
    Mois,       \* the months of the source, in order: the documents
    MaxParRun,  \* parametres.max_mois_par_run
    Imports,    \* how many imports may be in flight together
    MaxVersion  \* bound on VERSION_DECOUPAGE

VARIABLES
    memoire,    \* is it the connector that remembers its months?
    paru,       \* the months the source has published
    decoupage,  \* VERSION_DECOUPAGE of the running release
    amorce,     \* the row of table amorce: state, months of its detail
    couverture, \* the months GrilleControle.couverture_json says imported
    connus,     \* source_files: the version of each document, 0 without a row
    index,      \* the documents searchable in OpenRAG, with their version
    import,     \* the imports in flight
    refuses,    \* history: the documents some chunk of which was refused
                \* since the last purge
    accrocs     \* history: what happened to the purges

vars == <<memoire, paru, decoupage, amorce, couverture, connus, index, import,
          refuses, accrocs>>

ETATS_IMPORT_AMORCE == {"jamais", "en_cours", "termine", "echec"}

Etapes == {"marquer", "vider", "oublier", "lancer", "telecharger", "envoyer",
           "noter", "echouer", "couvrir", "terminer"}

\* zero: the import was asked with a purge.  deja: the months of the previous
\* import.  faits: those of this one.  lus: the rows it read and will update.
\* reste, envoyes: the documents to send and those sent.
Repos == [etape |-> "repos", zero |-> FALSE, deja |-> {}, faits |-> {},
          lus |-> {}, reste |-> {}, envoyes |-> {}]

Init == /\ memoire \in BOOLEAN
        /\ paru \in SUBSET Mois
        /\ decoupage = 1
        /\ amorce = [etat |-> "jamais", faits |-> {}]
        /\ couverture = {}
        /\ connus = [m \in Mois |-> 0]
        /\ index = {}
        /\ import = [i \in Imports |-> Repos]
        /\ refuses = {}
        /\ accrocs = {}

EnVol == {i \in Imports : import[i] # Repos}

\* The n smallest months of S: a_faire[:max_mois_par_run].
Premiers(S, n) == {m \in S : Cardinality({k \in S : k < m}) < n}

Premier(m, S) == \A k \in S : m <= k

\* Import i goes on at `etape`.
Va(i, etape) == import' = [import EXCEPT ![i].etape = etape]

\* What the end of import i, other than its success, does to its purge.
Accroc(i) ==
    IF ~import[i].zero \/ import[i].etape \in {"marquer", "vider"} THEN {}
    ELSE IF import[i].etape = "oublier" THEN {"coupee"}
    ELSE {"sans_suite"}

-----------------------------------------------------------------------------
(* The route, or the command line.                                         *)

\* An import begins; a purge that is not alone is noted.
Commencer(i, purger) ==
    /\ import[i] = Repos
    /\ import' = [import EXCEPT ![i] = [Repos EXCEPT !.etape = "marquer",
                                                    !.zero = purger]]
    /\ accrocs' = accrocs \cup
         (IF EnVol # {} /\ (purger \/ \E k \in EnVol : import[k].zero)
          THEN {"chevauchee"} ELSE {})
    /\ UNCHANGED <<memoire, paru, decoupage, amorce, couverture, connus, index,
                   refuses>>

\* importer: 409 while an import runs.
Importer(i, purger) == amorce.etat # "en_cours" /\ Commencer(i, purger)

\* cli._jouer looks at nothing.
Jouer(i, purger) == Commencer(i, purger)

\* marquer_amorce "en_cours": the detail of the last import stays.
Marquer(i) ==
    /\ import[i].etape = "marquer"
    /\ amorce' = [amorce EXCEPT !.etat = "en_cours"]
    /\ Va(i, IF import[i].zero THEN "vider" ELSE "lancer")
    /\ UNCHANGED <<memoire, paru, decoupage, couverture, connus, index, refuses,
                   accrocs>>

\* purger: the partition is erased and created again ...
Vider(i) ==
    /\ import[i].etape = "vider"
    /\ index' = {} /\ refuses' = {}
    /\ Va(i, "oublier")
    /\ UNCHANGED <<memoire, paru, decoupage, amorce, couverture, connus, accrocs>>

\* ... then the known documents are forgotten.
Oublier(i) ==
    /\ import[i].etape = "oublier"
    /\ connus' = [m \in Mois |-> 0]
    /\ Va(i, "lancer")
    /\ UNCHANGED <<memoire, paru, decoupage, amorce, couverture, index, refuses,
                   accrocs>>

\* Nothing catches an exception outside the connector, that of a purge or of a
\* write to the tables: the import ends there, and the row stays as it is.
Rompre(i) ==
    /\ import[i].etape \notin {"repos", "telecharger", "envoyer"}
    /\ accrocs' = accrocs \cup Accroc(i)
    /\ import' = [import EXCEPT ![i] = Repos]
    /\ UNCHANGED <<memoire, paru, decoupage, amorce, couverture, connus, index,
                   refuses>>

-----------------------------------------------------------------------------
(* _executer and the connector.                                            *)

\* What the previous import has done is read, unless this one purged.
Lancer(i) ==
    /\ import[i].etape = "lancer"
    /\ import' = [import EXCEPT ![i].etape = "telecharger",
                    ![i].deja = IF memoire /\ ~import[i].zero
                                THEN amorce.faits ELSE {}]
    /\ UNCHANGED <<memoire, paru, decoupage, amorce, couverture, connus, index,
                   refuses, accrocs>>

\* Plausible bug, in no specification: an absent month is counted as done.
Telecharger_AbsentCompte(i) ==
    LET a_faire == IF memoire THEN Premiers(Mois \ import[i].deja, MaxParRun)
                   ELSE Mois
        lot == a_faire \cap paru
    IN  /\ import[i].etape = "telecharger"
        /\ import' = [import EXCEPT
             ![i].etape = "envoyer", ![i].faits = a_faire,
             ![i].lus = {m \in lot : connus[m] \notin {0, decoupage}},
             ![i].reste = {m \in lot : connus[m] # decoupage}]
        /\ UNCHANGED <<memoire, paru, decoupage, amorce, couverture, connus, index,
                       refuses, accrocs>>

\* Plausible bug, in no specification: the text is compared, not the cutting.
Telecharger_EmpreinteSeule(i) ==
    LET a_faire == IF memoire THEN Premiers(Mois \ import[i].deja, MaxParRun)
                   ELSE Mois
        lot == a_faire \cap paru
    IN  /\ import[i].etape = "telecharger"
        /\ import' = [import EXCEPT
             ![i].etape = "envoyer", ![i].faits = lot,
             ![i].reste = {m \in lot : connus[m] = 0}]
        /\ UNCHANGED <<memoire, paru, decoupage, amorce, couverture, connus, index,
                       refuses, accrocs>>

\* The files are downloaded (an absent one, 404, is passed over), then ingerer
\* reads the rows: a document of the same text and cutting is left alone.
Telecharger(i) ==
    LET a_faire == IF memoire THEN Premiers(Mois \ import[i].deja, MaxParRun)
                   ELSE Mois
        lot == a_faire \cap paru
    IN  /\ import[i].etape = "telecharger"
        /\ import' = [import EXCEPT
             ![i].etape = "envoyer", ![i].faits = lot,
             ![i].lus = {m \in lot : connus[m] \notin {0, decoupage}},
             ![i].reste = {m \in lot : connus[m] # decoupage}]
        /\ UNCHANGED <<memoire, paru, decoupage, amorce, couverture, connus, index,
                       refuses, accrocs>>

\* Plausible bug, in no specification: a refused chunk ends the sending.
Envoyer_Cesse(i) ==
    \E m \in import[i].reste :
        /\ import[i].etape = "envoyer" /\ Premier(m, import[i].reste)
        /\ \/ /\ index' = index \cup {<<m, decoupage>>} /\ UNCHANGED refuses
              /\ import' = [import EXCEPT ![i].reste = @ \ {m},
                                          ![i].envoyes = @ \cup {m}]
           \/ /\ refuses' = refuses \cup {<<m, decoupage>>} /\ UNCHANGED index
              /\ import' = [import EXCEPT ![i].reste = {},
                              ![i].envoyes = @ \cup import[i].reste]
        /\ UNCHANGED <<memoire, paru, decoupage, amorce, couverture, connus, accrocs>>

\* ingerer sends the documents in order; a refused chunk is counted only.
Envoyer(i) ==
    \E m \in import[i].reste :
        /\ import[i].etape = "envoyer" /\ Premier(m, import[i].reste)
        /\ \/ index' = index \cup {<<m, decoupage>>} /\ UNCHANGED refuses
           \/ refuses' = refuses \cup {<<m, decoupage>>} /\ UNCHANGED index
        /\ import' = [import EXCEPT ![i].reste = @ \ {m},
                                    ![i].envoyes = @ \cup {m}]
        /\ UNCHANGED <<memoire, paru, decoupage, amorce, couverture, connus, accrocs>>

\* The rows of all the documents are committed at once; the update of a row
\* that another purge has deleted fails them all.
Noter(i) ==
    LET e == import[i].envoyes
        perdue == \E m \in import[i].lus : connus[m] = 0
    IN  /\ import[i].etape = "envoyer" /\ import[i].reste = {}
        /\ connus' = IF perdue THEN connus
                     ELSE [m \in Mois |-> IF m \in e THEN decoupage ELSE connus[m]]
        /\ Va(i, IF perdue THEN "echouer" ELSE "couvrir")
        /\ UNCHANGED <<memoire, paru, decoupage, amorce, couverture, index, refuses,
                       accrocs>>

\* The connector raises: a download other than a 404, a commit.
Lever(i) ==
    /\ import[i].etape \in {"telecharger", "envoyer"}
    /\ Va(i, "echouer")
    /\ UNCHANGED <<memoire, paru, decoupage, amorce, couverture, connus, index,
                   refuses, accrocs>>

\* marquer_amorce "echec": the detail of the last import stays.
Echouer(i) ==
    /\ import[i].etape = "echouer"
    /\ amorce' = [amorce EXCEPT !.etat = "echec"]
    /\ accrocs' = accrocs \cup Accroc(i)
    /\ import' = [import EXCEPT ![i] = Repos]
    /\ UNCHANGED <<memoire, paru, decoupage, couverture, connus, index, refuses>>

\* The months of the result: those of the previous import and its own.
Resultat(i) == import[i].deja \cup import[i].faits

\* poser_couverture, in a session of its own ...
Couvrir(i) ==
    /\ import[i].etape = "couvrir"
    /\ couverture' = Resultat(i)
    /\ Va(i, "terminer")
    /\ UNCHANGED <<memoire, paru, decoupage, amorce, connus, index, refuses, accrocs>>

\* ... then marquer_amorce "termine", with the detail.
Terminer(i) ==
    /\ import[i].etape = "terminer"
    /\ amorce' = [etat |-> "termine", faits |-> Resultat(i)]
    /\ import' = [import EXCEPT ![i] = Repos]
    /\ UNCHANGED <<memoire, paru, decoupage, couverture, connus, index, refuses,
                   accrocs>>

-----------------------------------------------------------------------------
(* The world.                                                              *)

\* The source publishes a month.
Paraitre(m) ==
    /\ m \notin paru
    /\ paru' = paru \cup {m}
    /\ UNCHANGED <<memoire, decoupage, amorce, couverture, connus, index, import,
                   refuses, accrocs>>

\* The pod stops, with every import and its command lines, and starts again,
\* maybe with a release that cuts the texts in another way.  No start looks at
\* the imports that were running.
Redemarrer ==
    /\ decoupage' \in {decoupage, decoupage + 1} \cap 1..MaxVersion
    /\ EnVol # {} \/ decoupage' # decoupage
    /\ accrocs' = accrocs \cup UNION {Accroc(i) : i \in EnVol}
    /\ import' = [i \in Imports |-> Repos]
    /\ UNCHANGED <<memoire, paru, amorce, couverture, connus, index, refuses>>

Demande(i) == \E purger \in BOOLEAN : Importer(i, purger) \/ Jouer(i, purger)

Execution(i) == \/ Marquer(i)
                \/ Vider(i)
                \/ Oublier(i)
                \/ Lancer(i)
                \/ Telecharger(i)
                \/ Envoyer(i)
                \/ Noter(i)
                \/ Echouer(i)
                \/ Couvrir(i)
                \/ Terminer(i)

Next == \/ \E i \in Imports : Demande(i) \/ Execution(i) \/ Rompre(i) \/ Lever(i)
        \/ \E m \in Mois : Paraitre(m)
        \/ Redemarrer

Spec == Init /\ [][Next]_vars

-----------------------------------------------------------------------------
(* Types and properties.                                                   *)

Versions == 1..MaxVersion

ImportEnVol == [etape : Etapes \cup {"repos"}, zero : BOOLEAN,
                deja : SUBSET Mois, faits : SUBSET Mois, lus : SUBSET Mois,
                reste : SUBSET Mois, envoyes : SUBSET Mois]

\* The rows keep the shape of models/db.py, and an import in flight holds
\* months of its source.
TypeOK == /\ memoire \in BOOLEAN
          /\ paru \subseteq Mois
          /\ decoupage \in Versions
          /\ amorce \in [etat : ETATS_IMPORT_AMORCE, faits : SUBSET Mois]
          /\ couverture \subseteq Mois
          /\ connus \in [Mois -> Versions \cup {0}]
          /\ index \subseteq Mois \X Versions
          /\ import \in [Imports -> ImportEnVol]
          /\ refuses \subseteq Mois \X Versions
          /\ accrocs \subseteq {"chevauchee", "coupee", "sans_suite"}

\* ingestion.py: "ce qui est compte a ete envoye".  A document the rows say
\* known in some version is searchable in it, or OpenRAG refused it: through
\* imports that overlap, fail or stop, and through purges, as long as no purge
\* was cut between the erasure and the rows or met another import.
ConnuServi ==
    (accrocs \subseteq {"sans_suite"} /\ \A i \in Imports : import[i].etape # "oublier")
        => \A m \in Mois : connus[m] # 0 => <<m, connus[m]>> \in index \cup refuses

\* A month the row or the grid says imported is not downloaded again: its
\* document is known, as long as every purge was followed by an import that
\* came to its end.
MoisServis ==
    (accrocs = {} /\ \A i \in EnVol : ~import[i].zero)
        => \A m \in amorce.faits \cup couverture : connus[m] # 0

\* An import that has noted its documents leaves none in an older cutting.
SansAncienDecoupage(i) ==
    import[i].etape \in {"couvrir", "terminer"}
        => \A m \in Mois : connus[m] \in {0, decoupage}

\* The connectors that download everything send again, at the next import,
\* every document an older release had cut (VERSION_DECOUPAGE).
ToutRepasseSansMemoire == ~memoire => \A i \in Imports : SansAncienDecoupage(i)

\* ingestion.py: "tout document deja connu repasse alors en nouvelle version
\* au prochain import, sans purge".
ToutRepasse == \A i \in Imports : SansAncienDecoupage(i)
=============================================================================
