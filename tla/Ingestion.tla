----------------------------- MODULE Ingestion -----------------------------
(***************************************************************************)
(* Depositing files in a collection, indexing them in OpenRAG as background*)
(* tasks, resuming after a stop, reindexing.  One collection.              *)
(*                                                                         *)
(* A route commits the file, its row and the job in that order, then       *)
(* leaves a task behind.  Every await is a step: the tasks, the resumption *)
(* and the routes interleave in one event loop, and the process may stop   *)
(* between any two steps.  Of a text, the chunks are sent one by one; a    *)
(* document is sent whole and its reading is followed.                     *)
(***************************************************************************)
EXTENDS Naturals, Sequences, SequencesExt, FiniteSets

CONSTANTS
    Fichiers,      \* names of files
    Documents,     \* those OpenRAG reads and cuts itself
    Contenus,      \* what a file may hold
    Strategies,    \* ways of cutting a text
    Decoupe,       \* the chunks of a content, per strategy
    Requetes,      \* how many routes can be in flight together
    Reindexations, \* whether reindexing is asked for
    Pannes,        \* whether OpenRAG fails on a file and files are lost
    Refus,         \* which calls of a reindexing OpenRAG may refuse
    MaxTravaux,    \* bound: jobs created
    MaxArrets,     \* bound: stops of the process
    Rien           \* no file

\* The strategy of a document: OpenRAG cuts it.
STRATEGIE_DOCUMENT == "openrag"

Decoupages == Contenus \X (Strategies \cup {STRATEGIE_DOCUMENT})

ASSUME DocumentsAssumption == Documents \subseteq Fichiers
ASSUME FiniAssumption == IsFiniteSet(Fichiers) /\ IsFiniteSet(Requetes)
ASSUME DecoupeAssumption ==
    /\ DOMAIN Decoupe = Decoupages
    /\ \A d \in Decoupages : Decoupe[d] \in Seq(Range(Decoupe[d]))
ASSUME DocumentEntierAssumption ==
    \A c \in Contenus : Len(Decoupe[<<c, STRATEGIE_DOCUMENT>>]) <= 1
ASSUME BornesAssumption == MaxTravaux \in Nat /\ MaxArrets \in Nat
ASSUME RefusAssumption == Refus \subseteq {"vider", "recreer"}
ASSUME RienAssumption == Rien \notin Contenus

VARIABLES
    disque,   \* the source kept for each file name
    sources,  \* the file names that have a row in source_files
    travaux,  \* the rows of ingest_jobs, in order of creation
    annonces, \* how many "import.termine" events each job has
    tache,    \* what the task of each job is doing
    index,    \* what is searchable in the partition
    lecture,  \* the documents given to OpenRAG to read, and how it went
    requete,  \* what each route in flight is doing
    reprise,  \* the jobs the resumption still has to look at
    arrets    \* how many times the process has stopped

vars == <<disque, sources, travaux, annonces, tache, index, lecture,
          requete, reprise, arrets>>

memoire == <<tache, requete, reprise>>
tables  == <<sources, travaux, annonces>>
openrag == <<index, lecture>>

ETATS_EN_COURS == {"chunking", "uploading"}
Termines == {"done", "done_with_errors", "interrupted"}

Morceaux == UNION {Range(Decoupe[d]) : d \in Decoupages}

Travail == [fichier : Fichiers, strategie : Strategies \cup {STRATEGIE_DOCUMENT},
            statut : ETATS_EN_COURS \cup Termines,
            total : Nat, envoyes : Nat, echecs : Nat]

\* reste: the chunks not yet sent and counted; succes: how the last one went.
Tache == [etape : {"demarrer", "envoyer", "suivre", "compter", "finir", "annoncer"},
          origine : {"depot", "reprise"}, reste : Seq(Morceaux), succes : BOOLEAN]

Piece == [fichier : Fichiers, contenu : Contenus]

Lecture == [travail : 1 .. MaxTravaux, document : Morceaux,
            etat : {"en_cours", "lu", "echec"}]

\* suite: the files still to be taken in; the first is being taken in.
Route == [etape : {"vider", "recreer", "sauver", "noter", "creer", "lancer"},
          strategie : Strategies, suite : Seq(Piece), travail : 0 .. MaxTravaux]

Repos == [etape |-> "repos"]
Numeros == 1 .. MaxTravaux

Init == /\ disque = [f \in Fichiers |-> Rien]
        /\ sources = {}
        /\ travaux = <<>>
        /\ annonces = [j \in Numeros |-> 0]
        /\ tache = [j \in Numeros |-> Repos]
        /\ index = {} /\ lecture = {}
        /\ requete = [p \in Requetes |-> Repos]
        /\ reprise = {}
        /\ arrets = 0

-----------------------------------------------------------------------------
StrategieDe(f, s) == IF f \in Documents THEN STRATEGIE_DOCUMENT ELSE s

\* The jobs the routes in flight will still create: route p, for its nth file.
Attente == {a \in Requetes \X Numeros :
              LET p == a[1]
                  n == a[2]
              IN  /\ requete[p] # Repos
                  /\ n <= Len(requete[p].suite)
                  /\ n > 1 \/ requete[p].etape # "lancer"}

Attendus == Cardinality(Attente)

PlacePour(n) == Len(travaux) + Attendus + n <= MaxTravaux

Aller(p, r) == requete' = [requete EXCEPT ![p] = r]

Etape(p, e) == requete[p].etape = e

Courante(p) == Head(requete[p].suite)

TacheEn(j, e) == j <= Len(travaux) /\ tache[j].etape = e

Passer(j, t) == tache' = [tache EXCEPT ![j] = t]

\* The task of a job over these chunks.
NouvelleTache(morceaux, origine) ==
    [etape |-> "demarrer", origine |-> origine, reste |-> morceaux, succes |-> TRUE]

-----------------------------------------------------------------------------
(* _ingest_content, _ingest_document                                       *)

\* Refused when nothing would be produced; then the partition is created.
Deposer(p, f, c, s) ==
    /\ requete[p] = Repos /\ PlacePour(1)
    /\ Decoupe[<<c, StrategieDe(f, s)>>] # <<>>
    /\ Aller(p, [etape |-> "sauver", strategie |-> s, travail |-> 0,
                 suite |-> << [fichier |-> f, contenu |-> c] >>])
    /\ UNCHANGED <<disque, tables, tache, openrag, reprise, arrets>>

Sauver(p) ==
    /\ Etape(p, "sauver")
    /\ disque' = [disque EXCEPT ![Courante(p).fichier] = Courante(p).contenu]
    /\ Aller(p, [requete[p] EXCEPT !.etape = "noter"])
    /\ UNCHANGED <<tables, tache, openrag, reprise, arrets>>

\* One row per file: depositing again updates it.
Noter(p) ==
    /\ Etape(p, "noter")
    /\ sources' = sources \cup {Courante(p).fichier}
    /\ Aller(p, [requete[p] EXCEPT !.etape = "creer"])
    /\ UNCHANGED <<disque, travaux, annonces, tache, openrag, reprise, arrets>>

CreerTravail(p) ==
    /\ Etape(p, "creer")
    /\ travaux' = Append(travaux,
         [fichier |-> Courante(p).fichier,
          strategie |-> StrategieDe(Courante(p).fichier, requete[p].strategie),
          statut |-> "chunking", total |-> 0, envoyes |-> 0, echecs |-> 0])
    /\ Aller(p, [requete[p] EXCEPT !.etape = "lancer", !.travail = Len(travaux')])
    /\ UNCHANGED <<disque, sources, annonces, tache, openrag, reprise, arrets>>

\* The total, then the task; a reindexing goes on with its next file.
Lancer(p) ==
    /\ Etape(p, "lancer")
    /\ LET r == requete[p]
           j == r.travail
           morceaux == Decoupe[<<Courante(p).contenu, travaux[j].strategie>>]
       IN  /\ travaux' = [travaux EXCEPT ![j].total = Len(morceaux)]
           /\ Passer(j, NouvelleTache(morceaux, "depot"))
           /\ Aller(p, IF Len(r.suite) = 1 THEN Repos
                       ELSE [r EXCEPT !.etape = "sauver", !.suite = Tail(@)])
    /\ UNCHANGED <<disque, sources, annonces, openrag, reprise, arrets>>

(* reindex_collection: everything is checked before anything is erased.    *)

Reindexable(s) ==
    \A f \in sources : disque[f] # Rien /\ Decoupe[<<disque[f], StrategieDe(f, s)>>] # <<>>

Reindexer(p, s) ==
    /\ Reindexations
    /\ requete[p] = Repos /\ PlacePour(Cardinality(sources))
    /\ sources # {} /\ Reindexable(s)
    /\ LET pieces == {[fichier |-> f, contenu |-> disque[f]] : f \in sources}
       IN  Aller(p, [etape |-> "vider", strategie |-> s, travail |-> 0,
                     suite |-> SetToSeq(pieces)])
    /\ UNCHANGED <<disque, tables, tache, openrag, reprise, arrets>>

Vider(p) ==
    /\ Etape(p, "vider")
    /\ index' = {}
    /\ Aller(p, [requete[p] EXCEPT !.etape = "recreer"])
    /\ UNCHANGED <<disque, tables, tache, lecture, reprise, arrets>>

\* Plausible bug, in no specification: the partition is there, the files are not sent.
Recreer_Fin(p) ==
    /\ Etape(p, "recreer")
    /\ Aller(p, Repos)
    /\ UNCHANGED <<disque, tables, tache, openrag, reprise, arrets>>

Recreer(p) ==
    /\ Etape(p, "recreer")
    /\ Aller(p, [requete[p] EXCEPT !.etape = "sauver"])
    /\ UNCHANGED <<disque, tables, tache, openrag, reprise, arrets>>

-----------------------------------------------------------------------------
(* _upload_chunks_background, _indexer_document_background                 *)

Demarrer(j) ==
    /\ TacheEn(j, "demarrer")
    /\ travaux' = [travaux EXCEPT ![j].statut = "uploading"]
    /\ Passer(j, [tache[j] EXCEPT
                    !.etape = IF tache[j].reste = <<>> THEN "finir" ELSE "envoyer"])
    /\ UNCHANGED <<disque, sources, annonces, openrag, requete, reprise, arrets>>

\* A chunk: 409, already there, counts as sent; so may one whose answer is lost.
Envoyer(j) ==
    /\ TacheEn(j, "envoyer") /\ travaux[j].strategie # STRATEGIE_DOCUMENT
    /\ \E recu, succes \in BOOLEAN :
          /\ (succes => recu) /\ (Pannes \/ succes)
          /\ index' = IF recu THEN index \cup {Head(tache[j].reste)} ELSE index
          /\ Passer(j, [tache[j] EXCEPT !.etape = "compter", !.succes = succes])
    /\ UNCHANGED <<disque, tables, lecture, requete, reprise, arrets>>

\* What OpenRAG knows of the reading of a document for a job.
Lectures(j, c) == {l \in lecture : l.travail = j /\ l.document = c}

\* A document: DejaPresent, refused (or the answer lost), or to be followed.
EnvoyerDocument(j) ==
    /\ TacheEn(j, "envoyer") /\ travaux[j].strategie = STRATEGIE_DOCUMENT
    /\ LET c == Head(tache[j].reste)
           compter(succes) == [tache[j] EXCEPT !.etape = "compter", !.succes = succes]
           acceptee == (lecture \ Lectures(j, c)) \cup
                         {[travail |-> j, document |-> c, etat |-> "en_cours"]}
       IN  \/ c \in index /\ Passer(j, compter(TRUE)) /\ UNCHANGED lecture
           \/ Pannes /\ lecture' \in {lecture, acceptee} /\ Passer(j, compter(FALSE))
           \/ c \notin index /\ lecture' = acceptee
                /\ Passer(j, [tache[j] EXCEPT !.etape = "suivre"])
    /\ UNCHANGED <<disque, tables, index, requete, reprise, arrets>>

\* Read, not readable, or given up on: SUIVI_DOCUMENT_MAX_S, or no answer.
Suivre(j) ==
    /\ TacheEn(j, "suivre")
    /\ \E l \in Lectures(j, Head(tache[j].reste)) :
          /\ l.etat # "en_cours" \/ Pannes
          /\ lecture' = IF l.etat = "en_cours" THEN lecture ELSE lecture \ {l}
          /\ Passer(j, [tache[j] EXCEPT !.etape = "compter", !.succes = (l.etat = "lu")])
    /\ UNCHANGED <<disque, tables, index, requete, reprise, arrets>>

\* increment_job_progress
Compter(j) ==
    /\ TacheEn(j, "compter")
    /\ travaux' = [travaux EXCEPT ![j].envoyes = @ + 1,
                                  ![j].echecs = IF tache[j].succes THEN @ ELSE @ + 1]
    /\ Passer(j, [tache[j] EXCEPT !.reste = Tail(@),
                    !.etape = IF Len(tache[j].reste) = 1 THEN "finir" ELSE "envoyer"])
    /\ UNCHANGED <<disque, sources, annonces, openrag, requete, reprise, arrets>>

\* Plausible bug, in no specification: the word of another interface.
Finir_Completed(j) ==
    /\ TacheEn(j, "finir")
    /\ travaux' = [travaux EXCEPT ![j].statut =
                     IF travaux[j].echecs = 0 THEN "completed" ELSE "done_with_errors"]
    /\ Passer(j, [tache[j] EXCEPT !.etape = "annoncer"])
    /\ UNCHANGED <<disque, sources, annonces, openrag, requete, reprise, arrets>>

\* complete_job, and the event, which never makes it fail.
Finir(j) ==
    /\ TacheEn(j, "finir")
    /\ travaux' = [travaux EXCEPT ![j].statut =
                     IF travaux[j].echecs = 0 THEN "done" ELSE "done_with_errors"]
    /\ Passer(j, [tache[j] EXCEPT !.etape = "annoncer"])
    /\ UNCHANGED <<disque, sources, annonces, openrag, requete, reprise, arrets>>

Annoncer(j) ==
    /\ TacheEn(j, "annoncer")
    /\ annonces' = [annonces EXCEPT ![j] = @ + 1]
    /\ Passer(j, Repos)
    /\ UNCHANGED <<disque, sources, travaux, openrag, requete, reprise, arrets>>

-----------------------------------------------------------------------------
(* A stop, and reprendre_les_travaux_interrompus.                          *)

\* Plausible bug, in no specification: jobs that failed are tried again.
Arreter_Echoues ==
    /\ arrets < MaxArrets
    /\ arrets' = arrets + 1
    /\ tache' = [j \in Numeros |-> Repos]
    /\ requete' = [p \in Requetes |-> Repos]
    /\ reprise' = {j \in 1 .. Len(travaux) : travaux[j].statut \in ETATS_EN_COURS \cup {"done_with_errors"}}
    /\ UNCHANGED <<disque, tables, openrag>>

\* Plausible bug, in no specification: only the jobs that were sending are looked for.
Arreter_SansChunking ==
    /\ arrets < MaxArrets
    /\ arrets' = arrets + 1
    /\ tache' = [j \in Numeros |-> Repos]
    /\ requete' = [p \in Requetes |-> Repos]
    /\ reprise' = {j \in 1 .. Len(travaux) : travaux[j].statut = "uploading"}
    /\ UNCHANGED <<disque, tables, openrag>>

\* The process stops and starts again, and selects the jobs in progress,
\* before it takes its first deposit.
Arreter ==
    /\ arrets < MaxArrets
    /\ arrets' = arrets + 1
    /\ tache' = [j \in Numeros |-> Repos]
    /\ requete' = [p \in Requetes |-> Repos]
    /\ reprise' = {j \in 1 .. Len(travaux) : travaux[j].statut \in ETATS_EN_COURS}
    /\ UNCHANGED <<disque, tables, openrag>>

\* One after the other, in no order; from the source as it is now.
ReprendreLibre == \A k \in Numeros : tache[k] # Repos => tache[k].origine # "reprise"

\* Plausible bug, in no specification: the counters go on from where they were.
Reprendre_SansRemise(j) ==
    /\ j \in reprise /\ ReprendreLibre
    /\ reprise' = reprise \ {j}
    /\ LET t == travaux[j]
       IN  IF t.fichier \notin sources \/ disque[t.fichier] = Rien
           THEN /\ travaux' = [travaux EXCEPT ![j].statut = "interrupted"]
                /\ UNCHANGED tache
           ELSE LET morceaux == Decoupe[<<disque[t.fichier], t.strategie>>]
                IN  /\ travaux' = [travaux EXCEPT ![j] =
                         [@ EXCEPT !.statut = "uploading", !.total = Len(morceaux)]]
                    /\ Passer(j, NouvelleTache(morceaux, "reprise"))
    /\ UNCHANGED <<disque, sources, annonces, openrag, requete, arrets>>

\* Plausible bug, in no specification: the chunks already counted are not sent again.
Reprendre_Suite(j) ==
    /\ j \in reprise /\ ReprendreLibre
    /\ reprise' = reprise \ {j}
    /\ LET t == travaux[j]
       IN  IF t.fichier \notin sources \/ disque[t.fichier] = Rien
           THEN /\ travaux' = [travaux EXCEPT ![j].statut = "interrupted"]
                /\ UNCHANGED tache
           ELSE LET morceaux == Decoupe[<<disque[t.fichier], t.strategie>>]
                IN  /\ travaux' = [travaux EXCEPT ![j] =
                         [@ EXCEPT !.statut = "uploading", !.total = Len(morceaux)]]
                    /\ Passer(j, NouvelleTache(SubSeq(morceaux, t.envoyes + 1, Len(morceaux)), "reprise"))
    /\ UNCHANGED <<disque, sources, annonces, openrag, requete, arrets>>

Reprendre(j) ==
    /\ j \in reprise /\ ReprendreLibre
    /\ reprise' = reprise \ {j}
    /\ LET t == travaux[j]
       IN  IF t.fichier \notin sources \/ disque[t.fichier] = Rien
           THEN /\ travaux' = [travaux EXCEPT ![j].statut = "interrupted"]
                /\ UNCHANGED tache
           ELSE LET morceaux == Decoupe[<<disque[t.fichier], t.strategie>>]
                IN  /\ travaux' = [travaux EXCEPT ![j] =
                         [@ EXCEPT !.statut = "uploading", !.total = Len(morceaux),
                                   !.envoyes = 0, !.echecs = 0]]
                    /\ Passer(j, NouvelleTache(morceaux, "reprise"))
    /\ UNCHANGED <<disque, sources, annonces, openrag, requete, arrets>>

-----------------------------------------------------------------------------
(* What comes from outside.                                                *)

\* OpenRAG ends the reading of a document, well or not.
Lire(l) ==
    /\ l.etat = "en_cours"
    /\ \E etat \in {"lu", "echec"} :
          /\ etat = "lu" \/ Pannes
          /\ lecture' = (lecture \ {l}) \cup {[l EXCEPT !.etat = etat]}
          /\ index' = IF etat = "lu" THEN index \cup {l.document} ELSE index
    /\ UNCHANGED <<disque, tables, memoire, arrets>>

\* A kept file disappears from the volume.
PerdreSource(f) ==
    /\ Pannes /\ disque[f] # Rien
    /\ disque' = [disque EXCEPT ![f] = Rien]
    /\ UNCHANGED <<tables, memoire, openrag, arrets>>

\* OpenRAG refuses to erase or to create the partition: the reindexing stops
\* there.  An erasure whose answer is lost is one followed by such a refusal.
Abandonner(p) ==
    /\ \E e \in Refus : Etape(p, e)
    /\ Aller(p, Repos)
    /\ UNCHANGED <<disque, tables, tache, openrag, reprise, arrets>>

-----------------------------------------------------------------------------
Continuer(p) == Sauver(p) \/ Noter(p) \/ CreerTravail(p) \/ Lancer(p)
                \/ Vider(p) \/ Recreer(p)

Travailler(j) == Demarrer(j) \/ Envoyer(j) \/ EnvoyerDocument(j) \/ Suivre(j)
                 \/ Compter(j) \/ Finir(j) \/ Annoncer(j)

Demander(p) == \E s \in Strategies :
    \/ Reindexer(p, s)
    \/ \E f \in Fichiers, c \in Contenus : Deposer(p, f, c, s)

Dehors == \/ \E l \in lecture : Lire(l)
          \/ \E f \in Fichiers : PerdreSource(f)
          \/ \E p \in Requetes : Abandonner(p)

Next == \/ \E p \in Requetes : Demander(p) \/ Continuer(p)
        \/ \E j \in Numeros : Travailler(j) \/ Reprendre(j)
        \/ Arreter
        \/ Dehors

Spec == Init /\ [][Next]_vars

\* The event loop runs every coroutine that is ready, and every call to
\* OpenRAG has a timeout; nothing else is due to happen.
FairSpec == /\ Spec
            /\ \A p \in Requetes : WF_vars(Continuer(p))
            /\ \A j \in Numeros : WF_vars(Travailler(j)) /\ WF_vars(Reprendre(j))
-----------------------------------------------------------------------------
\* The rows, the tasks and the routes in flight keep their shapes.
TypeOK == /\ disque \in [Fichiers -> Contenus \cup {Rien}]
          /\ sources \subseteq Fichiers
          /\ travaux \in Seq(Travail) /\ Len(travaux) <= MaxTravaux
          /\ annonces \in [Numeros -> Nat]
          /\ tache \in [Numeros -> Tache \cup {Repos}]
          /\ index \subseteq Morceaux
          /\ lecture \subseteq Lecture
          /\ requete \in [Requetes -> Route \cup {Repos}]
          /\ reprise \subseteq Numeros
          /\ arrets \in 0 .. MaxArrets

Cree(j) == j <= Len(travaux)
Termine(j) == Cree(j) /\ travaux[j].statut \in Termines

\* routers/ingest.py, "pour que le travail dise vrai", and the percentage of
\* IngestJob.progress_pct: through stops and resumptions from another version
\* of the file, a job never counts more than its total, is over only when
\* everything was tried, and is "done" exactly when nothing failed.
ComptesJustes ==
    \A j \in 1 .. Len(travaux) : LET t == travaux[j] IN
        /\ t.echecs <= t.envoyes /\ t.envoyes <= t.total
        /\ t.statut \in {"done", "done_with_errors"} =>
              t.envoyes = t.total /\ (t.statut = "done" <=> t.echecs = 0)

\* job_store.complete_job, "c'est ici qu'on sait ce qui a ete reellement
\* indexe": wherever the process stopped and whatever was lost, a job that
\* says done has one whole version of its file searchable, not the beginning
\* of one and the end of another.
FiniVrai ==
    \A j \in 1 .. Len(travaux) : travaux[j].statut = "done" =>
        \E c \in Contenus : Range(Decoupe[<<c, travaux[j].strategie>>]) \subseteq index

\* job_store.complete_job: the journal announces the end of an import at most
\* once, and only of a job that is over, however often it was resumed.
AnnonceUnique ==
    \A j \in Numeros : annonces[j] <= 1 /\ (annonces[j] = 1 => Termine(j))

\* reprendre_les_travaux_interrompus, "le travail restait uploading": a job
\* ends whatever OpenRAG answers, though the process stops before its task is
\* launched, while it runs, or in the middle of a resumption.
TravailAboutit == \A j \in Numeros : Cree(j) ~> Termine(j)

AuRepos == /\ \A p \in Requetes : requete[p] = Repos
           /\ \A j \in Numeros : tache[j] = Repos
           /\ reprise = {}

\* reindex_collection: when all is quiet, the file as it was last deposited or
\* reindexed is searchable whole, cut as its last job says, though tasks of
\* earlier jobs were still sending when the partition was emptied, and a
\* reindexing may have been refused before that.
SourceServie ==
    AuRepos => \A j \in 1 .. Len(travaux) :
        LET t == travaux[j]
            dernier == \A k \in j + 1 .. Len(travaux) : travaux[k].fichier # t.fichier
        IN  dernier => Range(Decoupe[<<disque[t.fichier], t.strategie>>]) \subseteq index
=============================================================================
