----------------------------- MODULE Assistants -----------------------------
(***************************************************************************)
(* One research assistant: its draft and its numbered versions             *)
(* (services/assistant_store.py, routers/assistants.py).                   *)
(*                                                                         *)
(* The draft is kept in two tables: the row `assistants` has its sources,  *)
(* the rows `consignes` say which sources each instruction searches.  A    *)
(* save replaces both in one transaction, but only the columns that differ *)
(* from what its session read are in the UPDATE; a publication reads them  *)
(* one after the other.  The other columns, the channels and the rights    *)
(* are left out: a refusal changes nothing and is one of the Abandonner.   *)
(***************************************************************************)
EXTENDS Naturals, Sequences

CONSTANTS
    Sources,     \* what an assistant may search
    Fiches,      \* the contents sent to the routes
    Requetes,    \* how many functions can be in flight together
    MaxVersions  \* bound on the numbered versions

VARIABLES
    ligne,      \* the row of the assistant; version is 0 for NULL
    consignes,  \* the sources its instructions search
    versions,   \* its numbered versions
    demandes    \* what each function in flight is doing

vars == <<ligne, consignes, versions, demandes>>

Contenu == [sources : SUBSET Sources, consignes : SUBSET Sources]

\* FicheAssistant: at least one source, and the instructions search in those
\* alone (_coherence).  Nothing else is ever validated.
Coherente(f) == f.sources # {} /\ f.consignes \subseteq f.sources

\* suivi: it is the mirror of a collection (collection_name).
Ligne == [existe : BOOLEAN, sources : SUBSET Sources,
          version : Nat, archivee : BOOLEAN, suivi : BOOLEAN]

\* What a session reads of it and uses later.
Lu == [existe : BOOLEAN, sources : SUBSET Sources, version : Nat]

Etapes == {"repos", "lire", "ecrire", "ligne", "consignes", "derniere", "figer"}

\* fiche: what will be written.  lu: the row as the session read it.  robot:
\* the function is assurer_miroir.  derniere: the last version it read.
Repos == [etape |-> "repos", robot |-> FALSE, derniere |-> 0,
          fiche |-> [sources |-> {}, consignes |-> {}],
          lu |-> [existe |-> FALSE, sources |-> {}, version |-> 0]]

Init == /\ ligne = [existe |-> FALSE, sources |-> {}, version |-> 0,
                    archivee |-> FALSE, suivi |-> FALSE]
        /\ consignes = {}
        /\ versions = <<>>
        /\ demandes = [p \in Requetes |-> Repos]

\* _fiche_depuis: the draft, which raises when it is not coherent.
Brouillon == [sources |-> ligne.sources, consignes |-> consignes]

Lecture == [existe |-> ligne.existe, sources |-> ligne.sources,
            version |-> ligne.version]

Passer(p, d) == demandes' = [demandes EXCEPT ![p] = d]

-----------------------------------------------------------------------------
(* A save.                                                                 *)

\* _enregistrer: the draft there is is read first; 409 if archived.
Enregistrer(p, f) ==
    /\ demandes[p] = Repos
    /\ ligne.existe => ~ligne.archivee /\ Coherente(Brouillon)
    /\ Passer(p, [Repos EXCEPT !.etape = "lire", !.fiche = f])
    /\ UNCHANGED <<ligne, consignes, versions>>

\* assurer_miroir, for a published collection that has no mirror: a fiche of
\* one source with an instruction that names none, saved then published.
Deriver(p, s) ==
    /\ demandes[p] = Repos
    /\ ~ligne.existe
    /\ Passer(p, [Repos EXCEPT !.etape = "lire", !.robot = TRUE,
                      !.fiche = [sources |-> {s}, consignes |-> {}]])
    /\ UNCHANGED <<ligne, consignes, versions>>

\* enregistrer_brouillon, the first statement of its session.
Lire(p) ==
    /\ demandes[p].etape = "lire"
    /\ Passer(p, [demandes[p] EXCEPT !.etape = "ecrire", !.lu = Lecture])
    /\ UNCHANGED <<ligne, consignes, versions>>

\* The rest of it: from its UPDATE on the transaction holds the row.  All the
\* instructions are replaced; a column equal to what was read is not written.
Ecrire(p) ==
    /\ demandes[p].etape = "ecrire"
    /\ LET d == demandes[p]
       IN  /\ d.lu.existe \/ ~ligne.existe
           /\ ligne' = IF d.lu.existe
                       THEN [ligne EXCEPT !.sources =
                               IF d.fiche.sources # d.lu.sources
                               THEN d.fiche.sources ELSE @]
                       ELSE [ligne EXCEPT !.existe = TRUE, !.suivi = d.robot,
                                          !.sources = d.fiche.sources]
           /\ consignes' = d.fiche.consignes
           /\ Passer(p, IF d.robot THEN [Repos EXCEPT !.etape = "ligne", !.robot = TRUE]
                        ELSE Repos)
    /\ UNCHANGED versions

-----------------------------------------------------------------------------
(* A publication.                                                          *)

Publier(p) ==
    /\ demandes[p] = Repos
    /\ ligne.existe /\ Coherente(Brouillon)
    /\ Passer(p, [Repos EXCEPT !.etape = "ligne"])
    /\ UNCHANGED <<ligne, consignes, versions>>

\* store.publier, its three reads: the row ...
LireLigne(p) ==
    /\ demandes[p].etape = "ligne"
    /\ Passer(p, [demandes[p] EXCEPT !.etape = "consignes", !.lu = Lecture,
                                     !.fiche.sources = ligne.sources])
    /\ UNCHANGED <<ligne, consignes, versions>>

\* Plausible bug, in no specification: the fiche is not validated again.
LireConsignes_SansControle(p) ==
    /\ demandes[p].etape = "consignes"
    /\ Passer(p, [demandes[p] EXCEPT !.etape = "derniere",
                                     !.fiche.consignes = consignes])
    /\ UNCHANGED <<ligne, consignes, versions>>

\* ... the instructions, which must go with the sources read before ...
LireConsignes(p) ==
    /\ demandes[p].etape = "consignes"
    /\ Coherente([demandes[p].fiche EXCEPT !.consignes = consignes])
    /\ Passer(p, [demandes[p] EXCEPT !.etape = "derniere",
                                     !.fiche.consignes = consignes])
    /\ UNCHANGED <<ligne, consignes, versions>>

\* ... and the last version.
LireDerniere(p) ==
    /\ demandes[p].etape = "derniere"
    /\ Passer(p, [demandes[p] EXCEPT !.etape = "figer", !.derniere = Len(versions)])
    /\ UNCHANGED <<ligne, consignes, versions>>

\* The commit: publishing again what the last version says makes no version.
\* The number is unique: a version inserted meanwhile under it is a conflict.
FigerSelon(p, deja) ==
    LET d == demandes[p]
        n == d.derniere
    IN  /\ d.etape = "figer"
        /\ IF deja
           THEN /\ ligne' = [ligne EXCEPT !.version = IF n # d.lu.version THEN n ELSE @]
                /\ UNCHANGED versions
           ELSE /\ Len(versions) = n /\ n < MaxVersions
                /\ versions' = Append(versions, d.fiche)
                /\ ligne' = [ligne EXCEPT !.version = n + 1]
        /\ Passer(p, Repos)
        /\ UNCHANGED consignes

\* Plausible bug, in no specification: compared with the version the row says
\* published, and no more with the last one.
Figer_Publiee(p) ==
    LET d == demandes[p]
        v == d.lu.version
    IN  FigerSelon(p, d.derniere > 0 /\ v > 0 /\ versions[v] = d.fiche)

Figer(p) ==
    LET d == demandes[p]
    IN  FigerSelon(p, d.derniere > 0 /\ versions[d.derniere] = d.fiche)

-----------------------------------------------------------------------------
\* The routes archiver, refused to a mirror, and desarchiver, which is not.
Archiver ==
    /\ ligne.existe /\ Coherente(Brouillon)
    /\ \E b \in BOOLEAN : /\ b => ~ligne.suivi
                          /\ ligne' = [ligne EXCEPT !.archivee = b]
    /\ UNCHANGED <<consignes, versions, demandes>>

\* assurer_miroir, for a mirror: asleep or awake as its collection is.
Suivre ==
    /\ ligne.suivi
    /\ \E b \in BOOLEAN : ligne' = [ligne EXCEPT !.archivee = b]
    /\ UNCHANGED <<consignes, versions, demandes>>

\* A function is refused, fails, is in conflict, or the process stops:
\* nothing of its last session is kept.
Abandonner(p) ==
    /\ demandes[p] # Repos
    /\ Passer(p, Repos)
    /\ UNCHANGED <<ligne, consignes, versions>>

Next == \/ Archiver
        \/ Suivre
        \/ \E p \in Requetes :
             \/ \E f \in Fiches : Enregistrer(p, f)
             \/ \E s \in Sources : Deriver(p, s)
             \/ Lire(p) \/ Ecrire(p)
             \/ Publier(p)
             \/ LireLigne(p) \/ LireConsignes(p) \/ LireDerniere(p) \/ Figer(p)
             \/ Abandonner(p)

Spec == Init /\ [][Next]_vars

-----------------------------------------------------------------------------
\* The rows and the functions in flight keep their shapes.
TypeOK ==
    /\ ligne \in Ligne
    /\ consignes \subseteq Sources
    /\ versions \in Seq(Contenu)
    /\ demandes \in [Requetes -> [etape : Etapes, robot : BOOLEAN, derniere : Nat,
                                  fiche : Contenu, lu : Lu]]

\* assistant_store.publier, "publier deux fois le même brouillon ne fait
\* qu'une version": however saves and publications overlap, a version never
\* repeats the one before it.
VersionsDistinctes ==
    \A n \in 1..Len(versions) : n > 1 => versions[n] # versions[n - 1]

\* assistant_store.version_publiee and FicheAssistant.depuis_canonique: the
\* version the row says published is there, and it is a fiche that can be
\* read, though the draft it was taken from was read in two times.
VersionsServables ==
    ligne.version > 0 => /\ ligne.version <= Len(versions)
                         /\ Coherente(versions[ligne.version])

-----------------------------------------------------------------------------
\* assistant_recherche.charger: what an assistant answers with, for whoever
\* does not manage it.  The draft is read first, the version next.
Repond == /\ ligne.existe /\ ~ligne.archivee
          /\ Coherente(Brouillon)
          /\ ligne.version \in 1..Len(versions)

\* assistant_recherche.py, charger: "Qui ne gère pas le brouillon (ou ne le
\* lit pas) a droit à la version publiée".
PublieeRepond == ligne.version > 0 /\ ~ligne.archivee => Repond
=============================================================================
