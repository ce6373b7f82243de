---------------------------- MODULE Publication ----------------------------
(***************************************************************************)
(* How a collection reaches the people who use the assistant ("le socle",  *)
(* Open WebUI): the row `publications`, the fiche posed in the assistant   *)
(* and the mirror assistant of the collection.                             *)
(*                                                                         *)
(* A route of routers/publication.py is a sequence of database sessions    *)
(* and of HTTP calls.  Each is a step of its own here, so that another     *)
(* route, a refusal of the assistant or the death of the process may come  *)
(* between any two.  The local state is committed first and the assistant  *)
(* follows, best effort.                                                   *)
(***************************************************************************)
CONSTANTS
    Requetes,     \* how many routes can be in flight together
    Formulaires,  \* the bodies a publication may be sent with
    Pannes,       \* whether calls fail and processes die
    Reglages      \* whether rights are also set in the assistant itself

Visibilites == {"all", "group"}
Etats == {"aucune", "draft", "published", "disabled", "archived"}

Formulaire == [brouillon : BOOLEAN, alias : BOOLEAN, visibilite : Visibilites]

ASSUME FormulairesAssumption == Formulaires \subseteq Formulaire
ASSUME PannesAssumption == Pannes \in BOOLEAN
ASSUME ReglagesAssumption == Reglages \in BOOLEAN

VARIABLES
    col,     \* the row of the collection
    pub,     \* its row in `publications`
    miroir,  \* its mirror assistant: absent, awake or asleep
    socle,   \* who reads the model `openrag-<name>` of the assistant
    requete  \* what each route in flight is doing

vars == <<col, pub, miroir, socle, requete>>

\* verifiee: etat_collab = "publiee_tous".
Collection == [existe : BOOLEAN, archivee : BOOLEAN, verifiee : BOOLEAN]

Ligne == [state : Etats, alias : BOOLEAN, visibilite : Visibilites]

Inexistante == [existe |-> FALSE, archivee |-> FALSE, verifiee |-> FALSE]
SansLigne == [state |-> "aucune", alias |-> FALSE, visibilite |-> "group"]
Absente == "absente"

Gestes == {"publier", "depublier", "archiver", "desarchiver", "purger",
           "resynchroniser", "demarrer"}

Etapes == {"lire", "ecrire", "miroir", "assurer", "voulue", "existante",
           "poser", "retirer", "effacer", "purger_miroir"}

Suites == {"rien", "creer", "reveiller", "endormir"}

\* lu, voulu: the row of `publications` as the route read it and wants it;
\* portee: what it will pose; suite: what it will do of the mirror assistant.
Route == [geste : Gestes, etape : Etapes, form : Formulaire, lu : Ligne,
          voulu : Ligne, portee : Visibilites, suite : Suites]

Repos == [etape |-> "repos"]

Debut(geste, etape) ==
    [geste |-> geste, etape |-> etape,
     form  |-> [brouillon |-> FALSE, alias |-> FALSE, visibilite |-> "group"],
     lu    |-> SansLigne, voulu |-> SansLigne,
     portee |-> "group", suite |-> "rien"]

Init == /\ col = Inexistante
        /\ pub = SansLigne
        /\ miroir = "absent"
        /\ socle = Absente
        /\ requete = [p \in Requetes |-> Repos]

-----------------------------------------------------------------------------
Libre == \E p \in Requetes : requete[p] = Repos

AuRepos == \A p \in Requetes : requete[p] = Repos

En(p, geste, etape) ==
    requete[p].etape = etape /\ requete[p].geste = geste

Aller(p, r) == requete' = [requete EXCEPT ![p] = r]

\* assistant_store.assurer_miroir: published, and not archived.
Publiee == col.existe /\ ~col.archivee /\ pub.state = "published"

\* fiche_socle._voulue: published in the assistant.
Servie == Publiee /\ pub.alias

\* The row after an UPDATE of the columns that `voulu` changes in `lu`.
Colonnes(lu, voulu) ==
    [k \in DOMAIN pub |-> IF voulu[k] = lu[k] THEN pub[k] ELSE voulu[k]]

\* An INSERT finds the key taken, or an UPDATE finds no row.
Conflit(lu, voulu) ==
    voulu # lu /\ (lu.state = "aucune") # (pub.state = "aucune")

\* What a route does once its row is written.
ApresEcriture(r) ==
    IF r.geste \in {"publier", "depublier"} THEN [r EXCEPT !.etape = "miroir"]
    ELSE IF r.geste = "archiver" /\ r.lu.state = "published" /\ r.lu.alias
    THEN [r EXCEPT !.etape = "retirer"]
    ELSE Repos

\* ... and once the mirror assistant has followed, or has failed to.
ApresMiroir(r) ==
    CASE r.geste = "depublier" -> [r EXCEPT !.etape = "retirer"]
      [] r.geste = "publier" /\ r.form.alias /\ ~r.form.brouillon
           -> [r EXCEPT !.etape = "voulue"]
      [] OTHER -> Repos

-----------------------------------------------------------------------------
(* The collection itself.                                                  *)

CreerCollection ==
    /\ Libre /\ ~col.existe
    /\ col' = [Inexistante EXCEPT !.existe = TRUE]
    /\ UNCHANGED <<pub, miroir, socle, requete>>

\* changer_etat crosses the border of "publiee_tous", either way.  It looks
\* neither at the publication nor at the assistant.
ChangerEtat ==
    /\ Libre /\ col.existe
    /\ col' = [col EXCEPT !.verifiee = ~@]
    /\ UNCHANGED <<pub, miroir, socle, requete>>

-----------------------------------------------------------------------------
(* publish_collection                                                      *)

\* The first sessions: the collection is not archived, and exists.
Publier(p, f) ==
    /\ requete[p] = Repos
    /\ f.brouillon \/ ~col.archivee
    /\ col' = [col EXCEPT !.existe = TRUE]
    /\ Aller(p, [Debut("publier", "lire") EXCEPT !.form = f])
    /\ UNCHANGED <<pub, miroir, socle>>

\* Plausible bug, in no specification: the verification is not asked for.
PublierLire_SansRegleTrois(p) ==
    /\ En(p, "publier", "lire")
    /\ LET f == requete[p].form
           refus == FALSE
           voulu == [state |-> IF f.brouillon THEN "draft" ELSE "published",
                     alias |-> f.alias, visibilite |-> f.visibilite]
       IN  Aller(p, IF refus THEN Repos
                    ELSE [requete[p] EXCEPT !.etape = "ecrire",
                            !.lu = pub, !.voulu = voulu])
    /\ UNCHANGED <<col, pub, miroir, socle>>

\* "Regle 3", and the row as it is before the publication.
PublierLire(p) ==
    /\ En(p, "publier", "lire")
    /\ LET f == requete[p].form
           refus == ~col.verifiee /\ f.visibilite = "all" /\ ~f.brouillon
           voulu == [state |-> IF f.brouillon THEN "draft" ELSE "published",
                     alias |-> f.alias, visibilite |-> f.visibilite]
       IN  Aller(p, IF refus THEN Repos
                    ELSE [requete[p] EXCEPT !.etape = "ecrire",
                            !.lu = pub, !.voulu = voulu])
    /\ UNCHANGED <<col, pub, miroir, socle>>

\* The commit, shared by the routes that write the row.
EcrireLigne(p) ==
    /\ requete[p].etape = "ecrire"
    /\ LET r == requete[p]
       IN  /\ ~Conflit(r.lu, r.voulu)
           /\ pub' = Colonnes(r.lu, r.voulu)
           /\ Aller(p, ApresEcriture(r))
    /\ UNCHANGED <<col, miroir, socle>>

\* Plausible bug, in no specification: a mirror assistant that exists is never woken.
MiroirLire_SansReveil(p) ==
    /\ requete[p].etape = "miroir"
    /\ LET suite == IF Publiee
                    THEN CASE miroir = "absent"  -> "creer"
                           [] miroir = "sommeil" -> "rien"
                           [] miroir = "eveille" -> "rien"
                    ELSE IF miroir = "eveille" THEN "endormir" ELSE "rien"
           r == [requete[p] EXCEPT !.suite = suite]
       IN  Aller(p, IF suite = "rien" THEN ApresMiroir(r)
                    ELSE [r EXCEPT !.etape = "assurer"])
    /\ UNCHANGED <<col, pub, miroir, socle>>

\* Plausible bug, in no specification: the archiving is not looked at.
MiroirLire_ArchiveeOubliee(p) ==
    /\ requete[p].etape = "miroir"
    /\ LET suite == IF col.existe /\ pub.state = "published"
                    THEN CASE miroir = "absent"  -> "creer"
                           [] miroir = "sommeil" -> "reveiller"
                           [] miroir = "eveille" -> "rien"
                    ELSE IF miroir = "eveille" THEN "endormir" ELSE "rien"
           r == [requete[p] EXCEPT !.suite = suite]
       IN  Aller(p, IF suite = "rien" THEN ApresMiroir(r)
                    ELSE [r EXCEPT !.etape = "assurer"])
    /\ UNCHANGED <<col, pub, miroir, socle>>

\* assurer_miroir, first session: awake if published, asleep if not.
MiroirLire(p) ==
    /\ requete[p].etape = "miroir"
    /\ LET suite == IF Publiee
                    THEN CASE miroir = "absent"  -> "creer"
                           [] miroir = "sommeil" -> "reveiller"
                           [] miroir = "eveille" -> "rien"
                    ELSE IF miroir = "eveille" THEN "endormir" ELSE "rien"
           r == [requete[p] EXCEPT !.suite = suite]
       IN  Aller(p, IF suite = "rien" THEN ApresMiroir(r)
                    ELSE [r EXCEPT !.etape = "assurer"])
    /\ UNCHANGED <<col, pub, miroir, socle>>

\* ... and the commit: a mirror created twice stays as it is, one that is
\* gone is neither woken nor put to sleep.
MiroirEcrire(p) ==
    /\ requete[p].etape = "assurer"
    /\ LET suite == requete[p].suite
       IN  miroir' = IF suite = "creer"
                     THEN IF miroir = "absent" THEN "eveille" ELSE miroir
                     ELSE IF miroir = "absent" THEN miroir
                     ELSE IF suite = "reveiller" THEN "eveille" ELSE "sommeil"
    /\ Aller(p, ApresMiroir(requete[p]))
    /\ UNCHANGED <<col, pub, socle>>

\* Plausible bug, in no specification: a publication keeps the rights of the fiche as well.
VoulueLire_GardeToujours(p) ==
    /\ requete[p].etape = "voulue"
    /\ LET r == requete[p]
           suite == "existante"
       IN  Aller(p, IF Servie
                    THEN [r EXCEPT !.etape = suite, !.portee = pub.visibilite]
                    ELSE Repos)
    /\ UNCHANGED <<col, pub, miroir, socle>>

\* synchroniser_fiche: the fiche as the tables want it, or PasPubliee.
VoulueLire(p) ==
    /\ requete[p].etape = "voulue"
    /\ LET r == requete[p]
           suite == IF r.geste = "resynchroniser" THEN "existante" ELSE "poser"
       IN  Aller(p, IF Servie
                    THEN [r EXCEPT !.etape = suite, !.portee = pub.visibilite]
                    ELSE Repos)
    /\ UNCHANGED <<col, pub, miroir, socle>>

\* Plausible bug, in no specification: the recorded rights are posed, not those of the fiche.
ExistanteLire_PorteeVoulue(p) ==
    /\ requete[p].etape = "existante"
    /\ Aller(p, IF socle = Absente THEN Repos
                ELSE [requete[p] EXCEPT !.etape = "poser"])
    /\ UNCHANGED <<col, pub, miroir, socle>>

\* upsert_model with garder_les_droits: the rights of the fiche already there.
ExistanteLire(p) ==
    /\ requete[p].etape = "existante"
    /\ Aller(p, IF socle = Absente THEN Repos
                ELSE [requete[p] EXCEPT !.etape = "poser", !.portee = socle])
    /\ UNCHANGED <<col, pub, miroir, socle>>

\* The update, or the creation when the update is refused.
Poser(p) ==
    /\ requete[p].etape = "poser"
    /\ socle' = requete[p].portee
    /\ Aller(p, Repos)
    /\ UNCHANGED <<col, pub, miroir>>

\* _retirer_du_socle
Retirer(p) ==
    /\ requete[p].etape = "retirer"
    /\ socle' = Absente
    /\ Aller(p, Repos)
    /\ UNCHANGED <<col, pub, miroir>>

-----------------------------------------------------------------------------
(* unpublish_collection                                                    *)

Depublier(p) ==
    /\ requete[p] = Repos
    /\ pub.state # "aucune"
    /\ Aller(p, [Debut("depublier", "ecrire") EXCEPT
                   !.lu = pub, !.voulu = [pub EXCEPT !.state = "disabled"]])
    /\ UNCHANGED <<col, pub, miroir, socle>>

(* archive_collection and unarchive_collection                             *)

Archiver(p) ==
    /\ requete[p] = Repos
    /\ col.existe
    /\ col' = [col EXCEPT !.archivee = TRUE]
    /\ Aller(p, Debut("archiver", "lire"))
    /\ UNCHANGED <<pub, miroir, socle>>

\* Plausible bug, in no specification: the row is left as it was.
ArchiverLire_LigneGardee(p) ==
    /\ En(p, "archiver", "lire")
    /\ Aller(p, [requete[p] EXCEPT !.etape = "ecrire", !.lu = pub,
                   !.voulu = IF pub = SansLigne THEN pub
                             ELSE [pub EXCEPT !.state = @]])
    /\ UNCHANGED <<col, pub, miroir, socle>>

ArchiverLire(p) ==
    /\ En(p, "archiver", "lire")
    /\ Aller(p, [requete[p] EXCEPT !.etape = "ecrire", !.lu = pub,
                   !.voulu = IF pub = SansLigne THEN pub
                             ELSE [pub EXCEPT !.state = "archived"]])
    /\ UNCHANGED <<col, pub, miroir, socle>>

Desarchiver(p) ==
    /\ requete[p] = Repos
    /\ col.existe
    /\ col' = [col EXCEPT !.archivee = FALSE]
    /\ Aller(p, Debut("desarchiver", "lire"))
    /\ UNCHANGED <<pub, miroir, socle>>

\* Plausible bug, in no specification: the action of the history is written in the row.
DesarchiverLire_EtatInconnu(p) ==
    /\ En(p, "desarchiver", "lire")
    /\ Aller(p, [requete[p] EXCEPT !.etape = "ecrire", !.lu = pub,
                   !.voulu = IF pub.state = "archived"
                             THEN [pub EXCEPT !.state = "unarchived"] ELSE pub])
    /\ UNCHANGED <<col, pub, miroir, socle>>

DesarchiverLire(p) ==
    /\ En(p, "desarchiver", "lire")
    /\ Aller(p, [requete[p] EXCEPT !.etape = "ecrire", !.lu = pub,
                   !.voulu = IF pub.state = "archived"
                             THEN [pub EXCEPT !.state = "disabled"] ELSE pub])
    /\ UNCHANGED <<col, pub, miroir, socle>>

(* purge_collection_endpoint: archived first, and checked only once.       *)

Purger(p) ==
    /\ requete[p] = Repos
    /\ col.existe /\ col.archivee
    /\ Aller(p, Debut("purger", "effacer"))
    /\ UNCHANGED <<col, pub, miroir, socle>>

Effacer(p) ==
    /\ requete[p].etape = "effacer"
    /\ col' = Inexistante
    /\ pub' = SansLigne
    /\ Aller(p, [requete[p] EXCEPT !.etape = "purger_miroir"])
    /\ UNCHANGED <<miroir, socle>>

PurgerMiroir(p) ==
    /\ requete[p].etape = "purger_miroir"
    /\ miroir' = "absent"
    /\ Aller(p, [requete[p] EXCEPT !.etape = "retirer"])
    /\ UNCHANGED <<col, pub, socle>>

(* The route desarchiver of the assistants: unlike archiver it does not ask *)
(* whether the assistant follows a collection.                             *)

ReveillerMiroir ==
    /\ Libre
    /\ miroir = "sommeil"
    /\ miroir' = "eveille"
    /\ UNCHANGED <<col, pub, socle, requete>>

(* resynchroniser_toutes, for this collection.                             *)

Resynchroniser(p) ==
    /\ requete[p] = Repos
    /\ Servie
    /\ Aller(p, Debut("resynchroniser", "voulue"))
    /\ UNCHANGED <<col, pub, miroir, socle>>

-----------------------------------------------------------------------------
(* What comes from outside.                                                *)

\* Someone restricts or opens the fiche in the assistant itself.
ReglerAilleurs ==
    /\ Reglages /\ Libre /\ socle # Absente
    /\ \E v \in Visibilites : socle' = v
    /\ UNCHANGED <<col, pub, miroir, requete>>

\* The mirror assistant could not be assured: logged, and the route goes on.
MiroirEchoue(p) ==
    /\ Pannes
    /\ requete[p].etape \in {"miroir", "assurer"}
    /\ Aller(p, ApresMiroir(requete[p]))
    /\ UNCHANGED <<col, pub, miroir, socle>>

\* The assistant refuses or does not answer, the database does, or two
\* sessions conflict: the route stops there and what it committed stays.
Abandonner(p) ==
    /\ requete[p] # Repos
    /\ Pannes \/ (requete[p].etape = "ecrire" /\ Conflit(requete[p].lu, requete[p].voulu))
    /\ Aller(p, Repos)
    /\ UNCHANGED <<col, pub, miroir, socle>>

\* The process dies and starts again: migrations_au_demarrage assures the
\* mirror assistants before any route is served.
Redemarrer(p) ==
    /\ Pannes
    /\ requete' = [q \in Requetes |-> IF q = p /\ col.existe
                                      THEN Debut("demarrer", "miroir")
                                      ELSE Repos]
    /\ UNCHANGED <<col, pub, miroir, socle>>

-----------------------------------------------------------------------------
Publication == \E p \in Requetes :
    \/ \E f \in Formulaires : Publier(p, f)
    \/ PublierLire(p)

Retrait == \E p \in Requetes :
    Depublier(p) \/ Archiver(p) \/ ArchiverLire(p)
    \/ Desarchiver(p) \/ DesarchiverLire(p)

Purge == \E p \in Requetes : Purger(p) \/ Effacer(p) \/ PurgerMiroir(p)

Suite == \E p \in Requetes :
    EcrireLigne(p) \/ MiroirLire(p) \/ MiroirEcrire(p)

Assistant == \E p \in Requetes :
    Resynchroniser(p) \/ VoulueLire(p) \/ ExistanteLire(p) \/ Poser(p) \/ Retirer(p)

Panne == \E p \in Requetes : MiroirEchoue(p) \/ Abandonner(p) \/ Redemarrer(p)

\* Nothing fails.
Marche == \/ CreerCollection
          \/ ChangerEtat
          \/ Publication
          \/ Retrait
          \/ Purge
          \/ Suite
          \/ Assistant
          \/ ReveillerMiroir

Next == Marche \/ ReglerAilleurs \/ Panne

Spec == Init /\ [][Next]_vars

-----------------------------------------------------------------------------
\* The rows, the fiche and the routes in flight keep their shapes.
TypeOK == /\ col \in Collection
          /\ pub \in Ligne
          /\ miroir \in {"absent", "eveille", "sommeil"}
          /\ socle \in Visibilites \cup {Absente}
          /\ requete \in [Requetes -> Route \cup {Repos}]

\* The fiche of a collection the tables say is served is there, for exactly
\* those its row says.
FicheConforme == AuRepos /\ Servie => socle = pub.visibilite

MiroirPret == AuRepos /\ Publiee => miroir = "eveille"

RouverteParPublication ==
    ~Publiee /\ Publiee' => \E p \in Requetes : En(p, "publier", "ecrire")

\* publish_collection, "Regle 3", and fiche_socle.resynchroniser_toutes,
\* "JAMAIS les droits": a step of ours opens the fiche to all only while the
\* collection is verified, though calls fail, processes die, rows and fiche
\* disagree, and rights are set in the assistant between two routes.
OuvertureControlee ==
    [][socle # "all" /\ socle' = "all" => col.verifiee \/ ReglerAilleurs]_vars

\* fiche_socle.resynchroniser_toutes: posing the recorded rights again "les
\* aurait ouvertes a tous".  What a resynchronisation poses has the rights
\* the fiche had, also where they are not those of the row.
DroitsReconduits ==
    [][\A p \in Requetes : En(p, "resynchroniser", "poser") => socle' = socle]_vars

\* assistant_store.assurer_miroir, "Idempotent": whichever route calls it, the
\* process that starts again included, and whatever was left half done
\* before, a call that ends well leaves the mirror assistant awake exactly
\* when the collection is published.
MiroirAccorde ==
    [][\A p \in Requetes :
          (MiroirLire(p) \/ MiroirEcrire(p)) /\ requete'[p].etape # "assurer"
             => (miroir' = "eveille" <=> Publiee)]_vars

\* routers/publication.py:130, "une collection qui n'est pas publiee a tous
\* n'est jamais servie hors de son groupe".  changer_etat takes the state
\* back and leaves the publication and the fiche as they were.
RegleTrois == AuRepos /\ socle = "all" => col.verifiee

\* routers/publication.py:324, "Archivee = retiree : la fiche ne doit plus
\* etre offerte dans l'assistant".  The code withdraws it only when the row
\* says it was served, and a draft saved over a served collection leaves the
\* fiche where it was.
ArchiveeRetiree == AuRepos /\ col.archivee => socle = Absente
=============================================================================
