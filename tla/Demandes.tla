------------------------------ MODULE Demandes ------------------------------
(***************************************************************************)
(* The requests for missing datasets ("demandes"): their supporters, their *)
(* guarantor and their life cycle, as services/collectif_store.py keeps    *)
(* them in the tables demande, soutien and evenement.                      *)
(*                                                                         *)
(* Every store function opens a session of its own, reads rows, decides on *)
(* what it read and commits.  Under PostgreSQL's READ COMMITTED a SELECT   *)
(* takes no lock, so between the read and the commit of one function any   *)
(* other function may commit.  A function is therefore two actions (three  *)
(* for soutenir): one that reads and computes the row it wants, and        *)
(* Valider, which commits.  SQLAlchemy's UPDATE names only the columns     *)
(* whose value differs from the one loaded: that is what Colonnes does.    *)
(***************************************************************************)
EXTENDS Naturals, FiniteSets

CONSTANTS
    Dem,          \* identifiers of demandes
    Personnes,    \* hashed identities of the people who support a demande
    Collections,  \* names of collections a demande may be answered by
    Requetes,     \* how many store functions can be in flight together
    Roles,        \* the part of ROLES_SOUTIEN the model uses
    Seuil,        \* Demande.seuil, frozen when the demande is created
    Aucun         \* SQL NULL, and the absence of a row

ETATS_DEMANDE == {"ouverte", "chantier", "a_confirmer", "realisee", "close"}
ROLES_SOUTIEN == {"soutien", "fournisseur", "relecteur", "garant"}
SATISFACTIONS == {"oui", "non", "sans_reponse"}

\* The states in which a demande is over (d.contact = None in the code).
Finies == {"realisee", "close"}

ASSUME SeuilAssumption == Seuil \in Nat \ {0}
ASSUME FinisAssumption == IsFiniteSet(Personnes) /\ IsFiniteSet(Requetes)
ASSUME RolesAssumption == "garant" \in Roles /\ Roles \subseteq ROLES_SOUTIEN
ASSUME AucunAssumption == /\ Aucun \notin Roles
                          /\ Aucun \notin Dem
                          /\ Aucun \notin Collections

VARIABLES
    demande,  \* table demande: one row per identifier
    soutien,  \* table soutien: the role held by each person, or Aucun
    journal,  \* the last committed "demande.etat" event of each demande
    requete   \* the store function each in-flight request is executing

vars == <<demande, soutien, journal, requete>>

\* confirmation_demandee_le against the clock: NULL, younger than
\* confirmation_jours, or older than it.
Dates == {"jamais", "recente", "echue"}

Fiche == [etat         : ETATS_DEMANDE \cup {"absente"},
          contact      : BOOLEAN,
          sollicitee   : Dates,
          satisfaction : SATISFACTIONS \cup {Aucun},
          collection   : Collections \cup {Aucun},
          doublon      : Dem \cup {Aucun}]

Absente == [etat |-> "absente", contact |-> FALSE, sollicitee |-> "jamais",
            satisfaction |-> Aucun, collection |-> Aucun, doublon |-> Aucun]

Repos == [etape |-> "repos"]

Init == /\ demande = [d \in Dem |-> Absente]
        /\ soutien = [d \in Dem |-> [x \in Personnes |-> Aucun]]
        /\ journal = [d \in Dem |-> [de |-> "absente", vers |-> "absente"]]
        /\ requete = [p \in Requetes |-> Repos]

-----------------------------------------------------------------------------
(* Reading a state of the tables.                                          *)

\* A store function that is one statement long still needs a free request.
Libre == \E p \in Requetes : requete[p] = Repos

Existe(d) == demande[d].etat # "absente"

Soutiens(table) == {x \in Personnes : table[x] # Aucun}

AGarant(table) == \E x \in Personnes : table[x] = "garant"

\* etats.demande_atteint_le_chantier
AtteintLeChantier(table) ==
    AGarant(table) /\ Cardinality(Soutiens(table)) >= Seuil

\* etats.confirmation_echue
ConfirmationEchue(fiche) ==
    fiche.etat = "a_confirmer" /\ fiche.sollicitee = "echue"

\* The row after an UPDATE of the columns that `voulu` changes in `lu`.
Colonnes(actuel, lu, voulu) ==
    LET ecrire(a, l, v) == IF v = l THEN a ELSE v
    IN  [etat         |-> ecrire(actuel.etat, lu.etat, voulu.etat),
         contact      |-> ecrire(actuel.contact, lu.contact, voulu.contact),
         sollicitee   |-> ecrire(actuel.sollicitee, lu.sollicitee, voulu.sollicitee),
         satisfaction |-> ecrire(actuel.satisfaction, lu.satisfaction, voulu.satisfaction),
         collection   |-> ecrire(actuel.collection, lu.collection, voulu.collection),
         doublon      |-> ecrire(actuel.doublon, lu.doublon, voulu.doublon)]

\* An uncommitted INSERT or UPDATE holds the row (d, x) of table soutien.
Verrou(d, x) ==
    \E q \in Requetes :
        /\ requete[q].etape = "valider"
        /\ requete[q].pose # Aucun
        /\ requete[q].pose.dem = d
        /\ requete[q].pose.qui = x
        /\ requete[q].pose.role # requete[q].pose.avant

\* Request p has read the demandes of S, wants the rows `voulu` and will
\* write an event "demande.etat" for each demande of `evts`.
Lit(p, S, voulu, evts) ==
    /\ requete[p] = Repos
    /\ S # {}
    /\ requete' = [requete EXCEPT ![p] =
                     [etape |-> "valider", lu |-> [d \in S |-> demande[d]],
                      voulu |-> voulu, evts |-> evts, pose |-> Aucun]]
    /\ UNCHANGED <<demande, soutien, journal>>

-----------------------------------------------------------------------------
(* Plausible bugs: variants of the actions below, which no specification   *)
(* uses.  Put in the place of the action each names, they break the        *)
(* property that watches over it.                                          *)

\* The name of the collection and the identifier of the demande swapped.
SolliciterAuteur_Permute(p, d, c) ==
    /\ demande[d].etat \in {"ouverte", "chantier"}
    /\ Lit(p, {d}, [e \in {d} |-> [demande[d] EXCEPT !.etat = "a_confirmer",
                        !.collection = d, !.sollicitee = "recente"]], {d})

\* The date of the request to the author forgotten.
SolliciterAuteur_SansDate(p, d, c) ==
    /\ demande[d].etat \in {"ouverte", "chantier"}
    /\ Lit(p, {d}, [e \in {d} |-> [demande[d] EXCEPT !.etat = "a_confirmer",
                        !.collection = c]], {d})

\* The e-mail kept when the author is satisfied.
ConfirmerSatisfaction_GardeContact(p, d, satisfait) ==
    /\ demande[d].etat = "a_confirmer" /\ ~ConfirmationEchue(demande[d])
    /\ Lit(p, {d},
           [e \in {d} |-> [demande[d] EXCEPT
               !.etat = IF satisfait THEN "realisee" ELSE "chantier",
               !.satisfaction = IF satisfait THEN "oui" ELSE "non",
               !.sollicitee = IF satisfait THEN @ ELSE "jamais"]],
           {d})

\* The sweep changes the state without an event.
Echeances_SansTrace(p) ==
    LET echues == {d \in Dem : ConfirmationEchue(demande[d])}
    IN  Lit(p, echues,
            [d \in echues |-> [demande[d] EXCEPT !.etat = "realisee",
                 !.satisfaction = "sans_reponse", !.contact = FALSE]], {})

\* The sweep leaves out the demandes whose author answered once before.
Echeances_PremierTour(p) ==
    LET echues == {d \in Dem : /\ ConfirmationEchue(demande[d])
                               /\ demande[d].satisfaction = Aucun}
    IN  Lit(p, echues,
            [d \in echues |-> [demande[d] EXCEPT !.etat = "realisee",
                 !.satisfaction = "sans_reponse", !.contact = FALSE]], echues)

\* No check for another guarantor.
SoutenirLire_SansControle(p, d, x, role) ==
    /\ requete[p] = Repos
    /\ Existe(d) /\ demande[d].etat \notin Finies
    /\ requete' = [requete EXCEPT ![p] =
                     [etape |-> "poser", lu |-> [e \in {d} |-> demande[e]],
                      voulu |-> [e \in {d} |-> demande[e]], evts |-> {},
                      pose |-> [dem |-> d, qui |-> x, role |-> role,
                                avant |-> soutien[d][x]]]]
    /\ UNCHANGED <<demande, soutien, journal>>

\* One request's decision to start the work, given the table it looks at.
PoserSelon(p, chantier) ==
    /\ requete[p].etape = "poser"
    /\ requete' = [requete EXCEPT
          ![p].etape = "valider",
          ![p].voulu[requete[p].pose.dem].etat =
              IF chantier /\ @ = "ouverte" THEN "chantier" ELSE @,
          ![p].evts = IF chantier THEN {requete[p].pose.dem} ELSE {}]
    /\ UNCHANGED <<demande, soutien, journal>>

\* The supporters counted before one's own row is flushed.
SoutenirPoser_SansFlush(p) ==
    /\ requete[p].etape = "poser"
    /\ PoserSelon(p, AtteintLeChantier(soutien[requete[p].pose.dem]))

\* The event built after the assignment: both ends say the new state.
Valider_TraceApres(p) ==
    /\ requete[p].etape = "valider"
    /\ LET r == requete[p]
           s == r.pose
       IN  /\ demande' = [d \in Dem |->
                 IF d \in DOMAIN r.lu
                 THEN Colonnes(demande[d], r.lu[d], r.voulu[d])
                 ELSE demande[d]]
           /\ journal' = [d \in Dem |->
                 IF d \in r.evts
                 THEN [de |-> r.voulu[d].etat, vers |-> r.voulu[d].etat]
                 ELSE journal[d]]
           /\ soutien' = IF s # Aucun /\ s.role # s.avant
                         THEN [soutien EXCEPT ![s.dem][s.qui] = s.role]
                         ELSE soutien
    /\ requete' = [requete EXCEPT ![p] = Repos]

-----------------------------------------------------------------------------
(* creer_demande: one INSERT, nothing to conflict with.                    *)

CreerDemande(d, contact) ==
    /\ Libre /\ ~Existe(d)
    /\ demande' = [demande EXCEPT ![d] =
                     [Absente EXCEPT !.etat = "ouverte", !.contact = contact]]
    /\ journal' = [journal EXCEPT ![d] = [de |-> "absente", vers |-> "ouverte"]]
    /\ UNCHANGED <<soutien, requete>>

(* soutenir: read the demande, the other guarantor and one's own row ...   *)

SoutenirLire(p, d, x, role) ==
    /\ requete[p] = Repos
    /\ Existe(d) /\ demande[d].etat \notin Finies
    /\ role = "garant" =>
           \A y \in Personnes \ {x} : soutien[d][y] # "garant"
    /\ requete' = [requete EXCEPT ![p] =
                     [etape |-> "poser", lu |-> [e \in {d} |-> demande[e]],
                      voulu |-> [e \in {d} |-> demande[e]], evts |-> {},
                      pose |-> [dem |-> d, qui |-> x, role |-> role,
                                avant |-> soutien[d][x]]]]
    /\ UNCHANGED <<demande, soutien, journal>>

(* ... flush one's row, count the supporters and recompute the state (the  *)
(* count sees the committed rows and one's own) ...                        *)

SoutenirPoser(p) ==
    /\ requete[p].etape = "poser"
    /\ LET s == requete[p].pose
           d == s.dem
           present == s.avant = Aucun \/ soutien[d][s.qui] # Aucun
           vue == IF present THEN [soutien[d] EXCEPT ![s.qui] = s.role]
                  ELSE soutien[d]
           chantier == /\ requete[p].lu[d].etat = "ouverte"
                       /\ AtteintLeChantier(vue)
       IN  /\ ~Verrou(d, s.qui)
           /\ s.avant = Aucun => soutien[d][s.qui] = Aucun
           /\ s.role # s.avant => present
           /\ requete' = [requete EXCEPT
                ![p].etape = "valider",
                ![p].voulu[d].etat = IF chantier THEN "chantier" ELSE @,
                ![p].evts = IF chantier THEN {d} ELSE {}]
    /\ UNCHANGED <<demande, soutien, journal>>

(* ... and commit.                                                         *)

RetirerSoutien(d, x) ==
    /\ Libre /\ Existe(d) /\ soutien[d][x] # Aucun
    /\ ~Verrou(d, x)
    /\ soutien' = [soutien EXCEPT ![d][x] = Aucun]
    /\ UNCHANGED <<demande, journal, requete>>

RetirerGarant(d) ==
    /\ Libre /\ Existe(d) /\ AGarant(soutien[d])
    /\ \A x \in Personnes : soutien[d][x] = "garant" => ~Verrou(d, x)
    /\ soutien' = [soutien EXCEPT ![d] = [x \in Personnes |->
                     IF @[x] = "garant" THEN Aucun ELSE @[x]]]
    /\ UNCHANGED <<demande, journal, requete>>

(* confirmer_satisfaction: the author's answer to "does it meet the need?" *)

ConfirmerSatisfaction(p, d, satisfait) ==
    /\ demande[d].etat = "a_confirmer" /\ ~ConfirmationEchue(demande[d])
    /\ Lit(p, {d},
           [e \in {d} |->
              IF satisfait
              THEN [demande[d] EXCEPT !.etat = "realisee",
                       !.satisfaction = "oui", !.contact = FALSE]
              ELSE [demande[d] EXCEPT !.etat = "chantier",
                       !.satisfaction = "non", !.sollicitee = "jamais"]],
           {d})

(* clore_demande, from any state: the code has no condition on it.         *)

CloreDemande(p, d, doublon_de) ==
    /\ Existe(d)
    /\ doublon_de # Aucun => Existe(doublon_de)
    /\ Lit(p, {d},
           [e \in {d} |-> [demande[d] EXCEPT !.etat = "close",
                              !.doublon = doublon_de, !.contact = FALSE]],
           {d})

(* _echeances, run by every read: unanswered demandes become "realisee".   *)

Echeances(p) ==
    LET echues == {d \in Dem : ConfirmationEchue(demande[d])}
    IN  Lit(p, echues,
            [d \in echues |-> [demande[d] EXCEPT !.etat = "realisee",
                 !.satisfaction = "sans_reponse", !.contact = FALSE]],
            echues)

(* changer_etat, the part that touches the demande a collection answers:   *)
(* it asks the author.  The new date is never the one that was read.       *)

SolliciterAuteur(p, d, c) ==
    /\ demande[d].etat \in {"ouverte", "chantier"}
    /\ requete[p] = Repos
    /\ requete' = [requete EXCEPT ![p] =
          [etape |-> "valider",
           lu    |-> [e \in {d} |-> [demande[d] EXCEPT !.sollicitee = "echue"]],
           voulu |-> [e \in {d} |-> [demande[d] EXCEPT !.etat = "a_confirmer",
                        !.collection = c, !.sollicitee = "recente"]],
           evts  |-> {d}, pose |-> Aucun]]
    /\ UNCHANGED <<demande, soutien, journal>>

(* delier_collection, when a collection is purged.                         *)

DelierCollection(p, c) ==
    LET liees == {d \in Dem : demande[d].collection = c}
    IN  Lit(p, liees,
            [d \in liees |-> [demande[d] EXCEPT !.collection = Aucun]], {})

(* The commit of whatever request p has read and wants.                    *)

Valider(p) ==
    /\ requete[p].etape = "valider"
    /\ LET r == requete[p]
           s == r.pose
       IN  /\ demande' = [d \in Dem |->
                 IF d \in DOMAIN r.lu
                 THEN Colonnes(demande[d], r.lu[d], r.voulu[d])
                 ELSE demande[d]]
           /\ journal' = [d \in Dem |->
                 IF d \in r.evts
                 THEN [de |-> r.lu[d].etat, vers |-> r.voulu[d].etat]
                 ELSE journal[d]]
           /\ soutien' = IF s # Aucun /\ s.role # s.avant
                         THEN [soutien EXCEPT ![s.dem][s.qui] = s.role]
                         ELSE soutien
    /\ requete' = [requete EXCEPT ![p] = Repos]

(* The request fails or the process dies before the commit: a unique key   *)
(* already taken, a row that is gone, a connection lost.  All is undone.   *)

Abandonner(p) ==
    /\ requete[p] # Repos
    /\ requete' = [requete EXCEPT ![p] = Repos]
    /\ UNCHANGED <<demande, soutien, journal>>

(* confirmation_jours pass.                                                *)

DelaiPasse(d) ==
    /\ demande[d].sollicitee = "recente"
    /\ demande' = [demande EXCEPT ![d].sollicitee = "echue"]
    /\ UNCHANGED <<soutien, journal, requete>>

-----------------------------------------------------------------------------
Creation == \E d \in Dem, contact \in BOOLEAN : CreerDemande(d, contact)

Soutien == \/ \E p \in Requetes, d \in Dem, x \in Personnes, role \in Roles :
                  SoutenirLire(p, d, x, role)
           \/ \E p \in Requetes : SoutenirPoser(p)

Retrait == \/ \E d \in Dem, x \in Personnes : RetirerSoutien(d, x)
           \/ \E d \in Dem : RetirerGarant(d)

Fin == \/ \E p \in Requetes, d \in Dem, satisfait \in BOOLEAN :
              ConfirmerSatisfaction(p, d, satisfait)
       \/ \E p \in Requetes, d \in Dem, autre \in Dem \cup {Aucun} :
              CloreDemande(p, d, autre)
       \/ \E p \in Requetes : Echeances(p)

Livraison == \/ \E p \in Requetes, d \in Dem, c \in Collections :
                    SolliciterAuteur(p, d, c)
             \/ \E p \in Requetes, c \in Collections : DelierCollection(p, c)

Issue == \E p \in Requetes : Valider(p) \/ Abandonner(p)

Next == \/ Creation
        \/ Soutien
        \/ Retrait
        \/ Fin
        \/ Livraison
        \/ Issue
        \/ \E d \in Dem : DelaiPasse(d)

Spec == Init /\ [][Next]_vars

\* What request p is about to commit is the expiry of a confirmation.
Expire(p) == /\ requete[p].etape = "valider"
             /\ \E d \in DOMAIN requete[p].lu : ConfirmationEchue(requete[p].lu[d])
                                                /\ requete[p].voulu[d].etat = "realisee"

\* What schedules the code: the delay passes, a session that has begun does not
\* stay between its reads and its flush, the pages are read again and again
\* (each read runs _echeances) and not every one of these sweeps is cut off
\* before its commit.
Fairness == /\ \A d \in Dem : WF_vars(DelaiPasse(d))
            /\ \A p \in Requetes : WF_vars(SoutenirPoser(p) \/ Abandonner(p))
            /\ \A p \in Requetes : SF_vars(Echeances(p))
            /\ \A p \in Requetes : SF_vars(Expire(p) /\ Valider(p))

-----------------------------------------------------------------------------
(* Types.                                                                  *)

\* The rows of some demandes, as a request holds them.
Lignes == UNION {[S -> Fiche] : S \in SUBSET Dem}

Pose == [dem : Dem, qui : Personnes, role : Roles, avant : Roles \cup {Aucun}]

ASSUME PoseAssumption == Aucun \notin Pose

EnVol == [etape : {"poser", "valider"}, lu : Lignes, voulu : Lignes,
          evts : SUBSET Dem, pose : Pose \cup {Aucun}]

\* Every table keeps the shape models/db.py gives it, and a request in
\* flight holds rows of the demandes it read.
TypeOK == /\ demande \in [Dem -> Fiche]
          /\ soutien \in [Dem -> [Personnes -> Roles \cup {Aucun}]]
          /\ journal \in [Dem -> [de   : ETATS_DEMANDE \cup {"absente"},
                                  vers : ETATS_DEMANDE \cup {"absente"}]]
          /\ requete \in [Requetes -> {Repos} \cup EnVol]

-----------------------------------------------------------------------------
(* What holds however the requests overlap.                                *)

\* docs/collectif.md: the author's e-mail "est efface quand la demande se
\* termine".  Two functions end a demande and each erases the column only if
\* the row it loaded still had it; no overlap of them, with each other or
\* with a request that reopens the demande, leaves an e-mail behind.
ContactEfface == \A d \in Dem : demande[d].etat \in Finies => ~demande[d].contact

\* etats.confirmation_echue never expires a demande whose
\* confirmation_demandee_le is NULL: one that reached "a_confirmer" without a
\* date would wait for ever.  The date is written by one function and erased
\* by another, in columns of their own.
AConfirmerDatee ==
    \A d \in Dem : demande[d].etat = "a_confirmer" => demande[d].sollicitee # "jamais"

\* journal.py: "un geste sans trace n'a pas eu lieu".  Whatever state a commit
\* leaves in the row, it is the one the event of the same commit announces.
ChangementTrace ==
    [][\A d \in Dem : demande'[d].etat # demande[d].etat
          => journal'[d].vers = demande'[d].etat]_vars

\* A demande that waits for its author does not wait for ever: he answers, it
\* is closed, or a later read finds the delay over (_echeances).
ConfirmationAboutit ==
    \A d \in Dem : demande[d].etat = "a_confirmer" ~> demande[d].etat # "a_confirmer"

-----------------------------------------------------------------------------
(* What holds when the store functions do not overlap (one request), and   *)
(* is lost when they do.                                                   *)

\* docs/collectif.md: "409 si second garant".
UnSeulGarant ==
    \A d \in Dem : \A x, y \in Personnes :
        soutien[d][x] = "garant" /\ soutien[d][y] = "garant" => x = y

\* The journal tells the life of a demande without a gap: a commit that
\* changes the state writes the event that goes from the old one to the new.
EvenementJuste ==
    \A d \in Dem :
        LET pas == [de |-> demande[d].etat, vers |-> demande'[d].etat]
        IN  /\ pas.de # pas.vers => journal'[d] = pas
            /\ journal'[d] # journal[d] => journal'[d] = pas

=============================================================================
