------------------------- MODULE CircuitCollection -------------------------
(***************************************************************************)
(* The collaborative circuit of one collection: its state, its guarantor,  *)
(* its control grid with the people who have reviewed it, a proposition    *)
(* and a report about it, as services/collectif_store.py keeps them.       *)
(*                                                                         *)
(* The columns of the four rows are the fields of one record, `base`.  A   *)
(* store function is one session: it reads rows, decides on what it read   *)
(* and commits the columns it changed, so that other functions may commit  *)
(* between its read and its commit (see Demandes).                         *)
(***************************************************************************)
EXTENDS Naturals, Sequences, FiniteSets

CONSTANTS
    Personnes,  \* hashed identities
    Admins,     \* those among them who are superadministrators
    Requetes,   \* how many store functions can be in flight together
    Depots,     \* what people deposit: propositions, reports
    Pannes,     \* whether a session may fail
    Aucun       \* SQL NULL, and the absence of a row

ASSUME AdminsAssumption == Admins \subseteq Personnes
ASSUME DepotsAssumption == Depots \subseteq {"proposition", "signalement"}
ASSUME CircuitPannesAssumption == Pannes \in BOOLEAN
ASSUME AucunCircuitAssumption == Aucun \notin Personnes
ASSUME FinisCircuitAssumption == IsFiniteSet(Requetes)

ETATS_COLLECTION == <<"amorcee", "en_controle", "publiee_groupe", "publiee_tous">>
ETATS_PROPOSITION == {"proposee", "publiee", "refusee"}
ETATS_SIGNALEMENT == {"ouvert", "pris_en_compte", "clos"}

VARIABLES
    base,    \* the columns of the four rows
    fil,     \* the state and the `force` the last "collection.etat" tells
    requete  \* what each store function in flight is doing

vars == <<base, fil, requete>>

Etats == {ETATS_COLLECTION[i] : i \in 1..Len(ETATS_COLLECTION)}

\* champs: the three texts of the grid are filled.  A proposition or a report
\* has an identifier of its own, never used again: once purged, "effacee".
Base == [existe : BOOLEAN, cree_par : Personnes \cup {Aucun}, etat : Etats,
         garant : Personnes \cup {Aucun},
         grille : BOOLEAN, champs : BOOLEAN, relecteurs : SUBSET Personnes,
         relecture_n : Nat,
         proposition : ETATS_PROPOSITION \cup {Aucun, "effacee"}, motif : BOOLEAN,
         signalement : ETATS_SIGNALEMENT \cup {Aucun, "effacee"}]

Vide == [existe |-> FALSE, cree_par |-> Aucun, etat |-> "amorcee",
         garant |-> Aucun, grille |-> FALSE, champs |-> FALSE,
         relecteurs |-> {}, relecture_n |-> 0,
         proposition |-> Aucun, motif |-> FALSE, signalement |-> Aucun]

\* The row of each column.
Rangees == [collection  |-> {"existe", "cree_par", "etat", "garant"},
            grille      |-> {"grille", "champs", "relecteurs", "relecture_n"},
            proposition |-> {"proposition", "motif"},
            signalement |-> {"signalement"}]

Presentes == {t \in DOMAIN Rangees :
                CASE t = "collection"  -> base.existe
                  [] t = "grille"      -> base.grille
                  [] t = "proposition" -> base.proposition \in ETATS_PROPOSITION
                  [] t = "signalement" -> base.signalement \in ETATS_SIGNALEMENT}

Evenement == [de : Etats, vers : Etats, force : BOOLEAN]

SansEvenement == [de |-> "amorcee", vers |-> "amorcee", force |-> FALSE]

Fil == [vers : Etats, force : BOOLEAN]

FilVide == [vers |-> "amorcee", force |-> FALSE]

Repos == [etape |-> "repos"]

Init == /\ base = Vide
        /\ fil = FilVide
        /\ requete = [p \in Requetes |-> Repos]

-----------------------------------------------------------------------------
Libre == \E p \in Requetes : requete[p] = Repos

AuRepos == \A p \in Requetes : requete[p] = Repos

\* exiger_garant: the guarantor of the collection, or a superadministrator.
Habilite(x) == x = base.garant \/ x \in Admins

\* etats.grille_complete
GrilleComplete(b) == b.grille /\ b.champs /\ b.relecture_n >= 1

\* etats.transition_collection without `forcer`: the next step, or the way
\* back from publiee_tous; publiee_tous asks for a complete grid.
EtapeSuivante(de, vers) ==
    \/ \E i \in 1..(Len(ETATS_COLLECTION) - 1) :
          de = ETATS_COLLECTION[i] /\ vers = ETATS_COLLECTION[i + 1]
    \/ de = "publiee_tous" /\ vers = "publiee_groupe"

TransitionCollection(b, cible, forcer) ==
    /\ cible # b.etat
    /\ forcer \/ EtapeSuivante(b.etat, cible)
    /\ forcer \/ cible # "publiee_tous" \/ GrilleComplete(b)

\* Request p has read `base` and wants `voulu`: it will write the columns that
\* differ, INSERT or UPDATE as the row was there or not, and event `evt`.  The
\* creation of a collection is followed by `suite`.
Session(p, voulu, evt, suite) ==
    LET change == {k \in DOMAIN base : voulu[k] # base[k]}
        touchees == {t \in DOMAIN Rangees : Rangees[t] \cap change # {}}
    IN  requete' = [requete EXCEPT ![p] =
          [etape |-> "valider", ecrit |-> [k \in change |-> voulu[k]],
           insere |-> touchees \ Presentes, modifie |-> touchees \cap Presentes,
           evt |-> evt, suite |-> suite]]

Ecrit(p, voulu) ==
    /\ requete[p] = Repos
    /\ base.existe
    /\ Session(p, voulu, SansEvenement, Repos)
    /\ UNCHANGED <<base, fil>>

-----------------------------------------------------------------------------
(* The collection: created, initialised, purged.                           *)

\* Plausible bug, in no specification: the second session forgotten.
CreerCollection_SansCircuit(p, x) ==
    /\ requete[p] = Repos
    /\ ~base.existe
    /\ Session(p, [base EXCEPT !.existe = TRUE, !.cree_par = x], SansEvenement,
               Repos)
    /\ UNCHANGED <<base, fil>>

\* create_collection by x; the initialisation is a second session.
CreerCollection(p, x) ==
    /\ requete[p] = Repos
    /\ ~base.existe
    /\ Session(p, [base EXCEPT !.existe = TRUE, !.cree_par = x], SansEvenement,
               [etape |-> "initialiser", garant |-> x, champs |-> FALSE])
    /\ UNCHANGED <<base, fil>>

\* amorces._preparer: no creator, no guarantor, a grid filled or not.
CreerAmorce(p) ==
    /\ requete[p] = Repos
    /\ ~base.existe
    /\ \E b \in BOOLEAN :
         Session(p, [base EXCEPT !.existe = TRUE], SansEvenement,
                 [etape |-> "initialiser", garant |-> Aucun, champs |-> b])
    /\ UNCHANGED <<base, fil>>

\* Plausible bug, in no specification: a state without a default.
CreerMinimale_EtatNul(p) ==
    /\ requete[p] = Repos
    /\ ~base.existe
    /\ Session(p, [base EXCEPT !.existe = TRUE, !.etat = Aucun], SansEvenement, Repos)
    /\ UNCHANGED <<base, fil>>

\* get_or_create_collection, called by a publication: no initialisation.
CreerMinimale(p) ==
    /\ requete[p] = Repos
    /\ ~base.existe
    /\ Session(p, [base EXCEPT !.existe = TRUE], SansEvenement, Repos)
    /\ UNCHANGED <<base, fil>>

\* initialiser_collection: the first guarantor stays, a grid keeps its texts.
Initialiser(p) ==
    /\ requete[p].etape = "initialiser"
    /\ IF base.existe
       THEN Session(p, [base EXCEPT
                !.garant = IF @ = Aucun THEN requete[p].garant ELSE @,
                !.grille = TRUE,
                !.champs = @ \/ requete[p].champs], SansEvenement, Repos)
       ELSE requete' = [requete EXCEPT ![p] = Repos]
    /\ UNCHANGED <<base, fil>>

\* Plausible bug, in no specification: the journal forgotten by the cascade.
Purger_JournalGarde ==
    /\ Libre
    /\ base.existe
    /\ base' = [Vide EXCEPT
          !.proposition = IF base.proposition = Aucun THEN Aucun ELSE "effacee",
          !.signalement = IF base.signalement = Aucun THEN Aucun ELSE "effacee"]
    /\ UNCHANGED <<fil, requete>>

\* The cascade of purge_collection, one transaction.
Purger ==
    /\ Libre
    /\ base.existe
    /\ base' = [Vide EXCEPT
          !.proposition = IF base.proposition = Aucun THEN Aucun ELSE "effacee",
          !.signalement = IF base.signalement = Aucun THEN Aucun ELSE "effacee"]
    /\ fil' = FilVide
    /\ UNCHANGED requete

(* Its state.                                                              *)

\* Plausible bug, in no specification: the event committed on its own, before the state.
ChangerEtat_ConsigneAPart(p, x, cible, forcer) ==
    /\ requete[p] = Repos
    /\ base.existe /\ Habilite(x)
    /\ forcer => x \in Admins
    /\ TransitionCollection(base, cible, forcer)
    /\ Session(p, [base EXCEPT !.etat = cible],
               SansEvenement, Repos)
    /\ fil' = [vers |-> cible, force |-> forcer]
    /\ UNCHANGED base

ChangerEtat(p, x, cible, forcer) ==
    /\ requete[p] = Repos
    /\ base.existe /\ Habilite(x)
    /\ forcer => x \in Admins
    /\ TransitionCollection(base, cible, forcer)
    /\ Session(p, [base EXCEPT !.etat = cible],
               [de |-> base.etat, vers |-> cible, force |-> forcer], Repos)
    /\ UNCHANGED <<base, fil>>

(* Its grid, created by whoever writes it first.                           *)

MajGrille(p, x) ==
    /\ Habilite(x)
    /\ \E b \in BOOLEAN : Ecrit(p, [base EXCEPT !.grille = TRUE, !.champs = b])

PoserCouverture(p) == Ecrit(p, [base EXCEPT !.grille = TRUE])

Relire(p, x) ==
    Ecrit(p, [base EXCEPT
        !.grille = TRUE,
        !.relecteurs = @ \cup {x},
        !.relecture_n = IF x \in base.relecteurs THEN @
                        ELSE Cardinality(base.relecteurs) + 1])

(* A proposition and a report: one of each over a behaviour, inserted under *)
(* a fresh identifier, which reads nothing and conflicts with nothing.     *)

CreerProposition ==
    /\ "proposition" \in Depots
    /\ Libre /\ base.existe /\ base.proposition = Aucun
    /\ base' = [base EXCEPT !.proposition = "proposee"]
    /\ UNCHANGED <<fil, requete>>

DeciderProposition(p, x, decision) ==
    /\ Habilite(x)
    /\ base.proposition = "proposee"
    /\ Ecrit(p, [base EXCEPT !.proposition = decision,
                             !.motif = (decision = "refusee")])

CreerSignalement ==
    /\ "signalement" \in Depots
    /\ Libre /\ base.existe /\ base.signalement = Aucun
    /\ base' = [base EXCEPT !.signalement = "ouvert"]
    /\ UNCHANGED <<fil, requete>>

TraiterSignalement(p, x, etat) ==
    /\ Habilite(x)
    /\ base.signalement \in ETATS_SIGNALEMENT
    /\ Ecrit(p, [base EXCEPT !.signalement = etat])

-----------------------------------------------------------------------------
\* An INSERT finds the row there, or an UPDATE finds it gone.
Conflit(r) == r.insere \cap Presentes # {} \/ r.modifie \ Presentes # {}

\* Plausible bug, in no specification: the number of reviewers incremented in SQL.
Valider_Increment(p) ==
    /\ requete[p].etape = "valider"
    /\ LET r == requete[p]
       IN  /\ ~Conflit(r)
           /\ base' = [k \in DOMAIN base |->
                         CASE k \notin DOMAIN r.ecrit -> base[k]
                           [] k = "relecture_n"     -> base[k] + 1
                           [] OTHER                 -> r.ecrit[k]]
           /\ fil' = IF r.evt = SansEvenement THEN fil
                     ELSE [vers |-> r.evt.vers, force |-> r.evt.force]
           /\ requete' = [requete EXCEPT ![p] = r.suite]

\* The commit: the columns changed, and the event.
Valider(p) ==
    /\ requete[p].etape = "valider"
    /\ LET r == requete[p]
       IN  /\ ~Conflit(r)
           /\ base' = [k \in DOMAIN base |->
                         IF k \in DOMAIN r.ecrit THEN r.ecrit[k] ELSE base[k]]
           /\ fil' = IF r.evt = SansEvenement THEN fil
                     ELSE [vers |-> r.evt.vers, force |-> r.evt.force]
           /\ requete' = [requete EXCEPT ![p] = r.suite]

\* The session fails: nothing of it is kept, and the route ends.  The process
\* that dies between the two sessions of a creation is one of these.
Abandonner(p) ==
    /\ requete[p] # Repos
    /\ Pannes \/ (requete[p].etape = "valider" /\ Conflit(requete[p]))
    /\ requete' = [requete EXCEPT ![p] = Repos]
    /\ UNCHANGED <<base, fil>>

-----------------------------------------------------------------------------
Creation == \E p \in Requetes :
    \/ \E x \in Personnes : CreerCollection(p, x)
    \/ CreerAmorce(p)
    \/ CreerMinimale(p)
    \/ Initialiser(p)

Circuit == \E p \in Requetes, x \in Personnes :
    \/ \E cible \in Etats, forcer \in BOOLEAN : ChangerEtat(p, x, cible, forcer)
    \/ MajGrille(p, x)
    \/ Relire(p, x)

Import == \E p \in Requetes : PoserCouverture(p)

Contribution ==
    \/ CreerProposition
    \/ CreerSignalement
    \/ \E p \in Requetes, x \in Personnes :
         \/ \E decision \in {"publiee", "refusee"} : DeciderProposition(p, x, decision)
         \/ \E etat \in {"pris_en_compte", "clos"} : TraiterSignalement(p, x, etat)

\* No session fails.
Marche == \/ Creation
          \/ Purger
          \/ Circuit
          \/ Import
          \/ Contribution
          \/ \E p \in Requetes : Valider(p)

Next == Marche \/ \E p \in Requetes : Abandonner(p)

Spec == Init /\ [][Next]_vars

-----------------------------------------------------------------------------
\* The rows, the journal and the sessions in flight keep their shapes: what
\* a session will write is a row the tables accept.
EnVol(r) ==
    \/ r = Repos
    \/ r \in [etape : {"initialiser"}, garant : Personnes \cup {Aucun},
             champs : BOOLEAN]
    \/ /\ r.etape = "valider"
       /\ DOMAIN r.ecrit \subseteq DOMAIN Vide
       /\ [k \in DOMAIN Vide |-> IF k \in DOMAIN r.ecrit THEN r.ecrit[k] ELSE Vide[k]]
             \in Base
       /\ r.evt \in Evenement

TypeOK == /\ base \in Base
          /\ fil \in Fil
          /\ \A p \in Requetes : EnVol(requete[p])

\* collectif_store.relire keeps the reviewers and their number in two columns
\* and computes the second from the first: whatever sessions overlap, and
\* though a reviewer may be lost, the number is that of the reviewers kept.
CompteRelectures == base.relecture_n = Cardinality(base.relecteurs)

\* collectif_store.changer_etat writes the state and its event together: the
\* last "collection.etat" of the journal always says the state the collection
\* is in, whichever of the overlapping functions commits last.
FilAJour == base.existe => fil.vers = base.etat

-----------------------------------------------------------------------------
(* What holds of sessions that follow one another, none of which fails.     *)

\* The event leaves the state the one before arrived at.
FilRepris == \A p \in Requetes : Valider(p) /\ requete[p].evt # SansEvenement =>
                 requete[p].evt.de = fil.vers

\* The two sessions of a creation are over.
CreationEntiere == AuRepos /\ base.existe /\ base.cree_par # Aucun =>
                       base.garant = base.cree_par /\ base.grille
=============================================================================
