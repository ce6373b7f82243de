---------------------- MODULE CircuitCollection_proofs ----------------------
(***************************************************************************)
(* The circuit of a collection however many sessions overlap and fail, for *)
(* any people and any number of sessions: the journal tells the state the  *)
(* collection is in, and the number of reviews is that of the reviewers.   *)
(*                                                                         *)
(* Neither is inductive.  A commit writes columns chosen when the session  *)
(* read: Fideles says what is known of them when the commit comes, that    *)
(* the columns which must agree are always written together.               *)
(*                                                                         *)
(* Then, of sessions that follow one another and do not fail (`serie` of   *)
(* MCCircuitCollection): a collection is born with its guarantor, and each *)
(* event continues the one before.  Suivi says that the only session in    *)
(* flight has read the row as it is, and where a creation in two sessions  *)
(* stands.                                                                 *)
(***************************************************************************)
EXTENDS MCCircuitCollection, FiniteSetTheorems, TLAPS

\* What follows a commit: nothing, or the initialisation of a collection.
Suite(r) == \/ r = Repos
            \/ r \in [etape : {"initialiser"}, garant : Personnes \cup {Aucun},
                      champs : BOOLEAN]

\* The reviewers and their number, in a row or in what will be written.
Comptes(b) == IsFiniteSet(b.relecteurs) /\ b.relecture_n = Cardinality(b.relecteurs)

\* A session writes the state if and only if it writes its event, and the
\* reviewers if and only if it writes their number.
Fidele(r) ==
    /\ Suite(r.suite)
    /\ r.evt = SansEvenement => "etat" \notin DOMAIN r.ecrit
    /\ r.evt # SansEvenement => /\ "etat" \in DOMAIN r.ecrit
                                /\ r.evt.vers = r.ecrit.etat
    /\ "relecteurs" \in DOMAIN r.ecrit <=> "relecture_n" \in DOMAIN r.ecrit
    /\ "relecteurs" \in DOMAIN r.ecrit => Comptes(r.ecrit)

Fideles == \A p \in Requetes : requete[p].etape = "valider" => Fidele(requete[p])

TypeInv == TypeOK /\ DOMAIN requete = Requetes

Inv == /\ TypeInv
       /\ Fideles
       /\ Comptes(base)
       /\ fil.vers = base.etat

-----------------------------------------------------------------------------
Colonnes == {"existe", "cree_par", "etat", "garant", "grille", "champs",
             "relecteurs", "relecture_n", "proposition", "motif", "signalement"}

LEMMA BaseColonnes == /\ DOMAIN Vide = Colonnes
                      /\ \A b \in Base : DOMAIN b = Colonnes
BY DEF Vide, Base, Colonnes

LEMMA VideBase == Vide \in Base
BY DEF Vide, Base, Etats, ETATS_COLLECTION

\* The columns `ecrit` over the row b.
Pose(b, ecrit) == [k \in Colonnes |-> IF k \in DOMAIN ecrit THEN ecrit[k] ELSE b[k]]

\* A row is a row column by column: what makes a row of an empty row makes a
\* row of any row.
LEMMA PoseType ==
    ASSUME NEW b \in Base, NEW ecrit, Pose(Vide, ecrit) \in Base
    PROVE  Pose(b, ecrit) \in Base
<1> DEFINE v == Pose(Vide, ecrit)
           n == Pose(b, ecrit)
<1>1. \A k \in Colonnes : n[k] = IF k \in DOMAIN ecrit THEN v[k] ELSE b[k]
  BY DEF Pose
<1>2. \A k \in Colonnes : n[k] = v[k] \/ n[k] = b[k]
  BY <1>1
<1>3. n = [k \in Colonnes |-> n[k]]
  BY DEF Pose
<1>4. n = [existe |-> n.existe, cree_par |-> n.cree_par, etat |-> n.etat,
           garant |-> n.garant, grille |-> n.grille, champs |-> n.champs,
           relecteurs |-> n.relecteurs, relecture_n |-> n.relecture_n,
           proposition |-> n.proposition, motif |-> n.motif,
           signalement |-> n.signalement]
  BY <1>3 DEF Colonnes
<1> HIDE DEF v, n
<1>5. v \in Base
  BY DEF v
<1>6. /\ n.existe \in BOOLEAN /\ n.cree_par \in Personnes \cup {Aucun}
      /\ n.etat \in Etats /\ n.garant \in Personnes \cup {Aucun}
      /\ n.grille \in BOOLEAN /\ n.champs \in BOOLEAN
      /\ n.relecteurs \in SUBSET Personnes /\ n.relecture_n \in Nat
      /\ n.proposition \in ETATS_PROPOSITION \cup {Aucun, "effacee"}
      /\ n.motif \in BOOLEAN
      /\ n.signalement \in ETATS_SIGNALEMENT \cup {Aucun, "effacee"}
  BY <1>2, <1>5 DEF Base, Colonnes
<1>7. n \in Base
  BY <1>4, <1>6 DEF Base
<1> QED
  BY <1>7 DEF n

\* Sessions in flight are of three kinds.
LEMMA EnVolCas ==
    ASSUME TypeInv, NEW p \in Requetes
    PROVE  EnVol(requete[p])
BY DEF TypeInv, TypeOK

\* A session that begins, or goes on, with row `voulu` in view.
LEMMA SessionGarde ==
    ASSUME Inv, NEW p \in Requetes, NEW voulu \in Base,
           NEW evt \in Evenement, NEW suite, Suite(suite),
           Session(p, voulu, evt, suite),
           evt = SansEvenement <=> voulu.etat = base.etat,
           evt # SansEvenement => evt.vers = voulu.etat,
           voulu.relecteurs = base.relecteurs <=> voulu.relecture_n = base.relecture_n,
           Comptes(voulu),
           UNCHANGED <<base, fil>>
    PROVE  Inv'
<1> DEFINE change == {k \in DOMAIN base : voulu[k] # base[k]}
           r == requete'[p]
<1>1. base \in Base /\ DOMAIN base = Colonnes /\ DOMAIN voulu = Colonnes
  BY BaseColonnes DEF Inv, TypeInv, TypeOK
<1>2. /\ DOMAIN requete' = Requetes
      /\ \A q \in Requetes \ {p} : requete'[q] = requete[q]
      /\ r.etape = "valider"
      /\ r.ecrit = [k \in change |-> voulu[k]]
      /\ r.evt = evt
      /\ r.suite = suite
  BY DEF Session, Inv, TypeInv
<1>3. DOMAIN r.ecrit = change /\ change \subseteq Colonnes
  BY <1>1, <1>2
<1>4. Pose(Vide, r.ecrit) \in Base
  <2>1. Pose(Vide, [k \in change |-> voulu[k]]) \in Base
    <3> DEFINE v == Pose(Vide, [k \in change |-> voulu[k]])
    <3>1. \A k \in Colonnes : v[k] = IF k \in change THEN voulu[k] ELSE Vide[k]
      BY DEF Pose
    <3>2. v = [existe |-> v.existe, cree_par |-> v.cree_par, etat |-> v.etat,
               garant |-> v.garant, grille |-> v.grille, champs |-> v.champs,
               relecteurs |-> v.relecteurs, relecture_n |-> v.relecture_n,
               proposition |-> v.proposition, motif |-> v.motif,
               signalement |-> v.signalement]
      BY DEF Pose, Colonnes
    <3> HIDE DEF v, change
    <3>3. \A k \in Colonnes : v[k] = voulu[k] \/ v[k] = Vide[k]
      BY <3>1
    <3>4. /\ v.existe \in BOOLEAN /\ v.cree_par \in Personnes \cup {Aucun}
          /\ v.etat \in Etats /\ v.garant \in Personnes \cup {Aucun}
          /\ v.grille \in BOOLEAN /\ v.champs \in BOOLEAN
          /\ v.relecteurs \in SUBSET Personnes /\ v.relecture_n \in Nat
          /\ v.proposition \in ETATS_PROPOSITION \cup {Aucun, "effacee"}
          /\ v.motif \in BOOLEAN
          /\ v.signalement \in ETATS_SIGNALEMENT \cup {Aucun, "effacee"}
      BY <3>3, VideBase DEF Base, Colonnes
    <3>5. v \in Base
      BY <3>2, <3>4 DEF Base
    <3> QED
      BY <3>5 DEF v
  <2> QED
    BY <1>2, <2>1
<1>5. EnVol(r)
  BY <1>1, <1>2, <1>3, <1>4, BaseColonnes DEF EnVol, Pose
<1>6. Fidele(r)
  <2>1. /\ "etat" \in change <=> voulu.etat # base.etat
        /\ "relecteurs" \in change <=> voulu.relecteurs # base.relecteurs
        /\ "relecture_n" \in change <=> voulu.relecture_n # base.relecture_n
    BY <1>1 DEF Colonnes
  <2>2. /\ "etat" \in change => r.ecrit.etat = voulu.etat
        /\ "relecteurs" \in change => r.ecrit.relecteurs = voulu.relecteurs
        /\ "relecture_n" \in change => r.ecrit.relecture_n = voulu.relecture_n
    BY <1>2
  <2> HIDE DEF change, r
  <2>3. "relecteurs" \in change <=> "relecture_n" \in change
    BY <2>1
  <2>4. "relecteurs" \in change => Comptes(r.ecrit)
    BY <2>2, <2>3 DEF Comptes
  <2> QED
    BY <1>2, <1>3, <2>1, <2>2, <2>3, <2>4 DEF Fidele
<1>7. TypeInv'
  BY <1>2, <1>5 DEF Inv, TypeInv, TypeOK, EnVol
<1>8. Fideles'
  BY <1>2, <1>6 DEF Inv, Fideles
<1> QED
  BY <1>7, <1>8 DEF Inv, Comptes

\* The same, for a session that touches neither the state nor the reviewers.
LEMMA SessionSimple ==
    ASSUME Inv, NEW p \in Requetes, NEW voulu \in Base, NEW suite, Suite(suite),
           Session(p, voulu, SansEvenement, suite),
           voulu.etat = base.etat,
           voulu.relecteurs = base.relecteurs,
           voulu.relecture_n = base.relecture_n,
           UNCHANGED <<base, fil>>
    PROVE  Inv'
<1>1. SansEvenement \in Evenement
  BY DEF SansEvenement, Evenement, Etats, ETATS_COLLECTION
<1>2. Comptes(voulu)
  BY DEF Inv, Comptes
<1> QED
  BY <1>1, <1>2, SessionGarde

\* A session that ends without a commit.
LEMMA FinGarde ==
    ASSUME Inv, NEW p \in Requetes,
           requete' = [requete EXCEPT ![p] = Repos], UNCHANGED <<base, fil>>
    PROVE  Inv'
<1>1. TypeInv'
  BY DEF Inv, TypeInv, TypeOK, EnVol
<1>2. Fideles'
  BY DEF Inv, TypeInv, Fideles, Repos
<1> QED
  BY <1>1, <1>2 DEF Inv, Comptes

\* A commit of its own, which leaves the sessions in flight as they are.
LEMMA SansSessionGarde ==
    ASSUME Inv, base' \in Base, Comptes(base'), fil' \in Fil,
           fil'.vers = base'.etat, UNCHANGED requete
    PROVE  Inv'
<1>1. TypeInv'
  BY DEF Inv, TypeInv, TypeOK, EnVol
<1>2. Fideles'
  BY DEF Inv, Fideles
<1> QED
  BY <1>1, <1>2 DEF Inv, Comptes

-----------------------------------------------------------------------------
(* The actions.                                                            *)

LEMMA InitInv == Init => Inv
<1> SUFFICES ASSUME Init PROVE Inv
  OBVIOUS
<1>1. base \in Base /\ fil \in Fil
  BY VideBase DEF Init, Fil, FilVide, Etats, ETATS_COLLECTION
<1>2. TypeInv
  BY <1>1 DEF Init, TypeInv, TypeOK, EnVol
<1>3. Fideles
  BY DEF Init, Fideles, Repos
<1>4. Comptes(base)
  BY FS_EmptySet DEF Init, Comptes, Vide
<1> QED
  BY <1>2, <1>3, <1>4 DEF Init, Inv, Vide, FilVide

LEMMA CreationGarde ==
    ASSUME Inv, Creation
    PROVE  Inv'
<1>1. base \in Base
  BY DEF Inv, TypeInv, TypeOK
<1>2. ASSUME NEW p \in Requetes, NEW x \in Personnes, CreerCollection(p, x)
      PROVE  Inv'
  <2> DEFINE voulu == [base EXCEPT !.existe = TRUE, !.cree_par = x]
             suite == [etape |-> "initialiser", garant |-> x, champs |-> FALSE]
  <2>1. /\ voulu \in Base
        /\ voulu.etat = base.etat /\ voulu.relecteurs = base.relecteurs
        /\ voulu.relecture_n = base.relecture_n
    BY <1>1 DEF Base
  <2>2. Suite(suite)
    BY DEF Suite
  <2>3. Session(p, voulu, SansEvenement, suite) /\ UNCHANGED <<base, fil>>
    BY <1>2 DEF CreerCollection
  <2> HIDE DEF voulu, suite
  <2> QED
    BY <2>1, <2>2, <2>3, SessionSimple
<1>3. ASSUME NEW p \in Requetes, CreerAmorce(p)
      PROVE  Inv'
  <2> DEFINE voulu == [base EXCEPT !.existe = TRUE]
             suite(b) == [etape |-> "initialiser", garant |-> Aucun, champs |-> b]
  <2>1. /\ voulu \in Base
        /\ voulu.etat = base.etat /\ voulu.relecteurs = base.relecteurs
        /\ voulu.relecture_n = base.relecture_n
    BY <1>1 DEF Base
  <2>2. PICK b \in BOOLEAN : Session(p, voulu, SansEvenement, suite(b))
    BY <1>3 DEF CreerAmorce
  <2>3. Suite(suite(b))
    BY DEF Suite
  <2>4. UNCHANGED <<base, fil>>
    BY <1>3 DEF CreerAmorce
  <2> HIDE DEF voulu, suite
  <2> QED
    BY <2>1, <2>2, <2>3, <2>4, SessionSimple
<1>4. ASSUME NEW p \in Requetes, CreerMinimale(p)
      PROVE  Inv'
  <2> DEFINE voulu == [base EXCEPT !.existe = TRUE]
  <2>1. /\ voulu \in Base
        /\ voulu.etat = base.etat /\ voulu.relecteurs = base.relecteurs
        /\ voulu.relecture_n = base.relecture_n
    BY <1>1 DEF Base
  <2>2. Session(p, voulu, SansEvenement, Repos) /\ UNCHANGED <<base, fil>>
    BY <1>4 DEF CreerMinimale
  <2>3. Suite(Repos)
    BY DEF Suite
  <2> HIDE DEF voulu
  <2> QED
    BY <2>1, <2>2, <2>3, SessionSimple
<1>5. ASSUME NEW p \in Requetes, Initialiser(p)
      PROVE  Inv'
  <2>1. requete[p].garant \in Personnes \cup {Aucun} /\ requete[p].champs \in BOOLEAN
    <3>1. requete[p].etape = "initialiser" /\ EnVol(requete[p])
      BY <1>5, EnVolCas DEF Inv, Initialiser
    <3>2. requete[p] \in [etape : {"initialiser"}, garant : Personnes \cup {Aucun},
                          champs : BOOLEAN]
      BY <3>1 DEF EnVol, Repos
    <3> QED
      BY <3>2
  <2> DEFINE voulu == [base EXCEPT
                         !.garant = IF @ = Aucun THEN requete[p].garant ELSE @,
                         !.grille = TRUE, !.champs = @ \/ requete[p].champs]
  <2>2. /\ voulu \in Base
        /\ voulu.etat = base.etat /\ voulu.relecteurs = base.relecteurs
        /\ voulu.relecture_n = base.relecture_n
    BY <1>1, <2>1 DEF Base
  <2>3. Suite(Repos)
    BY DEF Suite
  <2>4. CASE base.existe
    <3>1. Session(p, voulu, SansEvenement, Repos) /\ UNCHANGED <<base, fil>>
      BY <1>5, <2>4 DEF Initialiser
    <3> HIDE DEF voulu
    <3> QED
      BY <2>2, <2>3, <3>1, SessionSimple
  <2>5. CASE ~base.existe
    BY <1>5, <2>5, FinGarde DEF Initialiser
  <2> QED
    BY <2>4, <2>5
<1> QED
  BY <1>2, <1>3, <1>4, <1>5 DEF Creation

\* The state and its event: never the one without the other.
LEMMA ChangerEtatGarde ==
    ASSUME Inv, NEW p \in Requetes, NEW x \in Personnes, NEW cible \in Etats,
           NEW forcer \in BOOLEAN, ChangerEtat(p, x, cible, forcer)
    PROVE  Inv'
<1> DEFINE voulu == [base EXCEPT !.etat = cible]
           evt == [de |-> base.etat, vers |-> cible, force |-> forcer]
<1>1. base \in Base
  BY DEF Inv, TypeInv, TypeOK
<1>2. cible # base.etat
  BY DEF ChangerEtat, TransitionCollection
<1>3. /\ voulu \in Base /\ voulu.etat = cible
      /\ voulu.relecteurs = base.relecteurs /\ voulu.relecture_n = base.relecture_n
  BY <1>1 DEF Base
<1>4. evt \in Evenement /\ evt # SansEvenement /\ evt.vers = cible
  BY <1>1, <1>2 DEF Base, Evenement, SansEvenement
<1>5. Comptes(voulu)
  BY <1>3 DEF Inv, Comptes
<1>6. Session(p, voulu, evt, Repos) /\ UNCHANGED <<base, fil>>
  BY DEF ChangerEtat
<1>7. Suite(Repos)
  BY DEF Suite
<1> HIDE DEF voulu, evt
<1> QED
  BY <1>2, <1>3, <1>4, <1>5, <1>6, <1>7, SessionGarde

\* The reviewers and their number, likewise.
LEMMA RelireGarde ==
    ASSUME Inv, NEW p \in Requetes, NEW x \in Personnes, Relire(p, x)
    PROVE  Inv'
<1> DEFINE qui == base.relecteurs \cup {x}
           n == IF x \in base.relecteurs THEN base.relecture_n
                ELSE Cardinality(base.relecteurs) + 1
           voulu == [base EXCEPT !.grille = TRUE, !.relecteurs = qui,
                                 !.relecture_n = n]
<1>1. base \in Base
  BY DEF Inv, TypeInv, TypeOK
<1>2. /\ IsFiniteSet(base.relecteurs) /\ base.relecture_n = Cardinality(base.relecteurs)
      /\ Cardinality(base.relecteurs) \in Nat
  BY FS_CardinalityType DEF Inv, Comptes
<1>3. /\ voulu.etat = base.etat
      /\ voulu.relecteurs = base.relecteurs \cup {x}
      /\ voulu.relecture_n = IF x \in base.relecteurs THEN base.relecture_n
                             ELSE Cardinality(base.relecteurs) + 1
      /\ voulu \in Base
  <2>1. qui \in SUBSET Personnes /\ n \in Nat
    BY <1>1, <1>2 DEF Base
  <2> HIDE DEF qui, n
  <2>2. voulu \in Base
    BY <1>1, <2>1 DEF Base
  <2>3. voulu.etat = base.etat /\ voulu.relecteurs = qui /\ voulu.relecture_n = n
    BY <1>1 DEF Base
  <2> QED
    BY <2>2, <2>3 DEF qui, n
<1>4. Session(p, voulu, SansEvenement, Repos) /\ UNCHANGED <<base, fil>>
  BY DEF Relire, Ecrit
<1>5. Suite(Repos) /\ SansEvenement \in Evenement
  BY DEF Suite, SansEvenement, Evenement, Etats, ETATS_COLLECTION
<1> HIDE DEF voulu, qui, n
<1>6. /\ IsFiniteSet(base.relecteurs \cup {x})
      /\ Cardinality(base.relecteurs \cup {x}) =
            IF x \in base.relecteurs THEN Cardinality(base.relecteurs)
            ELSE Cardinality(base.relecteurs) + 1
  BY <1>2, FS_AddElement
<1>7. Comptes(voulu)
  BY <1>2, <1>3, <1>6 DEF Comptes
<1>8. voulu.relecteurs = base.relecteurs <=> voulu.relecture_n = base.relecture_n
  <2>1. CASE x \in base.relecteurs
    <3>1. base.relecteurs \cup {x} = base.relecteurs
      BY <2>1
    <3> QED
      BY <2>1, <3>1, <1>3
  <2>2. CASE x \notin base.relecteurs
    <3>1. base.relecteurs \cup {x} # base.relecteurs
      BY <2>2
    <3>2. voulu.relecture_n # base.relecture_n
      BY <2>2, <1>2, <1>3
    <3> QED
      BY <3>1, <3>2, <1>3
  <2> QED
    BY <2>1, <2>2
<1> QED
  BY <1>3, <1>4, <1>5, <1>7, <1>8, SessionGarde

LEMMA CircuitGarde ==
    ASSUME Inv, Circuit
    PROVE  Inv'
<1>1. base \in Base
  BY DEF Inv, TypeInv, TypeOK
<1>2. ASSUME NEW p \in Requetes, NEW x \in Personnes, MajGrille(p, x)
      PROVE  Inv'
  <2> DEFINE voulu(b) == [base EXCEPT !.grille = TRUE, !.champs = b]
  <2>1. PICK b \in BOOLEAN : Session(p, voulu(b), SansEvenement, Repos)
    BY <1>2 DEF MajGrille, Ecrit
  <2>2. UNCHANGED <<base, fil>>
    BY <1>2 DEF MajGrille, Ecrit
  <2>3. /\ voulu(b) \in Base
        /\ voulu(b).etat = base.etat /\ voulu(b).relecteurs = base.relecteurs
        /\ voulu(b).relecture_n = base.relecture_n
    BY <1>1 DEF Base
  <2>4. Suite(Repos)
    BY DEF Suite
  <2> HIDE DEF voulu
  <2> QED
    BY <2>1, <2>2, <2>3, <2>4, SessionSimple
<1> QED
  BY <1>2, ChangerEtatGarde, RelireGarde DEF Circuit

LEMMA ImportGarde ==
    ASSUME Inv, Import
    PROVE  Inv'
<1> DEFINE voulu == [base EXCEPT !.grille = TRUE]
<1>1. base \in Base
  BY DEF Inv, TypeInv, TypeOK
<1>2. PICK p \in Requetes : Session(p, voulu, SansEvenement, Repos)
  BY DEF Import, PoserCouverture, Ecrit
<1>3. UNCHANGED <<base, fil>>
  BY DEF Import, PoserCouverture, Ecrit
<1>4. /\ voulu \in Base
      /\ voulu.etat = base.etat /\ voulu.relecteurs = base.relecteurs
      /\ voulu.relecture_n = base.relecture_n
  BY <1>1 DEF Base
<1>5. Suite(Repos)
  BY DEF Suite
<1> HIDE DEF voulu
<1> QED
  BY <1>2, <1>3, <1>4, <1>5, SessionSimple

LEMMA ContributionGarde ==
    ASSUME Inv, Contribution
    PROVE  Inv'
<1>1. base \in Base /\ fil \in Fil /\ Comptes(base) /\ fil.vers = base.etat
  BY DEF Inv, TypeInv, TypeOK
<1>2. Suite(Repos)
  BY DEF Suite
<1>3. CASE CreerProposition
  <2>1. base' = [base EXCEPT !.proposition = "proposee"] /\ UNCHANGED <<fil, requete>>
    BY <1>3 DEF CreerProposition
  <2>2. base' \in Base /\ base'.etat = base.etat
        /\ base'.relecteurs = base.relecteurs /\ base'.relecture_n = base.relecture_n
    BY <1>1, <2>1 DEF Base, ETATS_PROPOSITION
  <2> QED
    BY <1>1, <2>1, <2>2, SansSessionGarde DEF Comptes
<1>4. CASE CreerSignalement
  <2>1. base' = [base EXCEPT !.signalement = "ouvert"] /\ UNCHANGED <<fil, requete>>
    BY <1>4 DEF CreerSignalement
  <2>2. base' \in Base /\ base'.etat = base.etat
        /\ base'.relecteurs = base.relecteurs /\ base'.relecture_n = base.relecture_n
    BY <1>1, <2>1 DEF Base, ETATS_SIGNALEMENT
  <2> QED
    BY <1>1, <2>1, <2>2, SansSessionGarde DEF Comptes
<1>5. ASSUME NEW p \in Requetes, NEW x \in Personnes,
             NEW decision \in {"publiee", "refusee"}, DeciderProposition(p, x, decision)
      PROVE  Inv'
  <2> DEFINE motive == (decision = "refusee")
             voulu == [base EXCEPT !.proposition = decision, !.motif = motive]
  <2>1. Session(p, voulu, SansEvenement, Repos) /\ UNCHANGED <<base, fil>>
    BY <1>5 DEF DeciderProposition, Ecrit
  <2>2. motive \in BOOLEAN /\ decision \in ETATS_PROPOSITION
    BY DEF ETATS_PROPOSITION
  <2> HIDE DEF motive
  <2>3. /\ voulu \in Base
        /\ voulu.etat = base.etat /\ voulu.relecteurs = base.relecteurs
        /\ voulu.relecture_n = base.relecture_n
    BY <1>1, <2>2 DEF Base
  <2> HIDE DEF voulu
  <2> QED
    BY <1>2, <2>1, <2>3, SessionSimple
<1>6. ASSUME NEW p \in Requetes, NEW x \in Personnes,
             NEW etat \in {"pris_en_compte", "clos"}, TraiterSignalement(p, x, etat)
      PROVE  Inv'
  <2> DEFINE voulu == [base EXCEPT !.signalement = etat]
  <2>1. Session(p, voulu, SansEvenement, Repos) /\ UNCHANGED <<base, fil>>
    BY <1>6 DEF TraiterSignalement, Ecrit
  <2>2. /\ voulu \in Base
        /\ voulu.etat = base.etat /\ voulu.relecteurs = base.relecteurs
        /\ voulu.relecture_n = base.relecture_n
    BY <1>1 DEF Base, ETATS_SIGNALEMENT
  <2> HIDE DEF voulu
  <2> QED
    BY <1>2, <2>1, <2>2, SessionSimple
<1> QED
  BY <1>3, <1>4, <1>5, <1>6 DEF Contribution

LEMMA PurgerGarde ==
    ASSUME Inv, Purger
    PROVE  Inv'
<1> DEFINE prop == IF base.proposition = Aucun THEN Aucun ELSE "effacee"
           sig == IF base.signalement = Aucun THEN Aucun ELSE "effacee"
<1>1. base' = [Vide EXCEPT !.proposition = prop, !.signalement = sig]
      /\ fil' = FilVide /\ UNCHANGED requete
  BY DEF Purger
<1>2. prop \in {Aucun, "effacee"} /\ sig \in {Aucun, "effacee"}
  OBVIOUS
<1> HIDE DEF prop, sig
<1>3. /\ base' \in Base /\ base'.etat = "amorcee"
      /\ base'.relecteurs = {} /\ base'.relecture_n = 0
  <2>1. base' = [existe |-> FALSE, cree_par |-> Aucun, etat |-> "amorcee",
                 garant |-> Aucun, grille |-> FALSE, champs |-> FALSE,
                 relecteurs |-> {}, relecture_n |-> 0,
                 proposition |-> prop, motif |-> FALSE, signalement |-> sig]
    BY <1>1 DEF Vide
  <2>2. /\ prop \in ETATS_PROPOSITION \cup {Aucun, "effacee"}
        /\ sig \in ETATS_SIGNALEMENT \cup {Aucun, "effacee"}
        /\ "amorcee" \in Etats
    BY <1>2 DEF Etats, ETATS_COLLECTION
  <2> QED
    BY <2>1, <2>2 DEF Base
<1>4. Comptes(base')
  BY <1>3, FS_EmptySet DEF Comptes
<1>5. fil' \in Fil /\ fil'.vers = "amorcee"
  BY <1>1 DEF Fil, FilVide, Etats, ETATS_COLLECTION
<1> QED
  BY <1>1, <1>3, <1>4, <1>5, SansSessionGarde

\* The commit: what was chosen when the session read agrees with itself,
\* whatever the row has become since.
LEMMA ValiderGarde ==
    ASSUME Inv, NEW p \in Requetes, Valider(p)
    PROVE  Inv'
<1> DEFINE r == requete[p]
<1>1. /\ r.etape = "valider"
      /\ base' = [k \in DOMAIN base |->
                    IF k \in DOMAIN r.ecrit THEN r.ecrit[k] ELSE base[k]]
      /\ fil' = IF r.evt = SansEvenement THEN fil
                ELSE [vers |-> r.evt.vers, force |-> r.evt.force]
      /\ requete' = [requete EXCEPT ![p] = r.suite]
  BY DEF Valider
<1>2. base \in Base /\ DOMAIN base = Colonnes /\ DOMAIN requete = Requetes
  BY BaseColonnes DEF Inv, TypeInv, TypeOK
<1>3. Fidele(r)
  BY <1>1 DEF Inv, Fideles
<1>4. Pose(Vide, r.ecrit) \in Base /\ r.evt \in Evenement
  <2>1. EnVol(r) /\ r.etape = "valider"
    BY <1>1, EnVolCas DEF Inv
  <2> QED
    BY <2>1, BaseColonnes DEF EnVol, Repos, Pose
<1>5. base' = Pose(base, r.ecrit)
  BY <1>1, <1>2 DEF Pose
<1>6. base' \in Base
  BY <1>2, <1>4, <1>5, PoseType
<1> HIDE DEF r
<1>7. /\ base'.etat = IF "etat" \in DOMAIN r.ecrit THEN r.ecrit.etat ELSE base.etat
      /\ base'.relecteurs = IF "relecteurs" \in DOMAIN r.ecrit
                            THEN r.ecrit.relecteurs ELSE base.relecteurs
      /\ base'.relecture_n = IF "relecture_n" \in DOMAIN r.ecrit
                             THEN r.ecrit.relecture_n ELSE base.relecture_n
  BY <1>5 DEF Pose, Colonnes
<1>8. Comptes(base')
  BY <1>3, <1>7 DEF Fidele, Comptes, Inv
<1>9. fil' \in Fil /\ fil'.vers = base'.etat
  <2>1. CASE r.evt = SansEvenement
    BY <1>1, <1>3, <1>7, <2>1 DEF Fidele, Inv, TypeInv, TypeOK
  <2>2. CASE r.evt # SansEvenement
    <3>1. fil' = [vers |-> r.evt.vers, force |-> r.evt.force]
      BY <1>1, <2>2
    <3>2. r.evt.vers \in Etats /\ r.evt.force \in BOOLEAN
      BY <1>4 DEF Evenement
    <3> QED
      BY <1>3, <1>7, <2>2, <3>1, <3>2 DEF Fidele, Fil
  <2> QED
    BY <2>1, <2>2
<1>10. Suite(r.suite) /\ r.suite.etape # "valider"
  BY <1>3 DEF Fidele, Suite, Repos
<1>11. /\ DOMAIN requete' = Requetes
       /\ requete'[p] = r.suite
       /\ \A q \in Requetes \ {p} : requete'[q] = requete[q]
  BY <1>1, <1>2
<1>12. TypeInv'
  <2>1. ASSUME NEW q \in Requetes PROVE EnVol(requete'[q])
    BY <1>10, <1>11, EnVolCas DEF Inv, Suite, EnVol
  <2> QED
    BY <1>6, <1>9, <1>11, <2>1 DEF TypeInv, TypeOK, EnVol
<1>13. Fideles'
  BY <1>10, <1>11 DEF Inv, Fideles
<1> QED
  BY <1>8, <1>9, <1>12, <1>13 DEF Inv

LEMMA EtapeGarde ==
    ASSUME Inv, Next
    PROVE  Inv'
<1>1. ASSUME NEW p \in Requetes, Abandonner(p)
      PROVE  Inv'
  BY <1>1, FinGarde DEF Abandonner
<1> QED
  BY <1>1, CreationGarde, PurgerGarde, CircuitGarde, ImportGarde,
     ContributionGarde, ValiderGarde DEF Next, Marche

LEMMA BegaiementGarde ==
    ASSUME Inv, UNCHANGED vars
    PROVE  Inv'
<1>1. TypeInv'
  BY DEF vars, Inv, TypeInv, TypeOK, EnVol
<1> QED
  BY <1>1 DEF vars, Inv, Fideles, Comptes

-----------------------------------------------------------------------------
\* The rows, the journal and the sessions in flight keep their shapes, for any
\* people, any number of sessions and any failures (collectif_store.py).
THEOREM TypesGardes == Spec => []TypeOK
<1>1. Inv => TypeOK
  BY DEF Inv, TypeInv
<1> QED
  BY <1>1, InitInv, EtapeGarde, BegaiementGarde, PTL DEF Spec

\* However many sessions overlap and fail, the last "collection.etat" of the
\* journal says the state the collection is in (collectif_store.changer_etat).
THEOREM JournalAJour == Spec => []FilAJour
<1>1. Inv => FilAJour
  BY DEF Inv, FilAJour
<1> QED
  BY <1>1, InitInv, EtapeGarde, BegaiementGarde, PTL DEF Spec

\* However many sessions overlap and fail, the number of reviews is that of
\* the reviewers kept (collectif_store.relire).
THEOREM RelecturesComptees == Spec => []CompteRelectures
<1>1. Inv => CompteRelectures
  BY DEF Inv, Comptes, CompteRelectures
<1> QED
  BY <1>1, InitInv, EtapeGarde, BegaiementGarde, PTL DEF Spec

-----------------------------------------------------------------------------
(* Sessions that follow one another, none of which fails.                  *)

\* At most one session is in flight.
Seule == \A p, q \in Requetes : requete[p] # Repos /\ requete[q] # Repos => p = q

\* A collection with its creation over: the creator is its guarantor.
Entiere(b) == b.existe /\ b.cree_par # Aucun => b.garant = b.cree_par /\ b.grille

\* A collection created, which initialisation s will give a guarantor.
Entamee(b, s) == b.existe /\ b.garant = Aucun /\ b.cree_par = s.garant

\* A session about to commit has read the row as it is: its event leaves the
\* state the collection is in, and it completes a creation, or begins one.
Relue(r) ==
    LET n == Pose(base, r.ecrit)
    IN  /\ n.existe
        /\ r.evt # SansEvenement => r.evt.de = base.etat
        /\ IF r.suite = Repos THEN Entiere(n) ELSE Entamee(n, r.suite)

\* The name is free: nothing is left of the collection that had it.
Neuve == ~base.existe => base.garant = Aucun /\ base.cree_par = Aucun

Suivi == /\ Seule /\ Neuve
         /\ AuRepos => Entiere(base)
         /\ \A p \in Requetes :
               /\ requete[p].etape = "valider" => Relue(requete[p])
               /\ requete[p].etape = "initialiser" => Entamee(base, requete[p])

InvSuivi == Inv /\ (serie => Suivi)

MCvars == <<vars, serie>>

\* MCSpec without its bound: with a proposition and a report in one behaviour.
PasSuivi == \/ Marche /\ serie' = (serie /\ Suivie)
            \/ \E p \in Requetes : Abandonner(p) /\ serie' = FALSE

SpecSuivie == MCInit /\ [][PasSuivi]_MCvars

LEMMA SansBorne == MCSpec => SpecSuivie
<1>1. [MCNext]_MCvars => [PasSuivi]_MCvars
  BY DEF MCNext, PasSuivi
<1> QED
  BY <1>1, PTL DEF MCSpec, SpecSuivie, MCvars

LEMMA SuivieSeule == ASSUME Suivie PROVE Seule'
<1> DEFINE S == {p \in Requetes : requete'[p] # Repos}
<1> SUFFICES ASSUME NEW p \in S, NEW q \in S, p # q PROVE FALSE
  BY DEF Seule
<1>1. Cardinality(S) <= 1 /\ IsFiniteSet(S)
  BY FinisCircuitAssumption, FS_Subset DEF Suivie
<1> HIDE DEF S
<1>2. IsFiniteSet({p}) /\ Cardinality({p}) = 1 /\ q \notin {p}
  BY FS_Singleton
<1>3. Cardinality({p} \cup {q}) = 2
  BY <1>2, FS_AddElement
<1>4. Cardinality({p} \cup {q}) <= Cardinality(S)
  BY <1>1, FS_Subset
<1>5. Cardinality(S) \in Nat
  BY <1>1, FS_CardinalityType
<1> QED
  BY <1>1, <1>3, <1>4, <1>5

\* A session that begins, or goes on, with row `voulu` in view.
LEMMA SessionSuivie ==
    ASSUME Inv, Neuve, Seule', NEW p \in Requetes, NEW voulu \in Base, NEW evt, NEW suite,
           Session(p, voulu, evt, suite), UNCHANGED base,
           voulu.existe, evt # SansEvenement => evt.de = base.etat,
           IF suite = Repos THEN Entiere(voulu) ELSE Entamee(voulu, suite)
    PROVE  Suivi'
<1> DEFINE change == {k \in DOMAIN base : voulu[k] # base[k]}
           r == requete'[p]
           n == Pose(base, r.ecrit)
<1>1. base \in Base /\ DOMAIN base = Colonnes
  BY BaseColonnes DEF Inv, TypeInv, TypeOK
<1>2. /\ r.etape = "valider" /\ r.ecrit = [k \in change |-> voulu[k]]
      /\ r.evt = evt /\ r.suite = suite
  BY DEF Session, Inv, TypeInv
<1>3. \A k \in Colonnes : n[k] = voulu[k]
  BY <1>1, <1>2 DEF Pose
<1>4. /\ n.existe = voulu.existe /\ n.cree_par = voulu.cree_par
      /\ n.garant = voulu.garant /\ n.grille = voulu.grille
  BY <1>3 DEF Colonnes
<1> HIDE DEF r, n, change
<1>5. Relue(requete[p])'
  <2>1. /\ Pose(base', requete'[p].ecrit) = n /\ base' = base
        /\ requete'[p].evt = evt /\ requete'[p].suite = suite
    BY <1>2 DEF n, r
  <2>2. n.existe /\ IF suite = Repos THEN Entiere(n) ELSE Entamee(n, suite)
    BY <1>4 DEF Entiere, Entamee
  <2> QED
    BY <2>1, <2>2 DEF Relue
<1>6. r # Repos
  BY <1>2 DEF Repos
<1>7. \A q \in Requetes \ {p} : requete'[q] = Repos
  BY <1>6 DEF Seule, r
<1> QED
  <2>1. ~AuRepos' /\ Neuve'
    BY <1>6 DEF AuRepos, Neuve, r
  <2>2. \A q \in Requetes : /\ requete'[q].etape = "valider" => q = p
                            /\ requete'[q].etape # "initialiser"
    BY <1>2, <1>7 DEF Repos, r
  <2> QED
    BY <1>5, <2>1, <2>2 DEF Suivi

\* A session on a collection that is there, of a request that begins.
LEMMA GesteSuivi ==
    ASSUME Inv, Suivi, Seule', NEW p \in Requetes, requete[p] = Repos,
           NEW voulu \in Base, NEW evt, Session(p, voulu, evt, Repos), UNCHANGED base,
           evt # SansEvenement => evt.de = base.etat,
           base.existe, voulu.existe = base.existe, voulu.cree_par = base.cree_par,
           voulu.garant = base.garant, base.grille => voulu.grille
    PROVE  Suivi'
<1>1. requete'[p] # Repos /\ \A q \in Requetes \ {p} : requete'[q] = requete[q]
  BY DEF Session, Inv, TypeInv, Repos
<1>2. AuRepos
  BY <1>1 DEF Seule, AuRepos
<1>3. Entiere(voulu)
  BY <1>2 DEF Suivi, Entiere
<1> QED
  BY <1>3, SessionSuivie DEF Suivi

LEMMA CreationSuivie ==
    ASSUME Inv, Suivi, Seule', Creation
    PROVE  Suivi'
<1>1. base \in Base /\ Neuve
  BY DEF Inv, TypeInv, TypeOK, Suivi
<1>2. ASSUME NEW p \in Requetes, NEW x \in Personnes, CreerCollection(p, x)
      PROVE  Suivi'
  <2> DEFINE voulu == [base EXCEPT !.existe = TRUE, !.cree_par = x]
             suite == [etape |-> "initialiser", garant |-> x, champs |-> FALSE]
  <2>1. Session(p, voulu, SansEvenement, suite) /\ UNCHANGED base
    BY <1>2 DEF CreerCollection
  <2>2. base.garant = Aucun
    BY <1>1, <1>2 DEF Neuve, CreerCollection
  <2>3. /\ voulu \in Base /\ voulu.existe
        /\ suite # Repos /\ Entamee(voulu, suite)
    BY <1>1, <2>2 DEF Base, Repos, Entamee
  <2> HIDE DEF voulu, suite
  <2> QED
    BY <1>1, <2>1, <2>3, SessionSuivie
<1>3. ASSUME NEW p \in Requetes, CreerAmorce(p)
      PROVE  Suivi'
  <2> DEFINE voulu == [base EXCEPT !.existe = TRUE]
             suite(b) == [etape |-> "initialiser", garant |-> Aucun, champs |-> b]
  <2>1. PICK b \in BOOLEAN : Session(p, voulu, SansEvenement, suite(b))
    BY <1>3 DEF CreerAmorce
  <2>2. base.garant = Aucun /\ base.cree_par = Aucun /\ UNCHANGED base
    BY <1>1, <1>3 DEF Neuve, CreerAmorce
  <2>3. /\ voulu \in Base /\ voulu.existe
        /\ suite(b) # Repos /\ Entamee(voulu, suite(b))
    BY <1>1, <2>2 DEF Base, Repos, Entamee
  <2> HIDE DEF voulu, suite
  <2> QED
    BY <1>1, <2>1, <2>2, <2>3, SessionSuivie
<1>4. ASSUME NEW p \in Requetes, CreerMinimale(p)
      PROVE  Suivi'
  <2> DEFINE voulu == [base EXCEPT !.existe = TRUE]
  <2>1. Session(p, voulu, SansEvenement, Repos)
    BY <1>4 DEF CreerMinimale
  <2>2. base.cree_par = Aucun /\ UNCHANGED base
    BY <1>1, <1>4 DEF Neuve, CreerMinimale
  <2>3. voulu \in Base /\ voulu.existe /\ Entiere(voulu)
    BY <1>1, <2>2 DEF Base, Entiere
  <2> HIDE DEF voulu
  <2> QED
    BY <1>1, <2>1, <2>2, <2>3, SessionSuivie
<1>5. ASSUME NEW p \in Requetes, Initialiser(p)
      PROVE  Suivi'
  <2> DEFINE r == requete[p]
             voulu == [base EXCEPT !.garant = IF @ = Aucun THEN r.garant ELSE @,
                                   !.grille = TRUE, !.champs = @ \/ r.champs]
  <2>1. Entamee(base, r)
    BY <1>5 DEF Suivi, Initialiser
  <2>2. Session(p, voulu, SansEvenement, Repos) /\ UNCHANGED base
    BY <1>5, <2>1 DEF Initialiser, Entamee
  <2>3. r.garant \in Personnes \cup {Aucun} /\ r.champs \in BOOLEAN
    <3>1. r.etape = "initialiser" /\ EnVol(r)
      BY <1>5, EnVolCas DEF Inv, Initialiser
    <3>2. r \in [etape : {"initialiser"}, garant : Personnes \cup {Aucun}, champs : BOOLEAN]
      BY <3>1 DEF EnVol, Repos
    <3> QED
      BY <3>2
  <2> DEFINE garant == IF base.garant = Aucun THEN r.garant ELSE base.garant
             champs == base.champs \/ r.champs
  <2>4. voulu \in Base /\ voulu.existe /\ Entiere(voulu)
    <3>1. base \in Base /\ base.existe /\ base.garant = Aucun /\ base.cree_par = r.garant
      BY <1>1, <2>1 DEF Entamee
    <3>2. garant = r.garant /\ garant \in Personnes \cup {Aucun} /\ champs \in BOOLEAN
      BY <2>3, <3>1 DEF Base
    <3>3. voulu = [base EXCEPT !.garant = garant, !.grille = TRUE, !.champs = champs]
      BY <3>1 DEF Base
    <3> HIDE DEF voulu, r, garant, champs
    <3>4. voulu \in Base /\ voulu.existe
      BY <3>1, <3>2, <3>3 DEF Base
    <3>5. voulu.cree_par = base.cree_par /\ voulu.garant = garant /\ voulu.grille
      BY <3>1, <3>3 DEF Base
    <3> QED
      BY <3>1, <3>2, <3>4, <3>5 DEF Entiere
  <2> HIDE DEF voulu, r
  <2> QED
    BY <1>1, <2>2, <2>4, SessionSuivie
<1> QED
  BY <1>2, <1>3, <1>4, <1>5 DEF Creation

LEMMA CircuitSuivi ==
    ASSUME Inv, Suivi, Seule', Circuit
    PROVE  Suivi'
<1>1. base \in Base
  BY DEF Inv, TypeInv, TypeOK
<1>2. ASSUME NEW p \in Requetes, NEW x \in Personnes, NEW cible \in Etats,
             NEW forcer \in BOOLEAN, ChangerEtat(p, x, cible, forcer)
      PROVE  Suivi'
  <2> DEFINE voulu == [base EXCEPT !.etat = cible]
             evt == [de |-> base.etat, vers |-> cible, force |-> forcer]
  <2>1. /\ Session(p, voulu, evt, Repos) /\ UNCHANGED base
        /\ requete[p] = Repos /\ base.existe
    BY <1>2 DEF ChangerEtat
  <2>2. /\ voulu \in Base /\ evt.de = base.etat
        /\ voulu.existe = base.existe /\ voulu.cree_par = base.cree_par
        /\ voulu.garant = base.garant /\ voulu.grille = base.grille
    BY <1>1 DEF Base
  <2> HIDE DEF voulu, evt
  <2> QED
    BY <2>1, <2>2, GesteSuivi
<1>3. ASSUME NEW p \in Requetes, NEW x \in Personnes, MajGrille(p, x)
      PROVE  Suivi'
  <2> DEFINE voulu(b) == [base EXCEPT !.grille = TRUE, !.champs = b]
  <2>1. PICK b \in BOOLEAN : Session(p, voulu(b), SansEvenement, Repos)
    BY <1>3 DEF MajGrille, Ecrit
  <2>2. UNCHANGED base /\ requete[p] = Repos /\ base.existe
    BY <1>3 DEF MajGrille, Ecrit
  <2>3. /\ voulu(b) \in Base /\ voulu(b).grille
        /\ voulu(b).existe = base.existe /\ voulu(b).cree_par = base.cree_par
        /\ voulu(b).garant = base.garant
    BY <1>1 DEF Base
  <2> HIDE DEF voulu
  <2> QED
    BY <2>1, <2>2, <2>3, GesteSuivi
<1>4. ASSUME NEW p \in Requetes, NEW x \in Personnes, Relire(p, x)
      PROVE  Suivi'
  <2> DEFINE qui == base.relecteurs \cup {x}
             n == IF x \in base.relecteurs THEN base.relecture_n
                  ELSE Cardinality(base.relecteurs) + 1
             voulu == [base EXCEPT !.grille = TRUE, !.relecteurs = qui, !.relecture_n = n]
  <2>1. /\ Session(p, voulu, SansEvenement, Repos) /\ UNCHANGED base
        /\ requete[p] = Repos /\ base.existe
    BY <1>4 DEF Relire, Ecrit
  <2>2. qui \in SUBSET Personnes /\ n \in Nat
    BY <1>1, FS_CardinalityType DEF Base, Inv, Comptes
  <2> HIDE DEF qui, n
  <2>3. /\ voulu \in Base /\ voulu.grille
        /\ voulu.existe = base.existe /\ voulu.cree_par = base.cree_par
        /\ voulu.garant = base.garant
    BY <1>1, <2>2 DEF Base
  <2> HIDE DEF voulu
  <2> QED
    BY <2>1, <2>3, GesteSuivi
<1> QED
  BY <1>2, <1>3, <1>4 DEF Circuit

LEMMA ImportSuivi ==
    ASSUME Inv, Suivi, Seule', Import
    PROVE  Suivi'
<1> DEFINE voulu == [base EXCEPT !.grille = TRUE]
<1>1. base \in Base
  BY DEF Inv, TypeInv, TypeOK
<1>2. PICK p \in Requetes : /\ Session(p, voulu, SansEvenement, Repos) /\ UNCHANGED base
                            /\ requete[p] = Repos /\ base.existe
  BY DEF Import, PoserCouverture, Ecrit
<1>3. /\ voulu \in Base /\ voulu.grille
      /\ voulu.existe = base.existe /\ voulu.cree_par = base.cree_par
      /\ voulu.garant = base.garant
  BY <1>1 DEF Base
<1> HIDE DEF voulu
<1> QED
  BY <1>2, <1>3, GesteSuivi

\* A commit of its own finds nothing in flight, and leaves nothing.
LEMMA SeuleSuivie ==
    ASSUME Suivi, AuRepos, requete' = requete, Neuve', Entiere(base)'
    PROVE  Suivi'
BY DEF Suivi, Seule, AuRepos, Repos

LEMMA ContributionSuivie ==
    ASSUME Inv, Suivi, Suivie, Contribution
    PROVE  Suivi'
<1>1. base \in Base /\ Seule'
  BY SuivieSeule DEF Inv, TypeInv, TypeOK
<1>2. CASE CreerProposition \/ CreerSignalement
  <2>1. UNCHANGED requete /\ AuRepos
    BY <1>2 DEF CreerProposition, CreerSignalement, Suivie
  <2>2. /\ base'.existe = base.existe /\ base'.cree_par = base.cree_par
        /\ base'.garant = base.garant /\ base'.grille = base.grille
    BY <1>1, <1>2 DEF CreerProposition, CreerSignalement, Base
  <2> QED
    BY <2>1, <2>2, SeuleSuivie DEF Suivi, Neuve, Entiere
<1>3. ASSUME NEW p \in Requetes, NEW x \in Personnes,
             NEW decision \in {"publiee", "refusee"}, DeciderProposition(p, x, decision)
      PROVE  Suivi'
  <2> DEFINE motive == (decision = "refusee")
             voulu == [base EXCEPT !.proposition = decision, !.motif = motive]
  <2>1. /\ Session(p, voulu, SansEvenement, Repos) /\ UNCHANGED base
        /\ requete[p] = Repos /\ base.existe
    BY <1>3 DEF DeciderProposition, Ecrit
  <2>2. motive \in BOOLEAN /\ decision \in ETATS_PROPOSITION
    BY DEF ETATS_PROPOSITION
  <2> HIDE DEF motive
  <2>3. /\ voulu \in Base
        /\ voulu.existe = base.existe /\ voulu.cree_par = base.cree_par
        /\ voulu.garant = base.garant /\ voulu.grille = base.grille
    BY <1>1, <2>2 DEF Base
  <2> HIDE DEF voulu
  <2> QED
    BY <1>1, <2>1, <2>3, GesteSuivi
<1>4. ASSUME NEW p \in Requetes, NEW x \in Personnes,
             NEW etat \in {"pris_en_compte", "clos"}, TraiterSignalement(p, x, etat)
      PROVE  Suivi'
  <2> DEFINE voulu == [base EXCEPT !.signalement = etat]
  <2>1. /\ Session(p, voulu, SansEvenement, Repos) /\ UNCHANGED base
        /\ requete[p] = Repos /\ base.existe
    BY <1>4 DEF TraiterSignalement, Ecrit
  <2>2. /\ voulu \in Base
        /\ voulu.existe = base.existe /\ voulu.cree_par = base.cree_par
        /\ voulu.garant = base.garant /\ voulu.grille = base.grille
    BY <1>1 DEF Base, ETATS_SIGNALEMENT
  <2> HIDE DEF voulu
  <2> QED
    BY <1>1, <2>1, <2>2, GesteSuivi
<1> QED
  BY <1>2, <1>3, <1>4 DEF Contribution

LEMMA PurgerSuivi ==
    ASSUME Suivi, Suivie, Purger
    PROVE  Suivi'
<1>1. UNCHANGED requete /\ AuRepos
  BY DEF Purger, Suivie
<1> DEFINE prop == IF base.proposition = Aucun THEN Aucun ELSE "effacee"
           sig == IF base.signalement = Aucun THEN Aucun ELSE "effacee"
<1>2. base' = [Vide EXCEPT !.proposition = prop, !.signalement = sig]
  BY DEF Purger
<1> HIDE DEF prop, sig
<1>3. ~base'.existe /\ base'.garant = Aucun /\ base'.cree_par = Aucun
  BY <1>2 DEF Vide
<1> QED
  BY <1>1, <1>3, SeuleSuivie DEF Neuve, Entiere

LEMMA ValiderSuivi ==
    ASSUME Inv, Suivi, NEW p \in Requetes, Valider(p)
    PROVE  Suivi'
<1> DEFINE r == requete[p]
<1>1. /\ base' = Pose(base, r.ecrit) /\ r.etape = "valider"
      /\ requete' = [requete EXCEPT ![p] = r.suite]
  BY BaseColonnes DEF Valider, Pose, Inv, TypeInv, TypeOK
<1>2. Relue(r) /\ Suite(r.suite)
  BY <1>1 DEF Suivi, Inv, Fideles, Fidele
<1> HIDE DEF r
<1>3. \A q \in Requetes : requete'[q] = IF q = p THEN r.suite ELSE Repos
  <2>1. r # Repos
    BY <1>1 DEF Repos
  <2> QED
    BY <1>1, <2>1 DEF Suivi, Seule, Inv, TypeInv, r
<1>4. base'.existe
  BY <1>1, <1>2 DEF Relue
<1>5. CASE r.suite = Repos
  <2>1. Entiere(base')
    BY <1>1, <1>2, <1>5 DEF Relue
  <2> QED
    BY <1>3, <1>4, <1>5, <2>1 DEF Suivi, Seule, Neuve, AuRepos, Repos, Entiere
<1>6. CASE r.suite # Repos
  <2>1. r.suite.etape = "initialiser" /\ Entamee(base', r.suite)
    BY <1>1, <1>2, <1>6 DEF Relue, Suite
  <2>2. ~AuRepos'
    BY <1>3, <1>6 DEF AuRepos
  <2>3. Seule' /\ Neuve'
    BY <1>3, <1>4 DEF Seule, Neuve
  <2>4. \A q \in Requetes :
          /\ requete'[q].etape # "valider"
          /\ requete'[q].etape = "initialiser" => Entamee(base', requete'[q])
    BY <1>3, <2>1 DEF Repos
  <2> QED
    BY <2>2, <2>3, <2>4 DEF Suivi, Entamee
<1> QED
  BY <1>5, <1>6

LEMMA InvarianceSuivie == SpecSuivie => []InvSuivi
<1>1. MCInit => InvSuivi
  <2> SUFFICES ASSUME MCInit PROVE InvSuivi
    OBVIOUS
  <2>1. Inv
    BY InitInv DEF MCInit
  <2>2. Suivi
    BY DEF MCInit, Init, Vide, Repos, Suivi, Seule, Neuve, Entiere
  <2> QED
    BY <2>1, <2>2 DEF InvSuivi
<1>2. InvSuivi /\ [PasSuivi]_MCvars => InvSuivi'
  <2> SUFFICES ASSUME InvSuivi, [PasSuivi]_MCvars PROVE InvSuivi'
    OBVIOUS
  <2>1. Inv'
    BY EtapeGarde, BegaiementGarde DEF InvSuivi, PasSuivi, MCvars, Next
  <2>2. CASE UNCHANGED MCvars
    BY <2>1, <2>2 DEF MCvars, vars, InvSuivi, Suivi, Seule, Neuve, AuRepos, Entiere, Entamee,
       Relue
  <2>3. CASE PasSuivi /\ serie'
    <3>1. Inv /\ Suivi /\ Marche /\ Suivie
      BY <2>3 DEF PasSuivi, InvSuivi
    <3>2. Seule'
      BY <3>1, SuivieSeule
    <3>3. Suivi'
      BY <3>1, <3>2, CreationSuivie, CircuitSuivi, ImportSuivi, ContributionSuivie, PurgerSuivi,
         ValiderSuivi DEF Marche
    <3> QED
      BY <2>1, <3>3 DEF InvSuivi
  <2>4. CASE ~serie'
    BY <2>1, <2>4 DEF InvSuivi
  <2> QED
    BY <2>2, <2>3, <2>4
<1> QED
  BY <1>1, <1>2, PTL DEF SpecSuivie

\* routers/collections.py:365, "la collection nait amorcee, son createur en est
\* le garant": whoever creates a collection guarantees it once its two sessions
\* are over, also when the name has been used before.
THEOREM NeeAvecGarant == SpecSuivie => []NaitAvecGarant
<1>1. InvSuivi => NaitAvecGarant
  BY DEF InvSuivi, Suivi, Entiere, NaitAvecGarant, CreationEntiere
<1> QED
  BY <1>1, InvarianceSuivie, PTL

\* collectif_store.changer_etat: when sessions follow one another, each event
\* leaves the state the one before arrived at.
THEOREM FilToujoursContinu == SpecSuivie => FilContinu
<1> DEFINE Pas == serie' => FilRepris
<1>1. InvSuivi /\ [PasSuivi]_MCvars => [Pas]_MCvars
  <2> SUFFICES ASSUME InvSuivi, PasSuivi, serie' PROVE FilRepris
    OBVIOUS
  <2>1. Inv /\ Suivi
    BY DEF PasSuivi, InvSuivi
  <2> QED
    BY <2>1 DEF FilRepris, Inv, Suivi, Relue, Valider
<1>2. SpecSuivie => [][Pas]_MCvars
  BY <1>1, InvarianceSuivie, PTL DEF SpecSuivie
<1> QED
  BY <1>2 DEF FilContinu, MCvars

=============================================================================
