--------------------------- MODULE Demandes_proofs ---------------------------
(***************************************************************************)
(* Safety of the demandes however many requests overlap: for any sets of   *)
(* demandes, people, collections and requests, Demandes keeps its types,   *)
(* erases the e-mails of finished demandes, dates every demande that waits *)
(* for its author and announces every change of state.                     *)
(*                                                                         *)
(* None of these is inductive: what a commit does depends on rows that its *)
(* request read earlier.  Formes and Prudence say what is known of them    *)
(* when the commit comes.                                                  *)
(*                                                                         *)
(* Then what holds of the requests that follow one another, the scenario   *)
(* "serie" of MCDemandes: one guarantor, a journal without a gap, and the  *)
(* life cycle of CycleDemande, implemented step by step.  There, Suite     *)
(* says that the only request in flight still has the rows it read, and    *)
(* what it makes of them.                                                  *)
(***************************************************************************)
EXTENDS MCDemandes, FiniteSetTheorems, TLAPS

\* The shape of a request in flight: it wants the rows it read, announces
\* only those, and one that is about to write a supporter changes nothing yet.
Forme(r) ==
    /\ DOMAIN r.voulu = DOMAIN r.lu
    /\ r.evts \subseteq DOMAIN r.lu
    /\ r.etape = "poser" => /\ r.pose \in Pose
                            /\ r.pose.dem \in DOMAIN r.lu
                            /\ r.voulu = r.lu

Formes == \A p \in Requetes : requete[p] # Repos => Forme(requete[p])

\* What a request that read `lu` and wants `voulu` may rely on, and be relied
\* on for, whatever the row has become meanwhile (`actuel`).
RangPrudent(actuel, lu, voulu) ==
    /\ actuel.etat # "absente" /\ lu.etat # "absente" /\ voulu.etat # "absente"
    /\ actuel.contact => lu.contact
    /\ voulu.contact => lu.contact
    /\ voulu.etat \in Finies => ~voulu.contact
    /\ voulu.etat = "a_confirmer" /\ lu.etat # "a_confirmer"
         => voulu.sollicitee = "recente" /\ lu.sollicitee # "recente"
    /\ voulu.sollicitee = "jamais" /\ lu.sollicitee # "jamais"
         => voulu.etat # lu.etat /\ voulu.etat # "a_confirmer"

Prudente(table, r) ==
    \A d \in DOMAIN r.lu : /\ RangPrudent(table[d], r.lu[d], r.voulu[d])
                           /\ r.voulu[d].etat # r.lu[d].etat => d \in r.evts

Prudence == \A p \in Requetes : requete[p] # Repos => Prudente(demande, requete[p])

\* A row that was never inserted answers to no collection.
AbsenteVide ==
    \A d \in Dem : demande[d].etat = "absente" => demande[d].collection = Aucun

TypeInv == TypeOK /\ Formes

Surete == Prudence /\ AbsenteVide /\ ContactEfface /\ AConfirmerDatee

-----------------------------------------------------------------------------
(* Types.                                                                  *)

\* Rows held by a request are a function from some demandes to rows.
LEMMA LignesIntro ==
    ASSUME NEW S \in SUBSET Dem, NEW f \in [S -> Fiche]
    PROVE  f \in Lignes
BY DEF Lignes

LEMMA LignesElim ==
    ASSUME NEW f \in Lignes
    PROVE  /\ DOMAIN f \in SUBSET Dem
           /\ f \in [DOMAIN f -> Fiche]
<1>1. PICK S \in SUBSET Dem : f \in [S -> Fiche]
  BY DEF Lignes
<1> QED
  BY <1>1

\* An UPDATE of the columns that differ makes a row of three rows.
LEMMA ColonnesType ==
    ASSUME NEW a \in Fiche, NEW l \in Fiche, NEW v \in Fiche
    PROVE  Colonnes(a, l, v) \in Fiche
BY DEF Colonnes, Fiche

\* A request is idle, or one in flight whose fields have their types.
LEMMA EnVolType ==
    ASSUME TypeOK, NEW p \in Requetes, requete[p] # Repos
    PROVE  /\ requete[p] \in EnVol
           /\ requete[p].lu \in Lignes
           /\ requete[p].voulu \in Lignes
           /\ requete[p].evts \in SUBSET Dem
           /\ requete[p].pose \in Pose \cup {Aucun}
           /\ requete[p].etape \in {"poser", "valider"}
BY DEF TypeOK, EnVol

\* Lit puts well-formed rows in the hands of its request.
LEMMA LitType ==
    ASSUME TypeInv, NEW p \in Requetes, NEW S \in SUBSET Dem,
           NEW voulu \in [S -> Fiche], NEW evts \in SUBSET S,
           Lit(p, S, voulu, evts)
    PROVE  TypeInv'
<1> DEFINE r == [etape |-> "valider", lu |-> [d \in S |-> demande[d]],
                 voulu |-> voulu, evts |-> evts, pose |-> Aucun]
<1>1. requete' = [requete EXCEPT ![p] = r] /\ UNCHANGED <<demande, soutien, journal>>
  BY DEF Lit
<1>2. [d \in S |-> demande[d]] \in [S -> Fiche]
  BY DEF TypeInv, TypeOK
<1>3. r \in EnVol
  <2>1. /\ [d \in S |-> demande[d]] \in Lignes
        /\ voulu \in Lignes
    BY <1>2, LignesIntro
  <2> QED
    BY <2>1 DEF EnVol
<1>4. TypeOK'
  BY <1>1, <1>3 DEF TypeInv, TypeOK
<1>5. Forme(r)
  BY DEF Forme
<1>6. Formes'
  BY <1>1, <1>5 DEF TypeInv, TypeOK, Formes
<1> QED
  BY <1>4, <1>6 DEF TypeInv

LEMMA TypeInit == Init => TypeInv
BY DEF Init, TypeInv, TypeOK, Formes, Fiche, Absente, ETATS_DEMANDE, Dates

\* The three steps of soutenir and the commit are the ones that neither Lit
\* nor an update of one column describes.
LEMMA TypeSoutenirLire ==
    ASSUME TypeInv, NEW p \in Requetes, NEW d \in Dem, NEW x \in Personnes,
           NEW role \in Roles, SoutenirLire(p, d, x, role)
    PROVE  TypeInv'
<1> DEFINE r == [etape |-> "poser", lu |-> [e \in {d} |-> demande[e]],
                 voulu |-> [e \in {d} |-> demande[e]], evts |-> {},
                 pose |-> [dem |-> d, qui |-> x, role |-> role,
                           avant |-> soutien[d][x]]]
<1>1. requete' = [requete EXCEPT ![p] = r] /\ UNCHANGED <<demande, soutien, journal>>
  BY DEF SoutenirLire
<1>2. [e \in {d} |-> demande[e]] \in Lignes
  <2>1. [e \in {d} |-> demande[e]] \in [{d} -> Fiche]
    BY DEF TypeInv, TypeOK
  <2> QED
    BY <2>1, LignesIntro
<1>3. r.pose \in Pose
  BY DEF TypeInv, TypeOK, Pose
<1>4. r \in EnVol /\ Forme(r)
  BY <1>2, <1>3 DEF EnVol, Forme
<1> QED
  BY <1>1, <1>4 DEF TypeInv, TypeOK, Formes

\* A request that flushes its supporter, or commits, is in flight.
LEMMA EtapePoser ==
    ASSUME NEW p \in Requetes, SoutenirPoser(p)
    PROVE  requete[p] # Repos /\ requete[p].etape = "poser"
<1>1. requete[p].etape = "poser"
  BY Zenon DEF SoutenirPoser
<1> QED
  BY <1>1 DEF Repos

LEMMA EtapeValider ==
    ASSUME NEW p \in Requetes, Valider(p)
    PROVE  requete[p] # Repos /\ requete[p].etape = "valider"
<1>1. requete[p].etape = "valider"
  BY Zenon DEF Valider
<1> QED
  BY <1>1 DEF Repos

LEMMA TypeSoutenirPoser ==
    ASSUME TypeInv, NEW p \in Requetes, SoutenirPoser(p)
    PROVE  TypeInv'
<1> DEFINE r == requete[p]
           d == r.pose.dem
<1>1. r # Repos /\ r.etape = "poser"
  BY EtapePoser
<1>2. r \in EnVol /\ r.pose \in Pose /\ d \in DOMAIN r.lu /\ DOMAIN r.voulu = DOMAIN r.lu
  BY <1>1, EnVolType DEF TypeInv, Formes, Forme
<1>3. /\ DOMAIN r.voulu \in SUBSET Dem
      /\ r.voulu \in [DOMAIN r.voulu -> Fiche]
  BY <1>1, EnVolType, LignesElim DEF TypeInv
<1>4. PICK chantier \in BOOLEAN :
        requete' = [requete EXCEPT
             ![p].etape = "valider",
             ![p].voulu[d].etat = IF chantier THEN "chantier" ELSE @,
             ![p].evts = IF chantier THEN {d} ELSE {}]
  BY DEF SoutenirPoser
<1>8. UNCHANGED <<demande, soutien, journal>>
  BY DEF SoutenirPoser
<1> DEFINE v == [r.voulu EXCEPT ![d].etat = IF chantier THEN "chantier" ELSE @]
           s == [r EXCEPT !.etape = "valider", !.voulu = v,
                          !.evts = IF chantier THEN {d} ELSE {}]
<1>5. requete' = [requete EXCEPT ![p] = s]
  BY <1>2, <1>4 DEF TypeInv, TypeOK, EnVol
<1>6. v \in Lignes /\ DOMAIN v = DOMAIN r.lu
  <2>1. v \in [DOMAIN r.voulu -> Fiche]
    BY <1>2, <1>3 DEF Fiche, ETATS_DEMANDE
  <2> QED
    BY <1>2, <1>3, <2>1, LignesIntro
<1>7. s \in EnVol /\ Forme(s)
  BY <1>2, <1>3, <1>6 DEF EnVol, Forme
<1> QED
  BY <1>5, <1>7, <1>8 DEF TypeInv, TypeOK, Formes

LEMMA TypeSolliciterAuteur ==
    ASSUME TypeInv, NEW p \in Requetes, NEW d \in Dem, NEW c \in Collections,
           SolliciterAuteur(p, d, c)
    PROVE  TypeInv'
<1> DEFINE l == [e \in {d} |-> [demande[d] EXCEPT !.sollicitee = "echue"]]
           v == [e \in {d} |-> [demande[d] EXCEPT !.etat = "a_confirmer",
                                  !.collection = c, !.sollicitee = "recente"]]
           r == [etape |-> "valider", lu |-> l, voulu |-> v,
                 evts |-> {d}, pose |-> Aucun]
<1>1. requete' = [requete EXCEPT ![p] = r] /\ UNCHANGED <<demande, soutien, journal>>
  BY DEF SolliciterAuteur
<1>2. l \in [{d} -> Fiche] /\ v \in [{d} -> Fiche]
  <2>1. demande[d] \in Fiche
    BY DEF TypeInv, TypeOK
  <2>2. [demande[d] EXCEPT !.sollicitee = "echue"] \in Fiche
    BY <2>1 DEF Fiche, Dates
  <2>3. [demande[d] EXCEPT !.etat = "a_confirmer", !.collection = c,
                           !.sollicitee = "recente"] \in Fiche
    BY <2>1 DEF Fiche, Dates, ETATS_DEMANDE
  <2> QED
    BY <2>2, <2>3
<1>3. l \in Lignes /\ v \in Lignes
  BY <1>2, LignesIntro
<1>4. r \in EnVol /\ Forme(r)
  BY <1>3 DEF EnVol, Forme
<1> QED
  BY <1>1, <1>4 DEF TypeInv, TypeOK, Formes

LEMMA TypeValider ==
    ASSUME TypeInv, NEW p \in Requetes, Valider(p)
    PROVE  TypeInv'
<1> DEFINE r == requete[p]
           s == r.pose
<1>1. r # Repos
  BY EtapeValider
<1>2. r.evts \subseteq DOMAIN r.lu /\ DOMAIN r.voulu = DOMAIN r.lu
  BY <1>1 DEF TypeInv, Formes, Forme
<1>3. \A d \in DOMAIN r.lu : d \in Dem /\ r.lu[d] \in Fiche /\ r.voulu[d] \in Fiche
  BY <1>1, <1>2, EnVolType, LignesElim DEF TypeInv
<1>4. demande' \in [Dem -> Fiche]
  BY <1>3, ColonnesType DEF Valider, TypeInv, TypeOK
<1>5. journal' \in [Dem -> [de   : ETATS_DEMANDE \cup {"absente"},
                            vers : ETATS_DEMANDE \cup {"absente"}]]
  BY <1>2, <1>3 DEF Valider, TypeInv, TypeOK, Fiche
<1>6. soutien' \in [Dem -> [Personnes -> Roles \cup {Aucun}]]
  <2>1. s # Aucun => s \in Pose
    BY <1>1, EnVolType DEF TypeInv
  <2> QED
    BY <2>1 DEF Valider, TypeInv, TypeOK, Pose
<1>7. requete' = [requete EXCEPT ![p] = Repos]
  BY DEF Valider
<1>8. TypeOK'
  BY <1>4, <1>5, <1>6, <1>7 DEF TypeInv, TypeOK
<1>9. Formes'
  BY <1>7 DEF TypeInv, TypeOK, Formes
<1> QED
  BY <1>8, <1>9 DEF TypeInv

LEMMA TypeNext ==
    ASSUME TypeInv, [Next]_vars
    PROVE  TypeInv'
<1> USE DEF TypeInv
<1>1. CASE Creation
  <2>1. ASSUME NEW contact \in BOOLEAN
        PROVE  [Absente EXCEPT !.etat = "ouverte", !.contact = contact] \in Fiche
    BY DEF Fiche, Absente, ETATS_DEMANDE, Dates
  <2>2. PICK d \in Dem, contact \in BOOLEAN : CreerDemande(d, contact)
    BY <1>1 DEF Creation
  <2> DEFINE f == [Absente EXCEPT !.etat = "ouverte", !.contact = contact]
  <2>3. f \in Fiche
    BY <2>1
  <2>4. /\ demande' = [demande EXCEPT ![d] = f]
        /\ journal' = [journal EXCEPT ![d] = [de |-> "absente", vers |-> "ouverte"]]
        /\ UNCHANGED <<soutien, requete>>
    BY <2>2 DEF CreerDemande
  <2> HIDE DEF f
  <2> QED
    BY <2>3, <2>4 DEF TypeOK, Formes, ETATS_DEMANDE
<1>2. CASE Soutien
  BY <1>2, TypeSoutenirLire, TypeSoutenirPoser DEF Soutien
<1>3. CASE Retrait
  BY <1>3 DEF Retrait, RetirerSoutien, RetirerGarant, TypeOK, Formes
<1>4. CASE Fin
  <2>1. ASSUME NEW p \in Requetes, NEW d \in Dem, NEW satisfait \in BOOLEAN,
               ConfirmerSatisfaction(p, d, satisfait)
        PROVE  TypeInv'
    <3> DEFINE v == [e \in {d} |->
                       IF satisfait
                       THEN [demande[d] EXCEPT !.etat = "realisee",
                                !.satisfaction = "oui", !.contact = FALSE]
                       ELSE [demande[d] EXCEPT !.etat = "chantier",
                                !.satisfaction = "non", !.sollicitee = "jamais"]]
    <3> DEFINE f == demande[d]
    <3>3. f \in Fiche
      BY DEF TypeOK
    <3>4. /\ [f EXCEPT !.etat = "realisee", !.satisfaction = "oui",
                      !.contact = FALSE] \in Fiche
          /\ [f EXCEPT !.etat = "chantier", !.satisfaction = "non",
                      !.sollicitee = "jamais"] \in Fiche
      BY <3>3 DEF Fiche, ETATS_DEMANDE, SATISFACTIONS, Dates
    <3>1. v \in [{d} -> Fiche]
      BY <3>4
    <3>2. Lit(p, {d}, v, {d})
      BY <2>1 DEF ConfirmerSatisfaction
    <3> QED
      BY <3>1, <3>2, LitType
  <2>2. ASSUME NEW p \in Requetes, NEW d \in Dem, NEW autre \in Dem \cup {Aucun},
               CloreDemande(p, d, autre)
        PROVE  TypeInv'
    <3> DEFINE v == [e \in {d} |-> [demande[d] EXCEPT !.etat = "close",
                                      !.doublon = autre, !.contact = FALSE]]
    <3>1. v \in [{d} -> Fiche]
      BY DEF TypeOK, Fiche, ETATS_DEMANDE
    <3>2. Lit(p, {d}, v, {d})
      BY <2>2 DEF CloreDemande
    <3> QED
      BY <3>1, <3>2, LitType
  <2>3. ASSUME NEW p \in Requetes, Echeances(p)
        PROVE  TypeInv'
    <3> DEFINE S == {d \in Dem : ConfirmationEchue(demande[d])}
               v == [d \in S |-> [demande[d] EXCEPT !.etat = "realisee",
                        !.satisfaction = "sans_reponse", !.contact = FALSE]]
    <3>1. v \in [S -> Fiche]
      <4>1. ASSUME NEW d \in Dem
            PROVE  [demande[d] EXCEPT !.etat = "realisee",
                      !.satisfaction = "sans_reponse", !.contact = FALSE]
                   \in Fiche
        <5>1. demande[d] \in Fiche
          BY DEF TypeOK
        <5> QED
          BY <5>1 DEF Fiche, ETATS_DEMANDE, SATISFACTIONS
      <4> QED
        BY <4>1
    <3>2. Lit(p, S, v, S)
      BY <2>3 DEF Echeances
    <3> QED
      BY <3>1, <3>2, LitType
  <2> QED
    BY <1>4, <2>1, <2>2, <2>3 DEF Fin
<1>5. CASE Livraison
  <2>1. ASSUME NEW p \in Requetes, NEW c \in Collections, DelierCollection(p, c)
        PROVE  TypeInv'
    <3> DEFINE S == {d \in Dem : demande[d].collection = c}
               v == [d \in S |-> [demande[d] EXCEPT !.collection = Aucun]]
    <3>1. v \in [S -> Fiche]
      BY DEF TypeOK, Fiche
    <3>2. Lit(p, S, v, {})
      BY <2>1 DEF DelierCollection
    <3>3. S \in SUBSET Dem /\ {} \in SUBSET S
      OBVIOUS
    <3> HIDE DEF S, v
    <3> QED
      BY <3>1, <3>2, <3>3, LitType
  <2> QED
    BY <1>5, <2>1, TypeSolliciterAuteur DEF Livraison
<1>6. CASE Issue
  <2>1. ASSUME NEW p \in Requetes, Abandonner(p)
        PROVE  TypeInv'
    BY <2>1 DEF Abandonner, TypeOK, Formes
  <2> QED
    BY <1>6, <2>1, TypeValider DEF Issue
<1>7. CASE \E d \in Dem : DelaiPasse(d)
  <2>1. PICK d \in Dem : DelaiPasse(d)
    BY <1>7
  <2>2. demande[d] \in Fiche
    BY DEF TypeOK
  <2>3. [demande[d] EXCEPT !.sollicitee = "echue"] \in Fiche
    BY <2>2 DEF Fiche, Dates
  <2>4. demande' \in [Dem -> Fiche]
    BY <2>1, <2>3 DEF DelaiPasse, TypeOK
  <2>5. UNCHANGED <<soutien, journal, requete>>
    BY <2>1 DEF DelaiPasse
  <2> QED
    BY <2>4, <2>5 DEF TypeOK, Formes
<1>8. CASE UNCHANGED vars
  BY <1>8 DEF vars, TypeOK, Formes
<1> QED
  BY <1>1, <1>2, <1>3, <1>4, <1>5, <1>6, <1>7, <1>8 DEF Next

\* The tables keep the shape of models/db.py, and requests in flight the
\* shape of what they read, for any number of demandes, people and requests.
THEOREM TypesGardes == Spec => []TypeOK
<1>1. TypeInv /\ [Next]_vars => TypeInv'
  BY TypeNext
<1>2. Spec => []TypeInv
  BY TypeInit, <1>1, PTL DEF Spec
<1> QED
  BY <1>2, PTL DEF TypeInv

-----------------------------------------------------------------------------
(* Prudence.                                                               *)

\* What a commit does to one row: it does not vanish, gets no e-mail, loses
\* it if it is over, and waits for nobody without a date.
LEMMA RangValide ==
    ASSUME NEW a \in Fiche, NEW l \in Fiche, NEW v \in Fiche,
           RangPrudent(a, l, v),
           a.etat \in Finies => ~a.contact,
           a.etat = "a_confirmer" => a.sollicitee # "jamais"
    PROVE  LET n == Colonnes(a, l, v)
           IN  /\ n.etat # "absente"
               /\ n.contact => a.contact
               /\ n.etat \in Finies => ~n.contact
               /\ n.etat = "a_confirmer" => n.sollicitee # "jamais"
               /\ n.etat = IF v.etat = l.etat THEN a.etat ELSE v.etat
<1> DEFINE n == Colonnes(a, l, v)
<1>1. /\ n.etat = IF v.etat = l.etat THEN a.etat ELSE v.etat
      /\ n.contact = IF v.contact = l.contact THEN a.contact ELSE v.contact
      /\ n.sollicitee = IF v.sollicitee = l.sollicitee THEN a.sollicitee
                        ELSE v.sollicitee
  BY DEF Colonnes
<1>2. a.contact \in BOOLEAN /\ l.contact \in BOOLEAN /\ v.contact \in BOOLEAN
  BY DEF Fiche
<1>3. n.etat # "absente"
  BY <1>1 DEF RangPrudent
<1>4. n.contact => a.contact
  BY <1>1, <1>2 DEF RangPrudent
<1>5. n.etat \in Finies => ~n.contact
  BY <1>1, <1>2 DEF RangPrudent
<1>6. n.etat = "a_confirmer" => n.sollicitee # "jamais"
  BY <1>1 DEF RangPrudent
<1> QED
  BY <1>1, <1>3, <1>4, <1>5, <1>6

\* The rows may change under the requests in flight as long as none vanishes
\* and none gets an e-mail it did not have; and one request may go idle, or
\* start from rows of its own.
LEMMA PrudenceGardee ==
    ASSUME TypeInv, Prudence, NEW p \in Requetes,
           \A q \in Requetes \ {p} : requete'[q] = requete[q],
           \A d \in Dem : demande[d].etat # "absente" =>
               /\ demande'[d].etat # "absente"
               /\ demande'[d].contact => demande[d].contact,
           \/ requete'[p] \in {Repos, requete[p]}
           \/ Prudente(demande', requete'[p])
    PROVE  Prudence'
<1> SUFFICES ASSUME NEW q \in Requetes, requete'[q] # Repos
             PROVE  Prudente(demande', requete'[q])
  BY DEF Prudence
<1>1. CASE q = p /\ Prudente(demande', requete'[p])
  BY <1>1
<1>2. CASE requete'[q] = requete[q]
  <2> DEFINE r == requete[q]
  <2>1. r # Repos /\ Prudente(demande, r)
    BY <1>2 DEF Prudence
  <2>2. DOMAIN r.lu \in SUBSET Dem
    BY <2>1, EnVolType, LignesElim DEF TypeInv
  <2>3. \A d \in DOMAIN r.lu : /\ RangPrudent(demande'[d], r.lu[d], r.voulu[d])
                               /\ r.voulu[d].etat # r.lu[d].etat => d \in r.evts
    BY <2>1, <2>2 DEF Prudente, RangPrudent
  <2> QED
    BY <1>2, <2>3 DEF Prudente
<1> QED
  BY <1>1, <1>2

\* A request that reads and wants prudent rows.
LEMMA LitPrudent ==
    ASSUME TypeInv, Surete, NEW p \in Requetes, NEW S \in SUBSET Dem,
           NEW voulu \in [S -> Fiche], NEW evts \in SUBSET S,
           Lit(p, S, voulu, evts),
           \A d \in S : /\ RangPrudent(demande[d], demande[d], voulu[d])
                        /\ voulu[d].etat # demande[d].etat => d \in evts
    PROVE  Surete'
<1> DEFINE l == [d \in S |-> demande[d]]
           r == [etape |-> "valider", lu |-> l, voulu |-> voulu,
                 evts |-> evts, pose |-> Aucun]
<1>1. requete' = [requete EXCEPT ![p] = r] /\ UNCHANGED demande
  BY DEF Lit
<1>2. requete'[p] = r /\ \A q \in Requetes \ {p} : requete'[q] = requete[q]
  BY <1>1 DEF TypeInv, TypeOK
<1>3. Prudente(demande', r)
  BY <1>1 DEF Prudente
<1>4. Prudence'
  <2>1. Prudente(demande', requete'[p])
    BY <1>2, <1>3
  <2> QED
    BY <1>1, <1>2, <2>1, PrudenceGardee DEF Surete
<1> QED
  BY <1>1, <1>4 DEF Surete, AbsenteVide, ContactEfface, AConfirmerDatee

LEMMA SureteInit == Init => Surete
BY DEF Init, Surete, Prudence, AbsenteVide, ContactEfface,
   AConfirmerDatee, Absente, Finies

LEMMA SureteCreation ==
    ASSUME TypeInv, Surete, NEW d \in Dem, NEW contact \in BOOLEAN,
           CreerDemande(d, contact)
    PROVE  Surete'
<1> DEFINE f == [Absente EXCEPT !.etat = "ouverte", !.contact = contact]
<1>1. demande' = [demande EXCEPT ![d] = f] /\ UNCHANGED requete
  BY DEF CreerDemande
<1>2. demande[d].etat = "absente" /\ Libre
  BY DEF CreerDemande, Existe
<1>3. f.etat = "ouverte"
  BY DEF Absente
<1>4. PICK p \in Requetes : requete[p] = Repos
  BY <1>2 DEF Libre
<1> HIDE DEF f
<1>5. demande'[d].etat = "ouverte" /\ \A e \in Dem \ {d} : demande'[e] = demande[e]
  BY <1>1, <1>3 DEF TypeInv, TypeOK
<1>6. \A e \in Dem : demande[e].etat # "absente" =>
         /\ demande'[e].etat # "absente"
         /\ demande'[e].contact => demande[e].contact
  BY <1>2, <1>5
<1>7. Prudence'
  BY <1>1, <1>4, <1>6, PrudenceGardee DEF Surete
<1> QED
  BY <1>5, <1>7 DEF Surete, AbsenteVide, ContactEfface, AConfirmerDatee, Finies

LEMMA SureteSoutenirLire ==
    ASSUME TypeInv, Surete, NEW p \in Requetes, NEW d \in Dem,
           NEW x \in Personnes, NEW role \in Roles, SoutenirLire(p, d, x, role)
    PROVE  Surete'
<1> DEFINE l == [e \in {d} |-> demande[e]]
           r == [etape |-> "poser", lu |-> l, voulu |-> l, evts |-> {},
                 pose |-> [dem |-> d, qui |-> x, role |-> role,
                           avant |-> soutien[d][x]]]
<1>1. requete' = [requete EXCEPT ![p] = r] /\ UNCHANGED demande
  BY DEF SoutenirLire
<1>2. requete'[p] = r /\ \A q \in Requetes \ {p} : requete'[q] = requete[q]
  BY <1>1 DEF TypeInv, TypeOK
<1>3. /\ demande[d] \in Fiche
      /\ demande[d].etat # "absente"
      /\ demande[d].etat \in Finies => ~demande[d].contact
  BY DEF SoutenirLire, Existe, TypeInv, TypeOK, Surete, ContactEfface
<1>4. RangPrudent(demande[d], demande[d], demande[d])
  BY <1>3 DEF RangPrudent
<1>5. Prudente(demande', requete'[p])
  BY <1>1, <1>2, <1>4 DEF Prudente
<1>6. Prudence'
  BY <1>1, <1>2, <1>5, PrudenceGardee DEF Surete
<1> QED
  BY <1>1, <1>6 DEF Surete, AbsenteVide, ContactEfface, AConfirmerDatee

LEMMA SureteSoutenirPoser ==
    ASSUME TypeInv, Surete, NEW p \in Requetes, SoutenirPoser(p)
    PROVE  Surete'
<1> DEFINE r == requete[p]
           d == r.pose.dem
<1>1. r # Repos /\ r.etape = "poser"
  BY EtapePoser
<1>2. /\ r \in EnVol /\ d \in DOMAIN r.lu /\ r.voulu = r.lu
      /\ \A e \in DOMAIN r.lu : r.lu[e] \in Fiche
  BY <1>1, EnVolType, LignesElim DEF TypeInv, Formes, Forme
<1>3. PICK chantier \in BOOLEAN :
        /\ chantier => r.lu[d].etat = "ouverte"
        /\ requete' = [requete EXCEPT
             ![p].etape = "valider",
             ![p].voulu[d].etat = IF chantier THEN "chantier" ELSE @,
             ![p].evts = IF chantier THEN {d} ELSE {}]
  BY DEF SoutenirPoser
<1>4. UNCHANGED demande
  BY DEF SoutenirPoser
<1> DEFINE etat == IF chantier THEN "chantier" ELSE r.voulu[d].etat
           v == [r.voulu EXCEPT ![d].etat = etat]
           s == [r EXCEPT !.etape = "valider", !.voulu = v,
                          !.evts = IF chantier THEN {d} ELSE {}]
<1>5. requete'[p] = s /\ \A q \in Requetes \ {p} : requete'[q] = requete[q]
  BY <1>2, <1>3 DEF TypeInv, TypeOK, EnVol
<1>6. s.lu = r.lu /\ s.voulu = v /\ s.evts = IF chantier THEN {d} ELSE {}
  BY <1>2 DEF EnVol
<1>7. Prudente(demande, r)
  BY <1>1 DEF Surete, Prudence
<1>8. /\ \A e \in DOMAIN r.lu \ {d} : v[e] = r.lu[e]
      /\ v[d].etat = IF chantier THEN "chantier" ELSE r.lu[d].etat
      /\ v[d].contact = r.lu[d].contact
      /\ v[d].sollicitee = r.lu[d].sollicitee
  BY <1>2 DEF Fiche
<1> HIDE DEF v, s
<1>9. \A e \in DOMAIN r.lu : /\ RangPrudent(demande[e], r.lu[e], v[e])
                             /\ v[e].etat # r.lu[e].etat => e \in s.evts
  <2> SUFFICES ASSUME NEW e \in DOMAIN r.lu
               PROVE  /\ RangPrudent(demande[e], r.lu[e], v[e])
                      /\ v[e].etat # r.lu[e].etat => e \in s.evts
    OBVIOUS
  <2>1. RangPrudent(demande[e], r.lu[e], r.lu[e])
    BY <1>2, <1>7 DEF Prudente
  <2>2. CASE e # d
    BY <1>8, <2>1, <2>2
  <2>3. CASE e = d
    <3>1. RangPrudent(demande[e], r.lu[e], v[e])
      BY <1>8, <2>1, <2>3 DEF RangPrudent, Finies
    <3>2. v[e].etat # r.lu[e].etat => e \in s.evts
      BY <1>6, <1>8, <2>3
    <3> QED
      BY <3>1, <3>2
  <2> QED
    BY <2>2, <2>3
<1>10. Prudente(demande', requete'[p])
  BY <1>4, <1>5, <1>6, <1>9 DEF Prudente
<1>11. Prudence'
  BY <1>4, <1>5, <1>10, PrudenceGardee DEF Surete
<1> QED
  BY <1>4, <1>11 DEF Surete, AbsenteVide, ContactEfface, AConfirmerDatee

LEMMA SureteConfirmer ==
    ASSUME TypeInv, Surete, NEW p \in Requetes, NEW d \in Dem,
           NEW satisfait \in BOOLEAN, ConfirmerSatisfaction(p, d, satisfait)
    PROVE  Surete'
<1> DEFINE f == demande[d]
           oui == [f EXCEPT !.etat = "realisee", !.satisfaction = "oui",
                            !.contact = FALSE]
           non == [f EXCEPT !.etat = "chantier", !.satisfaction = "non",
                            !.sollicitee = "jamais"]
           v == [e \in {d} |-> IF satisfait THEN oui ELSE non]
<1>1. f \in Fiche /\ f.etat = "a_confirmer"
  BY DEF ConfirmerSatisfaction, TypeInv, TypeOK
<1>2. oui \in Fiche /\ RangPrudent(f, f, oui) /\ oui.etat = "realisee"
  BY <1>1 DEF RangPrudent, Fiche, Finies, ETATS_DEMANDE, SATISFACTIONS, Dates
<1>3. non \in Fiche /\ RangPrudent(f, f, non) /\ non.etat = "chantier"
  BY <1>1 DEF RangPrudent, Fiche, Finies, ETATS_DEMANDE, SATISFACTIONS, Dates
<1>4. Lit(p, {d}, v, {d})
  BY DEF ConfirmerSatisfaction
<1>5. v \in [{d} -> Fiche] /\ RangPrudent(demande[d], demande[d], v[d])
  BY <1>2, <1>3
<1> HIDE DEF v
<1> QED
  BY <1>4, <1>5, LitPrudent

LEMMA SureteClore ==
    ASSUME TypeInv, Surete, NEW p \in Requetes, NEW d \in Dem,
           NEW autre \in Dem \cup {Aucun}, CloreDemande(p, d, autre)
    PROVE  Surete'
<1> DEFINE f == demande[d]
           n == [f EXCEPT !.etat = "close", !.doublon = autre, !.contact = FALSE]
           v == [e \in {d} |-> n]
<1>1. f \in Fiche /\ f.etat # "absente"
  BY DEF CloreDemande, Existe, TypeInv, TypeOK
<1>2. n \in Fiche /\ RangPrudent(f, f, n)
  BY <1>1 DEF RangPrudent, Fiche, Finies, ETATS_DEMANDE
<1>3. Lit(p, {d}, v, {d})
  BY DEF CloreDemande
<1>4. v \in [{d} -> Fiche] /\ RangPrudent(demande[d], demande[d], v[d])
  BY <1>2
<1> HIDE DEF v
<1> QED
  BY <1>3, <1>4, LitPrudent

LEMMA SureteEcheances ==
    ASSUME TypeInv, Surete, NEW p \in Requetes, Echeances(p)
    PROVE  Surete'
<1> DEFINE S == {d \in Dem : ConfirmationEchue(demande[d])}
           v == [d \in S |-> [demande[d] EXCEPT !.etat = "realisee",
                    !.satisfaction = "sans_reponse", !.contact = FALSE]]
<1>1. ASSUME NEW d \in S
      PROVE  v[d] \in Fiche /\ RangPrudent(demande[d], demande[d], v[d])
  <2> DEFINE f == demande[d]
             n == [f EXCEPT !.etat = "realisee", !.satisfaction = "sans_reponse",
                            !.contact = FALSE]
  <2>1. f \in Fiche /\ f.etat = "a_confirmer"
    BY DEF TypeInv, TypeOK, ConfirmationEchue
  <2>2. n \in Fiche /\ RangPrudent(f, f, n)
    BY <2>1 DEF RangPrudent, Fiche, Finies, ETATS_DEMANDE, SATISFACTIONS
  <2> QED
    BY <2>2
<1>2. Lit(p, S, v, S)
  BY DEF Echeances
<1>3. v \in [S -> Fiche] /\ S \in SUBSET Dem
  BY <1>1
<1> HIDE DEF S, v
<1> QED
  BY <1>1, <1>2, <1>3, LitPrudent

LEMMA SureteDelier ==
    ASSUME TypeInv, Surete, NEW p \in Requetes, NEW c \in Collections,
           DelierCollection(p, c)
    PROVE  Surete'
<1> DEFINE S == {d \in Dem : demande[d].collection = c}
           v == [d \in S |-> [demande[d] EXCEPT !.collection = Aucun]]
<1>1. ASSUME NEW d \in S
      PROVE  /\ v[d] \in Fiche /\ RangPrudent(demande[d], demande[d], v[d])
             /\ v[d].etat = demande[d].etat
  <2> DEFINE f == demande[d]
             n == [f EXCEPT !.collection = Aucun]
  <2>1. /\ f \in Fiche /\ f.etat # "absente"
        /\ f.etat \in Finies => ~f.contact
    BY AucunAssumption DEF TypeInv, TypeOK, Surete, AbsenteVide, ContactEfface
  <2>2. n \in Fiche /\ RangPrudent(f, f, n) /\ n.etat = f.etat
    BY <2>1 DEF RangPrudent, Fiche
  <2> QED
    BY <2>2
<1>2. Lit(p, S, v, {})
  BY DEF DelierCollection
<1>3. v \in [S -> Fiche] /\ S \in SUBSET Dem /\ {} \in SUBSET S
  BY <1>1
<1> HIDE DEF S, v
<1> QED
  BY <1>1, <1>2, <1>3, LitPrudent

LEMMA SureteSolliciter ==
    ASSUME TypeInv, Surete, NEW p \in Requetes, NEW d \in Dem,
           NEW c \in Collections, SolliciterAuteur(p, d, c)
    PROVE  Surete'
<1> DEFINE f == demande[d]
           l == [f EXCEPT !.sollicitee = "echue"]
           v == [f EXCEPT !.etat = "a_confirmer", !.collection = c,
                          !.sollicitee = "recente"]
           r == [etape |-> "valider", lu |-> [e \in {d} |-> l],
                 voulu |-> [e \in {d} |-> v], evts |-> {d}, pose |-> Aucun]
<1>1. requete' = [requete EXCEPT ![p] = r] /\ UNCHANGED demande
  BY DEF SolliciterAuteur
<1>2. requete'[p] = r /\ \A q \in Requetes \ {p} : requete'[q] = requete[q]
  BY <1>1 DEF TypeInv, TypeOK
<1>3. f \in Fiche /\ f.etat \in {"ouverte", "chantier"}
  BY DEF SolliciterAuteur, TypeInv, TypeOK
<1>4. RangPrudent(f, l, v)
  BY <1>3 DEF RangPrudent, Fiche, Finies
<1> HIDE DEF l, v
<1>5. Prudente(demande', requete'[p])
  BY <1>1, <1>2, <1>4 DEF Prudente
<1>6. Prudence'
  BY <1>1, <1>2, <1>5, PrudenceGardee DEF Surete
<1> QED
  BY <1>1, <1>6 DEF Surete, AbsenteVide, ContactEfface, AConfirmerDatee

\* What a commit makes of every row, the ones it wants and the others.
LEMMA LignesValidees ==
    ASSUME TypeInv, Surete, NEW p \in Requetes, Valider(p), NEW d \in Dem
    PROVE  /\ d \notin DOMAIN requete[p].lu => demande'[d] = demande[d]
           /\ d \in DOMAIN requete[p].lu =>
                LET l == requete[p].lu[d]
                    v == requete[p].voulu[d]
                    n == demande'[d]
                IN  /\ n.etat # "absente" /\ demande[d].etat # "absente"
                    /\ n.contact => demande[d].contact
                    /\ n.etat \in Finies => ~n.contact
                    /\ n.etat = "a_confirmer" => n.sollicitee # "jamais"
                    /\ n.etat = IF v.etat = l.etat THEN demande[d].etat ELSE v.etat
                    /\ v.etat # l.etat => d \in requete[p].evts
<1> DEFINE r == requete[p]
           a == demande[d]
           l == r.lu[d]
           v == r.voulu[d]
<1>1. r # Repos
  BY EtapeValider
<1>2. demande'[d] = IF d \in DOMAIN r.lu THEN Colonnes(a, l, v) ELSE a
  BY DEF Valider
<1>3. ASSUME d \in DOMAIN r.lu
      PROVE  /\ a \in Fiche /\ l \in Fiche /\ v \in Fiche
             /\ RangPrudent(a, l, v)
             /\ v.etat # l.etat => d \in r.evts
             /\ a.etat \in Finies => ~a.contact
             /\ a.etat = "a_confirmer" => a.sollicitee # "jamais"
  <2>1. DOMAIN r.voulu = DOMAIN r.lu
    BY <1>1 DEF TypeInv, Formes, Forme
  <2>2. a \in Fiche /\ l \in Fiche /\ v \in Fiche
    BY <1>1, <1>3, <2>1, EnVolType, LignesElim DEF TypeInv, TypeOK
  <2>3. Prudente(demande, r)
    BY <1>1 DEF Surete, Prudence
  <2> QED
    BY <1>3, <2>2, <2>3 DEF Prudente, Surete, ContactEfface, AConfirmerDatee
<1>4. CASE d \in DOMAIN r.lu
  <2>1. a.etat # "absente"
    BY <1>3, <1>4 DEF RangPrudent
  <2> HIDE DEF a, l, v
  <2> QED
    BY <1>2, <1>3, <1>4, <2>1, RangValide DEF a, l, v
<1> QED
  BY <1>2, <1>4

LEMMA SureteValider ==
    ASSUME TypeInv, Surete, NEW p \in Requetes, Valider(p)
    PROVE  Surete'
<1>1. requete'[p] = Repos /\ \A q \in Requetes \ {p} : requete'[q] = requete[q]
  BY DEF Valider, TypeInv, TypeOK
<1>2. ASSUME NEW d \in Dem
      PROVE  /\ demande[d].etat # "absente" =>
                  /\ demande'[d].etat # "absente"
                  /\ demande'[d].contact => demande[d].contact
             /\ demande'[d].etat = "absente" => demande'[d] = demande[d]
             /\ demande'[d].etat \in Finies => ~demande'[d].contact
             /\ demande'[d].etat = "a_confirmer" => demande'[d].sollicitee # "jamais"
  BY LignesValidees DEF Surete, ContactEfface, AConfirmerDatee
<1>3. Prudence'
  BY <1>1, <1>2, PrudenceGardee DEF Surete
<1> QED
  BY <1>2, <1>3 DEF Surete, AbsenteVide, ContactEfface, AConfirmerDatee

LEMMA SureteDelaiPasse ==
    ASSUME TypeInv, Surete, NEW d \in Dem, DelaiPasse(d)
    PROVE  Surete'
<1>1. /\ \A e \in Dem \ {d} : demande'[e] = demande[e]
      /\ demande'[d].etat = demande[d].etat
      /\ demande'[d].contact = demande[d].contact
      /\ demande'[d].collection = demande[d].collection
      /\ demande'[d].sollicitee = "echue"
  BY DEF DelaiPasse, TypeInv, TypeOK, Fiche
<1>2. requete' = requete
  BY DEF DelaiPasse
<1>3. \A e \in Dem : demande'[e].etat = demande[e].etat
                     /\ demande'[e].contact = demande[e].contact
  BY <1>1
<1>4. Prudence'
  BY <1>2, <1>3, PrudenceGardee DEF Surete, Prudence
<1> QED
  BY <1>1, <1>4 DEF Surete, AbsenteVide, ContactEfface, AConfirmerDatee

LEMMA SureteNext ==
    ASSUME TypeInv, Surete, [Next]_vars
    PROVE  Surete'
<1>1. CASE Creation
  BY <1>1, SureteCreation DEF Creation
<1>2. CASE Soutien
  BY <1>2, SureteSoutenirLire, SureteSoutenirPoser DEF Soutien
<1>3. CASE Retrait \/ UNCHANGED vars
  <2>1. UNCHANGED <<demande, requete>>
    BY <1>3 DEF Retrait, RetirerSoutien, RetirerGarant, vars
  <2> QED
    BY <2>1 DEF Surete, Prudence, AbsenteVide, ContactEfface, AConfirmerDatee
<1>4. CASE Fin
  BY <1>4, SureteConfirmer, SureteClore, SureteEcheances DEF Fin
<1>5. CASE Livraison
  BY <1>5, SureteSolliciter, SureteDelier DEF Livraison
<1>6. CASE Issue
  <2>1. ASSUME NEW p \in Requetes, Abandonner(p)
        PROVE  Surete'
    <3>1. /\ requete'[p] = Repos /\ UNCHANGED demande
          /\ \A q \in Requetes \ {p} : requete'[q] = requete[q]
      BY <2>1 DEF Abandonner, TypeInv, TypeOK
    <3>2. Prudence'
      BY <3>1, PrudenceGardee DEF Surete
    <3> QED
      BY <3>1, <3>2 DEF Surete, AbsenteVide, ContactEfface, AConfirmerDatee
  <2> QED
    BY <1>6, <2>1, SureteValider DEF Issue
<1>7. CASE \E d \in Dem : DelaiPasse(d)
  BY <1>7, SureteDelaiPasse
<1> QED
  BY <1>1, <1>2, <1>3, <1>4, <1>5, <1>6, <1>7 DEF Next

-----------------------------------------------------------------------------
(* The theorems.                                                           *)

LEMMA Invariance == Spec => [](TypeInv /\ Surete)
<1>1. Init => TypeInv /\ Surete
  BY TypeInit, SureteInit
<1>2. TypeInv /\ Surete /\ [Next]_vars => (TypeInv /\ Surete)'
  BY TypeNext, SureteNext
<1> QED
  BY <1>1, <1>2, PTL DEF Spec

\* No overlap of the functions that end, reopen, support, answer or unlink a
\* demande leaves the author's e-mail in one that is over.
THEOREM ContactsEffaces == Spec => []ContactEfface
BY Invariance, PTL DEF Surete

\* No overlap of them leaves a demande waiting for its author without the
\* date from which _echeances counts.
THEOREM AttentesDatees == Spec => []AConfirmerDatee
BY Invariance, PTL DEF Surete

\* A step that changes the state of a row writes the event that announces the
\* new state.
LEMMA PasTrace ==
    ASSUME TypeInv, Surete, [Next]_vars, NEW d \in Dem,
           demande'[d].etat # demande[d].etat
    PROVE  journal'[d].vers = demande'[d].etat
<1>1. CASE Creation
  <2>1. PICK e \in Dem, contact \in BOOLEAN : CreerDemande(e, contact)
    BY <1>1 DEF Creation
  <2> DEFINE f == [Absente EXCEPT !.etat = "ouverte", !.contact = contact]
  <2>2. f.etat = "ouverte"
    BY DEF Absente
  <2>3. /\ demande' = [demande EXCEPT ![e] = f]
        /\ journal' = [journal EXCEPT ![e] = [de |-> "absente", vers |-> "ouverte"]]
    BY <2>1 DEF CreerDemande
  <2> HIDE DEF f
  <2> QED
    BY <2>2, <2>3 DEF TypeInv, TypeOK
<1>2. CASE Soutien \/ Retrait \/ Fin \/ Livraison \/ UNCHANGED vars
  <2>1. UNCHANGED demande
    BY <1>2 DEF Soutien, SoutenirLire, SoutenirPoser, Retrait, RetirerSoutien,
         RetirerGarant, Fin, ConfirmerSatisfaction, CloreDemande, Echeances,
         Livraison, SolliciterAuteur, DelierCollection, Lit, vars
  <2> QED
    BY <2>1
<1>3. ASSUME NEW p \in Requetes, Valider(p)
      PROVE  journal'[d].vers = demande'[d].etat
  <2> DEFINE r == requete[p]
  <2>1. /\ d \in DOMAIN r.lu
        /\ r.voulu[d].etat # r.lu[d].etat
        /\ demande'[d].etat = r.voulu[d].etat
        /\ d \in r.evts
    BY <1>3, LignesValidees
  <2>2. journal'[d] = [de |-> r.lu[d].etat, vers |-> r.voulu[d].etat]
    BY <1>3, <2>1 DEF Valider
  <2> QED
    BY <2>1, <2>2
<1>4. ASSUME NEW p \in Requetes, Abandonner(p)
      PROVE  FALSE
  BY <1>4 DEF Abandonner
<1>5. CASE \E e \in Dem : DelaiPasse(e)
  BY <1>5 DEF DelaiPasse, TypeInv, TypeOK, Fiche
<1> QED
  BY <1>1, <1>2, <1>3, <1>4, <1>5 DEF Next, Issue

\* A commit that changes the state of a demande writes the event that
\* announces the state it leaves, whatever overlapped with it.
THEOREM ChangementsTraces == Spec => ChangementTrace
<1> DEFINE Pas == \A d \in Dem : demande'[d].etat # demande[d].etat
                      => journal'[d].vers = demande'[d].etat
<1>1. TypeInv /\ Surete /\ [Next]_vars => [Pas]_vars
  BY PasTrace
<1>2. Spec => [][Pas]_vars
  BY <1>1, Invariance, PTL DEF Spec
<1> QED
  BY <1>2 DEF ChangementTrace

-----------------------------------------------------------------------------
(* One request at a time.                                                  *)

\* At most one request is in flight.
Seule == \A p, q \in Requetes : requete[p] # Repos /\ requete[q] # Repos => p = q

\* The rows a request has read are still what the tables hold, the date of the
\* request to the author aside: the clock moves under it.
ALaPage(r) == \A d \in DOMAIN r.lu : /\ demande[d].etat = r.lu[d].etat
                                     /\ demande[d].contact = r.lu[d].contact

\* The supporters of a demande with the one a request adds.
Avec(s) == [soutien[s.dem] EXCEPT ![s.qui] = s.role]

\* A request that writes a supporter: it found no other guarantor, and starts
\* the work exactly when the conditions are met with its own row.
Soutenante(r) ==
    LET s == r.pose
        d == s.dem
    IN  /\ s \in Pose /\ DOMAIN r.lu = {d}
        /\ s.avant = soutien[d][s.qui]
        /\ r.lu[d].etat \in {"ouverte", "chantier", "a_confirmer"}
        /\ s.role = "garant" => \A y \in Personnes \ {s.qui} : soutien[d][y] # "garant"
        /\ r.etape = "valider" =>
              /\ r.voulu[d].contact = r.lu[d].contact
              /\ r.voulu[d].etat = IF r.lu[d].etat = "ouverte" /\ AtteintLeChantier(Avec(s))
                                   THEN "chantier" ELSE r.lu[d].etat

\* A request that writes none: what it makes of the rows it read.
Finit(r, fin) ==
    \A d \in DOMAIN r.lu : /\ r.voulu[d].etat = fin /\ ~r.voulu[d].contact
                           /\ fin = "realisee" => r.lu[d].etat = "a_confirmer"

Passe(r) ==
    \E d \in DOMAIN r.lu :
        /\ DOMAIN r.lu = {d} /\ r.voulu[d].contact = r.lu[d].contact
        /\ \/ r.lu[d].etat = "a_confirmer" /\ r.voulu[d].etat = "chantier"
           \/ r.lu[d].etat \in {"ouverte", "chantier"} /\ r.voulu[d].etat = "a_confirmer"

Laisse(r) == \A d \in DOMAIN r.lu : /\ r.voulu[d].etat = r.lu[d].etat
                                    /\ r.voulu[d].contact = r.lu[d].contact

Autre(r) == /\ r.pose = Aucun /\ r.etape = "valider"
            /\ (\E fin \in Finies : Finit(r, fin)) \/ Passe(r) \/ Laisse(r)

Suite == /\ Seule
         /\ \A p \in Requetes : requete[p] # Repos =>
                ALaPage(requete[p]) /\ (Soutenante(requete[p]) \/ Autre(requete[p]))

\* An open demande does not meet the conditions to start, one that was never
\* inserted has no supporter.
AuxConditions ==
    \A d \in Dem : /\ demande[d].etat = "ouverte" => ~AtteintLeChantier(soutien[d])
                   /\ demande[d].etat = "absente" => Soutiens(soutien[d]) = {}

Serie == scenario = "serie" => Suite /\ AuxConditions /\ UnSeulGarant

LEMMA SuivieSeule == ASSUME Suivie PROVE Seule'
<1> DEFINE S == {p \in Requetes : requete'[p] # Repos}
<1> SUFFICES ASSUME NEW p \in S, NEW q \in S, p # q PROVE FALSE
  BY DEF Seule
<1>1. Cardinality(S) <= 1
  BY DEF Suivie, EnVolAuPlus
<1>2. IsFiniteSet(S)
  BY FinisAssumption, FS_Subset
<1> HIDE DEF S
<1>3. IsFiniteSet({p}) /\ Cardinality({p}) = 1 /\ q \notin {p}
  BY FS_Singleton
<1>4. Cardinality({p} \cup {q}) = 2
  BY <1>3, FS_AddElement
<1>5. Cardinality({p} \cup {q}) <= Cardinality(S)
  BY <1>2, FS_Subset
<1>6. Cardinality(S) \in Nat
  BY <1>2, FS_CardinalityType
<1> QED
  BY <1>1, <1>4, <1>5, <1>6

\* What commits by itself finds nothing in flight, the clock aside.
LEMMA SuivieSeul ==
    ASSUME Suivie, requete' = requete
    PROVE  (\A p \in Requetes : requete[p] = Repos) \/ \E d \in Dem : DelaiPasse(d)
<1> DEFINE S == {p \in Requetes : requete[p] # Repos}
<1> SUFFICES ASSUME EnVolAuPlus(0) PROVE \A p \in Requetes : requete[p] = Repos
  BY DEF Suivie
<1>1. IsFiniteSet(S)
  BY FinisAssumption, FS_Subset
<1>2. Cardinality(S) <= 0
  BY DEF EnVolAuPlus
<1> HIDE DEF S
<1>3. S = {}
  BY <1>1, <1>2, FS_CardinalityType, FS_EmptySet
<1> QED
  BY <1>3 DEF S

\* Supporters who withdraw never bring the conditions about.
LEMMA AtteintMoins ==
    ASSUME NEW t, NEW u, Soutiens(u) \subseteq Soutiens(t), AGarant(u) => AGarant(t),
           AtteintLeChantier(u)
    PROVE  AtteintLeChantier(t)
<1>1. IsFiniteSet(Soutiens(t))
  BY FinisAssumption, FS_Subset DEF Soutiens
<1>2. Cardinality(Soutiens(u)) <= Cardinality(Soutiens(t))
  BY <1>1, FS_Subset
<1>3. Cardinality(Soutiens(u)) \in Nat /\ Cardinality(Soutiens(t)) \in Nat
  BY <1>1, FS_Subset, FS_CardinalityType
<1> QED
  BY <1>2, <1>3, SeuilAssumption DEF AtteintLeChantier

LEMMA RetraitPas ==
    ASSUME TypeInv, Retrait
    PROVE  /\ UNCHANGED <<demande, journal, requete>>
           /\ \A e \in Dem : /\ Soutiens(soutien'[e]) \subseteq Soutiens(soutien[e])
                             /\ \A x \in Personnes : soutien'[e][x] \in {soutien[e][x], Aucun}
           /\ \E d \in Dem : Existe(d) /\ \A e \in Dem \ {d} : soutien'[e] = soutien[e]
<1>1. UNCHANGED <<demande, journal, requete>>
  BY DEF Retrait, RetirerSoutien, RetirerGarant
<1>2. PICK d \in Dem : \/ \E x \in Personnes : RetirerSoutien(d, x)
                       \/ RetirerGarant(d)
  BY DEF Retrait
<1>3. Existe(d) /\ \A e \in Dem \ {d} : soutien'[e] = soutien[e]
  BY <1>2 DEF RetirerSoutien, RetirerGarant, TypeInv, TypeOK
<1>4. \A x \in Personnes : soutien'[d][x] \in {soutien[d][x], Aucun}
  BY <1>2 DEF RetirerSoutien, RetirerGarant, TypeInv, TypeOK
<1>5. \A e \in Dem : \A x \in Personnes : soutien'[e][x] \in {soutien[e][x], Aucun}
  BY <1>3, <1>4
<1> QED
  BY <1>1, <1>3, <1>5 DEF Soutiens

\* A step without a commit leaves the rows and the supporters.
LEMMA SansValider ==
    ASSUME Soutien \/ Fin \/ Livraison \/ \E p \in Requetes : Abandonner(p)
    PROVE  UNCHANGED <<demande, soutien, journal>>
BY DEF Soutien, SoutenirLire, SoutenirPoser, Fin, ConfirmerSatisfaction, CloreDemande, Echeances,
   Livraison, SolliciterAuteur, DelierCollection, Lit, Abandonner

\* A commit, when the rows it writes are those that were read.
LEMMA ValiderSerie ==
    ASSUME TypeInv, Surete, Suite, NEW p \in Requetes, Valider(p)
    PROVE  LET r == requete[p]
           IN  /\ ALaPage(r) /\ (Soutenante(r) \/ Autre(r)) /\ r.etape = "valider"
               /\ DOMAIN r.lu \subseteq Dem
               /\ \A d \in Dem \ DOMAIN r.lu : demande'[d] = demande[d]
               /\ \A d \in DOMAIN r.lu : /\ demande'[d].etat = r.voulu[d].etat
                                         /\ demande'[d].contact = r.voulu[d].contact
                                         /\ demande[d].etat # "absente"
               /\ Soutenante(r) => soutien' = [soutien EXCEPT ![r.pose.dem] = Avec(r.pose)]
               /\ Autre(r) => soutien' = soutien
               /\ \A q \in Requetes : requete'[q] = Repos
<1> DEFINE r == requete[p]
           s == r.pose
<1>1. r # Repos /\ r.etape = "valider"
  BY EtapeValider
<1>2. ALaPage(r) /\ (Soutenante(r) \/ Autre(r))
  BY <1>1 DEF Suite
<1>3. DOMAIN r.lu \in SUBSET Dem
  BY <1>1, EnVolType, LignesElim DEF TypeInv
<1>4. \A d \in Dem : demande'[d] = IF d \in DOMAIN r.lu
                                   THEN Colonnes(demande[d], r.lu[d], r.voulu[d])
                                   ELSE demande[d]
  BY DEF Valider
<1>5. \A d \in DOMAIN r.lu : /\ demande'[d].etat = r.voulu[d].etat
                             /\ demande'[d].contact = r.voulu[d].contact
                             /\ demande[d].etat # "absente"
  <2> SUFFICES ASSUME NEW d \in DOMAIN r.lu
               PROVE  /\ demande'[d].etat = r.voulu[d].etat
                      /\ demande'[d].contact = r.voulu[d].contact
                      /\ demande[d].etat # "absente"
    OBVIOUS
  <2>1. demande[d].etat = r.lu[d].etat /\ demande[d].contact = r.lu[d].contact
    BY <1>2 DEF ALaPage
  <2>2. demande'[d] = Colonnes(demande[d], r.lu[d], r.voulu[d])
    BY <1>3, <1>4
  <2>3. demande[d].etat # "absente"
    BY <1>1 DEF Surete, Prudence, Prudente, RangPrudent
  <2> HIDE DEF r
  <2> QED
    BY <2>1, <2>2, <2>3 DEF Colonnes
<1>6. soutien' = IF s # Aucun /\ s.role # s.avant
                 THEN [soutien EXCEPT ![s.dem][s.qui] = s.role] ELSE soutien
  BY DEF Valider
<1>7. Soutenante(r) => soutien' = [soutien EXCEPT ![s.dem] = Avec(s)]
  <2> SUFFICES ASSUME Soutenante(r) PROVE soutien' = [soutien EXCEPT ![s.dem] = Avec(s)]
    OBVIOUS
  <2>1. s \in Pose /\ s.avant = soutien[s.dem][s.qui]
    BY DEF Soutenante
  <2>2. s # Aucun
    BY <2>1, PoseAssumption
  <2>3. s.dem \in Dem /\ s.qui \in Personnes
    BY <2>1 DEF Pose
  <2> HIDE DEF s, r
  <2>4. CASE s.role # s.avant
    BY <1>6, <2>2, <2>4 DEF Avec
  <2>5. CASE s.role = s.avant
    <3>1. Avec(s) = soutien[s.dem]
      BY <2>1, <2>3, <2>5 DEF Avec, TypeInv, TypeOK
    <3> QED
      BY <1>6, <2>3, <2>5, <3>1 DEF TypeInv, TypeOK
  <2> QED
    BY <2>4, <2>5
<1>8. Autre(r) => soutien' = soutien
  BY <1>6 DEF Autre
<1>9. \A q \in Requetes : requete'[q] = Repos
  BY <1>1 DEF Valider, Suite, Seule, TypeInv, TypeOK
<1> QED
  BY <1>1, <1>2, <1>3, <1>4, <1>5, <1>7, <1>8, <1>9

\* A request that begins, or goes on, alone.
LEMMA SuiteDe ==
    ASSUME Seule', NEW p \in Requetes, requete'[p] # Repos,
           ALaPage(requete[p])', (Soutenante(requete[p]) \/ Autre(requete[p]))'
    PROVE  Suite'
BY DEF Suite, Seule

\* Supporters that do not change leave a request what it is.
LEMMA SoutenanteGardee ==
    ASSUME NEW p \in Requetes, NEW r, requete'[p] = r, soutien' = soutien, Soutenante(r)
    PROVE  Soutenante(requete[p])'
<1>1. Avec(requete[p].pose)' = Avec(r.pose)
  BY DEF Avec
<1> QED
  BY <1>1 DEF Soutenante

\* A request that reads rows, and wants others for them.
LEMMA LitSuite ==
    ASSUME TypeInv, Seule', NEW p \in Requetes, NEW S \in SUBSET Dem,
           NEW voulu \in [S -> Fiche], NEW evts, Lit(p, S, voulu, evts),
           \/ \E fin \in Finies : \A d \in S : /\ voulu[d].etat = fin /\ ~voulu[d].contact
                                               /\ fin = "realisee" => demande[d].etat = "a_confirmer"
           \/ \E d \in S : /\ S = {d} /\ voulu[d].contact = demande[d].contact
                           /\ demande[d].etat = "a_confirmer" /\ voulu[d].etat = "chantier"
           \/ \A d \in S : voulu[d].etat = demande[d].etat /\ voulu[d].contact = demande[d].contact
    PROVE  Suite'
<1> DEFINE l == [d \in S |-> demande[d]]
           r == [etape |-> "valider", lu |-> l, voulu |-> voulu, evts |-> evts, pose |-> Aucun]
<1>1. requete' = [requete EXCEPT ![p] = r] /\ UNCHANGED <<demande, soutien>>
  BY DEF Lit
<1>2. requete'[p] = r /\ r # Repos
  BY <1>1 DEF TypeInv, TypeOK, Repos
<1>3. DOMAIN l = S /\ \A d \in S : l[d] = demande[d]
  OBVIOUS
<1>4. /\ r.lu = l /\ r.voulu = voulu /\ r.pose = Aucun /\ r.etape = "valider"
  OBVIOUS
<1> HIDE DEF r, l
<1>5. Autre(r)
  BY <1>3, <1>4 DEF Autre, Finit, Passe, Laisse
<1>6. ALaPage(r)
  BY <1>3, <1>4 DEF ALaPage
<1>7. ALaPage(requete[p])' /\ Autre(requete[p])'
  BY <1>1, <1>2, <1>5, <1>6 DEF ALaPage, Autre, Finit, Passe, Laisse
<1> QED
  BY <1>2, <1>7, SuiteDe

LEMMA SolliciterSuite ==
    ASSUME TypeInv, Seule', NEW p \in Requetes, NEW d \in Dem, NEW c \in Collections,
           SolliciterAuteur(p, d, c)
    PROVE  Suite'
<1> DEFINE l == [demande[d] EXCEPT !.sollicitee = "echue"]
           v == [demande[d] EXCEPT !.etat = "a_confirmer", !.collection = c,
                                   !.sollicitee = "recente"]
           r == [etape |-> "valider", lu |-> [e \in {d} |-> l], voulu |-> [e \in {d} |-> v],
                 evts |-> {d}, pose |-> Aucun]
<1>1. requete' = [requete EXCEPT ![p] = r] /\ UNCHANGED <<demande, soutien>>
  BY DEF SolliciterAuteur
<1>2. requete'[p] = r /\ r # Repos
  BY <1>1 DEF TypeInv, TypeOK, Repos
<1>3. /\ l.etat = demande[d].etat /\ l.contact = demande[d].contact
      /\ v.etat = "a_confirmer" /\ v.contact = demande[d].contact
      /\ demande[d].etat \in {"ouverte", "chantier"}
  BY DEF SolliciterAuteur, TypeInv, TypeOK, Fiche
<1> HIDE DEF l, v
<1>4. Autre(r) /\ ALaPage(r)
  BY <1>3 DEF Autre, Passe, ALaPage
<1> HIDE DEF r
<1>5. ALaPage(requete[p])' /\ Autre(requete[p])'
  BY <1>1, <1>2, <1>4 DEF ALaPage, Autre, Finit, Passe, Laisse
<1> QED
  BY <1>2, <1>5, SuiteDe

LEMMA SoutenirLireSuite ==
    ASSUME TypeInv, Seule', NEW p \in Requetes, NEW d \in Dem, NEW x \in Personnes,
           NEW role \in Roles, SoutenirLire(p, d, x, role)
    PROVE  Suite'
<1> DEFINE r == [etape |-> "poser", lu |-> [e \in {d} |-> demande[e]],
                 voulu |-> [e \in {d} |-> demande[e]], evts |-> {},
                 pose |-> [dem |-> d, qui |-> x, role |-> role, avant |-> soutien[d][x]]]
<1>1. requete' = [requete EXCEPT ![p] = r] /\ UNCHANGED <<demande, soutien>>
  BY DEF SoutenirLire
<1>2. requete'[p] = r /\ r # Repos
  BY <1>1 DEF TypeInv, TypeOK, Repos
<1>3. demande[d].etat \in {"ouverte", "chantier", "a_confirmer"}
  BY DEF SoutenirLire, Existe, Finies, TypeInv, TypeOK, Fiche, ETATS_DEMANDE
<1>4. r.pose \in Pose
  BY DEF Pose, TypeInv, TypeOK
<1>5. ALaPage(r)
  BY DEF ALaPage
<1>6. Soutenante(r)
  BY <1>3, <1>4 DEF Soutenante, SoutenirLire
<1> HIDE DEF r
<1>7. ALaPage(requete[p])' /\ Soutenante(requete[p])'
  BY <1>1, <1>2, <1>5, <1>6 DEF ALaPage, Soutenante, Avec
<1> QED
  BY <1>2, <1>7, SuiteDe

LEMMA SoutenirPoserSuite ==
    ASSUME TypeInv, Suite, Seule', NEW p \in Requetes, SoutenirPoser(p)
    PROVE  Suite'
<1> DEFINE r == requete[p]
           s == r.pose
           d == s.dem
           present == s.avant = Aucun \/ soutien[d][s.qui] # Aucun
           vue == IF present THEN [soutien[d] EXCEPT ![s.qui] = s.role] ELSE soutien[d]
           chantier == r.lu[d].etat = "ouverte" /\ AtteintLeChantier(vue)
           etat == IF chantier THEN "chantier" ELSE r.voulu[d].etat
           evts == IF chantier THEN {d} ELSE {}
           v == [r.voulu EXCEPT ![d].etat = etat]
           n == [r EXCEPT !.etape = "valider", !.voulu = v, !.evts = evts]
<1>1. r # Repos /\ r.etape = "poser"
  BY EtapePoser
<1>2. ALaPage(r) /\ Soutenante(r)
  BY <1>1 DEF Suite, Autre
<1>3. /\ r \in EnVol /\ r.voulu = r.lu /\ d \in DOMAIN r.lu /\ s \in Pose
      /\ \A e \in DOMAIN r.lu : r.lu[e] \in Fiche
  BY <1>1, EnVolType, LignesElim DEF TypeInv, Formes, Forme
<1>4. /\ requete' = [requete EXCEPT ![p].etape = "valider", ![p].voulu[d].etat = etat,
                                    ![p].evts = evts]
      /\ UNCHANGED <<demande, soutien>>
  BY DEF SoutenirPoser
<1>5. vue = Avec(s)
  BY <1>2 DEF Soutenante, Avec
<1>6. chantier <=> r.lu[d].etat = "ouverte" /\ AtteintLeChantier(Avec(s))
  BY <1>5
<1>7. /\ v[d].etat = etat /\ v[d].contact = r.lu[d].contact
  BY <1>3 DEF Fiche
<1> HIDE DEF chantier, v, evts
<1>8. requete'[p] = n
  BY <1>3, <1>4 DEF TypeInv, TypeOK, EnVol, v
<1>9. n.etape = "valider" /\ n.lu = r.lu /\ n.voulu = v /\ n.pose = s
  BY <1>3 DEF EnVol
<1> HIDE DEF n
<1>10. etat = IF r.lu[d].etat = "ouverte" /\ AtteintLeChantier(Avec(s))
              THEN "chantier" ELSE r.lu[d].etat
  BY <1>3, <1>6
<1>11. Soutenante(n)
  BY <1>2, <1>7, <1>9, <1>10 DEF Soutenante
<1>12. ALaPage(n)
  BY <1>2, <1>9 DEF ALaPage
<1>13. n # Repos
  BY <1>9 DEF Repos
<1>14. ALaPage(requete[p])' /\ Soutenante(requete[p])'
  BY <1>4, <1>8, <1>11, <1>12, SoutenanteGardee DEF ALaPage
<1> QED
  BY <1>8, <1>13, <1>14, SuiteDe

LEMMA SuiteEtape ==
    ASSUME TypeInv, Surete, Suite, Next, Suivie
    PROVE  Suite'
<1>1. Seule'
  BY SuivieSeule
<1>2. CASE Soutien
  BY <1>1, <1>2, SoutenirLireSuite, SoutenirPoserSuite DEF Soutien
<1>3. CASE Fin
  <2>1. ASSUME NEW p \in Requetes, NEW d \in Dem, NEW satisfait \in BOOLEAN,
               ConfirmerSatisfaction(p, d, satisfait)
        PROVE  Suite'
    <3> DEFINE f == demande[d]
               oui == [f EXCEPT !.etat = "realisee", !.satisfaction = "oui", !.contact = FALSE]
               non == [f EXCEPT !.etat = "chantier", !.satisfaction = "non",
                                !.sollicitee = "jamais"]
               v == [e \in {d} |-> IF satisfait THEN oui ELSE non]
    <3>1. f \in Fiche /\ f.etat = "a_confirmer"
      BY <2>1 DEF ConfirmerSatisfaction, TypeInv, TypeOK
    <3>2. /\ oui \in Fiche /\ oui.etat = "realisee" /\ ~oui.contact
          /\ non \in Fiche /\ non.etat = "chantier" /\ non.contact = f.contact
      BY <3>1 DEF Fiche, ETATS_DEMANDE, SATISFACTIONS, Dates
    <3>3. Lit(p, {d}, v, {d})
      BY <2>1 DEF ConfirmerSatisfaction
    <3> HIDE DEF oui, non
    <3>4. v \in [{d} -> Fiche] /\ v[d] = (IF satisfait THEN oui ELSE non)
      BY <3>2
    <3> HIDE DEF v
    <3> QED
      BY <1>1, <3>1, <3>2, <3>3, <3>4, LitSuite DEF Finies
  <2>2. ASSUME NEW p \in Requetes, NEW d \in Dem, NEW autre \in Dem \cup {Aucun},
               CloreDemande(p, d, autre)
        PROVE  Suite'
    <3> DEFINE n == [demande[d] EXCEPT !.etat = "close", !.doublon = autre, !.contact = FALSE]
               v == [e \in {d} |-> n]
    <3>1. n \in Fiche /\ n.etat = "close" /\ ~n.contact
      <4>1. demande[d] \in Fiche
        BY DEF TypeInv, TypeOK
      <4> QED
        BY <4>1 DEF Fiche, ETATS_DEMANDE
    <3>2. Lit(p, {d}, v, {d})
      BY <2>2 DEF CloreDemande
    <3> HIDE DEF n
    <3>3. v \in [{d} -> Fiche] /\ \A e \in {d} : v[e] = n
      BY <3>1
    <3> HIDE DEF v
    <3> QED
      BY <1>1, <3>1, <3>2, <3>3, LitSuite DEF Finies
  <2>3. ASSUME NEW p \in Requetes, Echeances(p)
        PROVE  Suite'
    <3> DEFINE S == {d \in Dem : ConfirmationEchue(demande[d])}
               v == [d \in S |-> [demande[d] EXCEPT !.etat = "realisee",
                        !.satisfaction = "sans_reponse", !.contact = FALSE]]
    <3>1. ASSUME NEW d \in S
          PROVE  /\ v[d] \in Fiche /\ v[d].etat = "realisee" /\ ~v[d].contact
                 /\ demande[d].etat = "a_confirmer"
      <4> DEFINE f == demande[d]
                 n == [f EXCEPT !.etat = "realisee", !.satisfaction = "sans_reponse",
                                !.contact = FALSE]
      <4>1. f \in Fiche /\ f.etat = "a_confirmer"
        BY DEF TypeInv, TypeOK, ConfirmationEchue
      <4>2. n \in Fiche /\ n.etat = "realisee" /\ ~n.contact
        BY <4>1 DEF Fiche, ETATS_DEMANDE, SATISFACTIONS
      <4> QED
        BY <4>1, <4>2
    <3>2. Lit(p, S, v, S)
      BY <2>3 DEF Echeances
    <3>3. v \in [S -> Fiche] /\ S \in SUBSET Dem
      BY <3>1
    <3> HIDE DEF S, v
    <3> QED
      BY <1>1, <3>1, <3>2, <3>3, LitSuite DEF Finies
  <2> QED
    BY <1>3, <2>1, <2>2, <2>3 DEF Fin
<1>4. CASE Livraison
  <2>1. ASSUME NEW p \in Requetes, NEW c \in Collections, DelierCollection(p, c)
        PROVE  Suite'
    <3> DEFINE S == {d \in Dem : demande[d].collection = c}
               v == [d \in S |-> [demande[d] EXCEPT !.collection = Aucun]]
    <3>1. ASSUME NEW d \in S
          PROVE  /\ v[d] \in Fiche /\ v[d].etat = demande[d].etat
                 /\ v[d].contact = demande[d].contact
      <4> DEFINE f == demande[d]
                 n == [f EXCEPT !.collection = Aucun]
      <4>1. f \in Fiche
        BY DEF TypeInv, TypeOK
      <4>2. n \in Fiche /\ n.etat = f.etat /\ n.contact = f.contact
        BY <4>1 DEF Fiche
      <4> QED
        BY <4>2
    <3>2. Lit(p, S, v, {})
      BY <2>1 DEF DelierCollection
    <3>3. v \in [S -> Fiche] /\ S \in SUBSET Dem
      BY <3>1
    <3> HIDE DEF S, v
    <3> QED
      BY <1>1, <3>1, <3>2, <3>3, LitSuite
  <2> QED
    BY <1>1, <1>4, <2>1, SolliciterSuite DEF Livraison
<1>5. CASE Issue
  <2>1. ASSUME NEW p \in Requetes, Abandonner(p)
        PROVE  \A q \in Requetes : requete'[q] = Repos
    BY <2>1 DEF Abandonner, Suite, Seule, TypeInv, TypeOK
  <2> QED
    BY <1>1, <1>5, <2>1, ValiderSerie DEF Issue, Suite
<1>6. CASE \E d \in Dem : DelaiPasse(d)
  <2>1. UNCHANGED <<requete, soutien>>
        /\ \A d \in Dem : demande'[d].etat = demande[d].etat
                          /\ demande'[d].contact = demande[d].contact
    BY <1>6 DEF DelaiPasse, TypeInv, TypeOK, Fiche
  <2> SUFFICES ASSUME NEW p \in Requetes, requete'[p] # Repos
               PROVE  /\ ALaPage(requete[p])'
                      /\ (Soutenante(requete[p]) \/ Autre(requete[p]))'
    BY <1>1 DEF Suite
  <2>2. DOMAIN requete[p].lu \subseteq Dem
    BY <2>1, EnVolType, LignesElim DEF TypeInv
  <2>3. ALaPage(requete[p]) /\ (Soutenante(requete[p]) \/ Autre(requete[p]))
    BY <2>1 DEF Suite
  <2>4. ALaPage(requete[p])'
    BY <2>1, <2>2, <2>3 DEF ALaPage
  <2>5. CASE Soutenante(requete[p])
    BY <2>1, <2>4, <2>5, SoutenanteGardee
  <2>6. CASE Autre(requete[p])
    BY <2>1, <2>4, <2>6 DEF Autre, Finit, Passe, Laisse
  <2> QED
    BY <2>3, <2>5, <2>6
<1>7. CASE (Creation \/ Retrait) /\ ~\E d \in Dem : DelaiPasse(d)
  <2>1. requete' = requete
    BY <1>7 DEF Creation, CreerDemande, Retrait, RetirerSoutien, RetirerGarant
  <2> QED
    BY <1>1, <1>7, <2>1, SuivieSeul DEF Suite
<1> QED
  BY <1>2, <1>3, <1>4, <1>5, <1>6, <1>7 DEF Next

LEMMA ConditionsEtape ==
    ASSUME TypeInv, Surete, Suite, AuxConditions, UnSeulGarant, Next
    PROVE  AuxConditions' /\ UnSeulGarant'
<1>1. CASE Creation
  <2>1. PICK d \in Dem, contact \in BOOLEAN : CreerDemande(d, contact)
    BY <1>1 DEF Creation
  <2> DEFINE f == [Absente EXCEPT !.etat = "ouverte", !.contact = contact]
  <2>2. f.etat = "ouverte"
    BY DEF Absente
  <2>3. demande' = [demande EXCEPT ![d] = f] /\ soutien' = soutien /\ demande[d].etat = "absente"
    BY <2>1 DEF CreerDemande, Existe
  <2> HIDE DEF f
  <2>4. Soutiens(soutien[d]) = {}
    BY <2>3 DEF AuxConditions
  <2>5. ~AGarant(soutien[d])
    BY <2>4, AucunAssumption, RolesAssumption DEF Soutiens, AGarant
  <2> QED
    BY <2>2, <2>3, <2>5 DEF AuxConditions, UnSeulGarant, AtteintLeChantier, TypeInv, TypeOK
<1>2. CASE Soutien \/ Fin \/ Livraison \/ \E p \in Requetes : Abandonner(p)
  BY <1>2, SansValider DEF AuxConditions, UnSeulGarant
<1>3. CASE Retrait
  <2>1. /\ demande' = demande
        /\ \A e \in Dem : /\ Soutiens(soutien'[e]) \subseteq Soutiens(soutien[e])
                          /\ \A x \in Personnes : soutien'[e][x] \in {soutien[e][x], Aucun}
    BY <1>3, RetraitPas
  <2>2. \A e \in Dem : AGarant(soutien'[e]) => AGarant(soutien[e])
    BY <2>1, AucunAssumption, RolesAssumption DEF AGarant
  <2>3. \A e \in Dem : AtteintLeChantier(soutien'[e]) => AtteintLeChantier(soutien[e])
    BY <2>1, <2>2, AtteintMoins
  <2>4. AuxConditions'
    BY <2>1, <2>3 DEF AuxConditions
  <2>5. \A e \in Dem : \A x \in Personnes : soutien'[e][x] = "garant" => soutien[e][x] = "garant"
    BY <2>1, AucunAssumption, RolesAssumption
  <2> QED
    BY <2>4, <2>5 DEF UnSeulGarant
<1>4. ASSUME NEW p \in Requetes, Valider(p)
      PROVE  AuxConditions' /\ UnSeulGarant'
  <2> DEFINE r == requete[p]
             s == r.pose
             d == s.dem
  <2>1. /\ ALaPage(r) /\ (Soutenante(r) \/ Autre(r)) /\ r.etape = "valider"
        /\ DOMAIN r.lu \subseteq Dem
        /\ \A e \in Dem \ DOMAIN r.lu : demande'[e] = demande[e]
        /\ \A e \in DOMAIN r.lu : demande'[e].etat = r.voulu[e].etat /\ demande[e].etat # "absente"
        /\ Soutenante(r) => soutien' = [soutien EXCEPT ![d] = Avec(s)]
        /\ Autre(r) => soutien' = soutien
    BY <1>4, ValiderSerie
  <2>2. CASE Autre(r)
    <3>1. \A e \in DOMAIN r.lu : /\ demande'[e].etat = "ouverte" => demande[e].etat = "ouverte"
                                 /\ demande'[e].etat = "absente" => demande[e].etat = "absente"
      <4> SUFFICES ASSUME NEW e \in DOMAIN r.lu
                   PROVE  /\ r.voulu[e].etat # "absente"
                          /\ r.voulu[e].etat = "ouverte" => r.lu[e].etat = "ouverte"
        BY <2>1 DEF ALaPage
      <4>1. r.lu[e].etat # "absente"
        BY <2>1 DEF ALaPage
      <4>2. CASE \E fin \in Finies : Finit(r, fin)
        BY <4>2 DEF Finit, Finies
      <4>3. CASE Passe(r)
        BY <4>3 DEF Passe
      <4>4. CASE Laisse(r)
        BY <4>1, <4>4 DEF Laisse
      <4> QED
        BY <2>2, <4>2, <4>3, <4>4 DEF Autre
    <3> HIDE DEF r
    <3> QED
      BY <2>1, <2>2, <3>1 DEF AuxConditions, UnSeulGarant
  <2>3. CASE Soutenante(r)
    <3>1. /\ DOMAIN r.lu = {d} /\ d \in Dem /\ s.qui \in Personnes
          /\ r.lu[d].etat \in {"ouverte", "chantier", "a_confirmer"}
          /\ s.role = "garant" => \A y \in Personnes \ {s.qui} : soutien[d][y] # "garant"
          /\ r.voulu[d].etat = IF r.lu[d].etat = "ouverte" /\ AtteintLeChantier(Avec(s))
                               THEN "chantier" ELSE r.lu[d].etat
      BY <2>1, <2>3 DEF Soutenante, Pose
    <3>2. /\ soutien'[d] = Avec(s) /\ \A e \in Dem \ {d} : soutien'[e] = soutien[e]
          /\ Avec(s)[s.qui] = s.role
          /\ \A y \in Personnes \ {s.qui} : Avec(s)[y] = soutien[d][y]
      BY <2>1, <2>3, <3>1 DEF Avec, TypeInv, TypeOK
    <3> HIDE DEF r, s, d
    <3>3. AuxConditions'
      BY <2>1, <3>1, <3>2 DEF AuxConditions
    <3>4. UnSeulGarant'
      BY <3>1, <3>2 DEF UnSeulGarant
    <3> QED
      BY <3>3, <3>4
  <2> QED
    BY <2>1, <2>2, <2>3
<1>5. CASE \E d \in Dem : DelaiPasse(d)
  <2>1. soutien' = soutien /\ \A e \in Dem : demande'[e].etat = demande[e].etat
    BY <1>5 DEF DelaiPasse, TypeInv, TypeOK, Fiche
  <2> QED
    BY <2>1 DEF AuxConditions, UnSeulGarant
<1> QED
  BY <1>1, <1>2, <1>3, <1>4, <1>5 DEF Next, Issue

MCvars == <<vars, scenario>>

InvSerie == TypeInv /\ Surete /\ Serie

LEMMA InvarianceSerie == MCSpec => []InvSerie
<1>1. MCInit => InvSerie
  <2> SUFFICES ASSUME MCInit PROVE InvSerie
    OBVIOUS
  <2>1. TypeInv /\ Surete
    BY TypeInit, SureteInit DEF MCInit
  <2>2. /\ \A p \in Requetes : requete[p] = Repos
        /\ \A d \in Dem : demande[d].etat = "absente" /\ soutien[d] = [x \in Personnes |-> Aucun]
    BY DEF MCInit, Init, Absente
  <2>3. Suite
    BY <2>2 DEF Suite, Seule
  <2>4. AuxConditions
    BY <2>2 DEF AuxConditions, Soutiens
  <2>5. UnSeulGarant
    BY <2>2, AucunAssumption, RolesAssumption DEF UnSeulGarant
  <2> QED
    BY <2>1, <2>3, <2>4, <2>5 DEF InvSerie, Serie
<1>2. InvSerie /\ [MCNext]_MCvars => InvSerie'
  <2> SUFFICES ASSUME InvSerie, [MCNext]_MCvars PROVE InvSerie'
    OBVIOUS
  <2>1. TypeInv /\ Surete /\ (scenario = "serie" => Suite /\ AuxConditions /\ UnSeulGarant)
    BY DEF InvSerie, Serie
  <2>2. TypeInv' /\ Surete'
    BY <2>1, TypeNext, SureteNext DEF MCNext, MCvars
  <2>3. CASE UNCHANGED MCvars
    <3>1. UNCHANGED <<demande, soutien, requete, scenario>>
      BY <2>3 DEF MCvars, vars
    <3>2. Suite => Suite'
      BY <3>1 DEF Suite, Seule, ALaPage, Soutenante, Avec
    <3>3. AuxConditions /\ UnSeulGarant => AuxConditions' /\ UnSeulGarant'
      BY <3>1 DEF AuxConditions, UnSeulGarant
    <3> QED
      BY <2>1, <2>2, <3>1, <3>2, <3>3 DEF InvSerie, Serie
  <2>4. CASE MCNext /\ scenario = "serie"
    <3>1. Next /\ Suivie
      BY <2>4 DEF MCNext
    <3> QED
      BY <2>1, <2>2, <2>4, <3>1, SuiteEtape, ConditionsEtape DEF InvSerie, Serie
  <2>5. CASE MCNext /\ scenario # "serie"
    BY <2>2, <2>5 DEF MCNext, InvSerie, Serie
  <2> QED
    BY <2>3, <2>4, <2>5
<1> QED
  BY <1>1, <1>2, PTL DEF MCSpec, MCvars

\* docs/collectif.md, "409 si second garant": with any number of people, the
\* check that soutenir makes before its commit is enough when requests follow
\* one another.
THEOREM UnSeulGarantUnParUn == MCSpec => []UnSeulGarantEnSerie
<1>1. InvSerie => UnSeulGarantEnSerie
  BY DEF InvSerie, Serie, UnSeulGarantEnSerie
<1> QED
  BY <1>1, InvarianceSerie, PTL

\* A step of one request at a time leaves in the journal the change it makes.
LEMMA PasJuste ==
    ASSUME TypeInv, Surete, Suite, Next
    PROVE  EvenementJuste
<1>1. CASE Creation
  <2>1. PICK d \in Dem, contact \in BOOLEAN : CreerDemande(d, contact)
    BY <1>1 DEF Creation
  <2> DEFINE f == [Absente EXCEPT !.etat = "ouverte", !.contact = contact]
  <2>2. f.etat = "ouverte"
    BY DEF Absente
  <2>3. /\ demande' = [demande EXCEPT ![d] = f] /\ demande[d].etat = "absente"
        /\ journal' = [journal EXCEPT ![d] = [de |-> "absente", vers |-> "ouverte"]]
    BY <2>1 DEF CreerDemande, Existe
  <2> HIDE DEF f
  <2> QED
    BY <2>2, <2>3 DEF EvenementJuste, TypeInv, TypeOK
<1>2. CASE Soutien \/ Fin \/ Livraison \/ \E p \in Requetes : Abandonner(p)
  BY <1>2, SansValider DEF EvenementJuste
<1>3. CASE Retrait
  BY <1>3, RetraitPas DEF EvenementJuste
<1>4. ASSUME NEW p \in Requetes, Valider(p)
      PROVE  EvenementJuste
  <2> DEFINE r == requete[p]
  <2> SUFFICES ASSUME NEW d \in Dem
               PROVE  LET pas == [de |-> demande[d].etat, vers |-> demande'[d].etat]
                      IN  /\ pas.de # pas.vers => journal'[d] = pas
                          /\ journal'[d] # journal[d] => journal'[d] = pas
    BY DEF EvenementJuste
  <2>1. r # Repos /\ r.evts \subseteq DOMAIN r.lu
    BY <1>4, EtapeValider DEF TypeInv, Formes, Forme
  <2>2. /\ ALaPage(r)
        /\ d \notin DOMAIN r.lu => demande'[d] = demande[d]
        /\ d \in DOMAIN r.lu => demande'[d].etat = r.voulu[d].etat
    BY <1>4, ValiderSerie
  <2>3. d \in DOMAIN r.lu => r.voulu[d].etat = r.lu[d].etat \/ d \in r.evts
    BY <2>1 DEF Surete, Prudence, Prudente
  <2>4. journal'[d] = IF d \in r.evts THEN [de |-> r.lu[d].etat, vers |-> r.voulu[d].etat]
                      ELSE journal[d]
    BY <1>4 DEF Valider
  <2> HIDE DEF r
  <2> QED
    BY <2>1, <2>2, <2>3, <2>4 DEF ALaPage
<1>5. CASE \E d \in Dem : DelaiPasse(d)
  <2>1. journal' = journal /\ \A e \in Dem : demande'[e].etat = demande[e].etat
    BY <1>5 DEF DelaiPasse, TypeInv, TypeOK, Fiche
  <2> QED
    BY <2>1 DEF EvenementJuste
<1> QED
  BY <1>1, <1>2, <1>3, <1>4, <1>5 DEF Next, Issue

\* journal.py, "un geste sans trace n'a pas eu lieu": when requests follow one
\* another each event starts from the state the row had, without a gap.
THEOREM JournalFideleUnParUn == MCSpec => JournalFideleEnSerie
<1> DEFINE Pas == scenario = "serie" => EvenementJuste
<1>1. InvSerie /\ [MCNext]_MCvars => [Pas]_MCvars
  BY PasJuste DEF InvSerie, Serie, MCNext
<1>2. MCSpec => [][Pas]_MCvars
  BY <1>1, InvarianceSerie, PTL DEF MCSpec, MCvars
<1> QED
  BY <1>2 DEF JournalFideleEnSerie, MCvars

-----------------------------------------------------------------------------
(* The refinement, one request at a time.                                  *)

\* The promise, seen in the tables themselves.
Vue == INSTANCE CycleDemande WITH
         etat     <- [d \in Dem |-> demande[d].etat],
         appui    <- [d \in Dem |-> AtteintLeChantier(soutien[d])],
         courriel <- [d \in Dem |-> demande[d].contact]

LEMMA CreationPromise == ASSUME TypeInv, Creation PROVE Vue!Next
<1>1. PICK d \in Dem, contact \in BOOLEAN : CreerDemande(d, contact)
  BY DEF Creation
<1> DEFINE f == [Absente EXCEPT !.etat = "ouverte", !.contact = contact]
<1>2. f.etat = "ouverte" /\ f.contact = contact
  BY DEF Absente
<1>3. demande' = [demande EXCEPT ![d] = f] /\ demande[d].etat = "absente" /\ soutien' = soutien
  BY <1>1 DEF CreerDemande, Existe
<1> HIDE DEF f
<1>4. Vue!Deposer(d)
  BY <1>2, <1>3 DEF Vue!Deposer, TypeInv, TypeOK
<1> QED
  BY <1>4 DEF Vue!Next

LEMMA RetraitPromis == ASSUME TypeInv, AuxConditions, Retrait PROVE [Vue!Next]_(Vue!vars)
<1>1. /\ demande' = demande
      /\ \A e \in Dem : /\ Soutiens(soutien'[e]) \subseteq Soutiens(soutien[e])
                        /\ \A x \in Personnes : soutien'[e][x] \in {soutien[e][x], Aucun}
  BY RetraitPas
<1>2. PICK d \in Dem : Existe(d) /\ \A e \in Dem \ {d} : soutien'[e] = soutien[e]
  BY RetraitPas
<1>3. AtteintLeChantier(soutien'[d]) => AtteintLeChantier(soutien[d])
  <2>1. AGarant(soutien'[d]) => AGarant(soutien[d])
    BY <1>1, AucunAssumption, RolesAssumption DEF AGarant
  <2> QED
    BY <1>1, <2>1, AtteintMoins
<1>4. /\ AtteintLeChantier(soutien[d]) \in BOOLEAN
      /\ AtteintLeChantier(soutien'[d]) \in BOOLEAN
      /\ \A e \in Dem \ {d} : AtteintLeChantier(soutien'[e]) = AtteintLeChantier(soutien[e])
  BY <1>2 DEF AtteintLeChantier
<1>5. demande[d].etat \in {"ouverte", "chantier", "a_confirmer"} \cup Finies
  BY <1>2 DEF Existe, TypeInv, TypeOK, Fiche, ETATS_DEMANDE, Finies
<1>6. CASE demande[d].etat \in {"ouverte", "chantier", "a_confirmer"}
  <2>1. demande[d].etat = "ouverte" => ~AtteintLeChantier(soutien'[d])
    BY <1>3 DEF AuxConditions
  <2>2. Vue!Appuyer(d)
    BY <1>1, <1>4, <1>6, <2>1 DEF Vue!Appuyer
  <2> QED
    BY <2>2 DEF Vue!Next
<1>7. CASE demande[d].etat \in Finies /\ ~AtteintLeChantier(soutien'[d])
  <2>1. Vue!Desister(d)
    BY <1>1, <1>4, <1>7 DEF Vue!Desister, Finies, Vue!Finies
  <2> QED
    BY <2>1 DEF Vue!Next
<1>8. CASE AtteintLeChantier(soutien'[d])
  BY <1>1, <1>3, <1>4, <1>8 DEF Vue!vars
<1> QED
  BY <1>5, <1>6, <1>7, <1>8

LEMMA CommitPromis ==
    ASSUME TypeInv, Surete, Suite, AuxConditions, NEW p \in Requetes, Valider(p)
    PROVE  [Vue!Next]_(Vue!vars)
<1> DEFINE r == requete[p]
           s == r.pose
<1>1. /\ ALaPage(r) /\ r.etape = "valider" /\ DOMAIN r.lu \subseteq Dem
      /\ \A d \in Dem \ DOMAIN r.lu : demande'[d] = demande[d]
      /\ \A d \in DOMAIN r.lu : /\ demande'[d].etat = r.voulu[d].etat
                                /\ demande'[d].contact = r.voulu[d].contact
                                /\ demande[d].etat # "absente"
      /\ Soutenante(r) => soutien' = [soutien EXCEPT ![s.dem] = Avec(s)]
      /\ Autre(r) => soutien' = soutien
  BY ValiderSerie
<1>2. Soutenante(r) \/ Autre(r)
  BY ValiderSerie
<1>3. \A d \in Dem : demande[d].contact \in BOOLEAN
  BY DEF TypeInv, TypeOK, Fiche
<1>4. \A d \in DOMAIN r.lu : /\ demande[d].etat = r.lu[d].etat
                             /\ demande[d].contact = r.lu[d].contact
  BY <1>1 DEF ALaPage
<1>5. CASE Soutenante(r)
  <2>0. PICK d \in Dem : d = s.dem
    BY <1>5 DEF Soutenante, Pose
  <2>1. /\ DOMAIN r.lu = {d}
        /\ r.lu[d].etat \in {"ouverte", "chantier", "a_confirmer"}
        /\ r.voulu[d].contact = r.lu[d].contact
        /\ r.voulu[d].etat = IF r.lu[d].etat = "ouverte" /\ AtteintLeChantier(Avec(s))
                             THEN "chantier" ELSE r.lu[d].etat
    BY <1>1, <1>5, <2>0 DEF Soutenante
  <2>2. soutien'[d] = Avec(s) /\ \A e \in Dem \ {d} : soutien'[e] = soutien[e]
    BY <1>1, <1>5, <2>0 DEF TypeInv, TypeOK
  <2>3. AtteintLeChantier(Avec(s)) \in BOOLEAN
    BY DEF AtteintLeChantier
  <2> HIDE DEF r, s
  <2>4. /\ demande[d].etat \in {"ouverte", "chantier", "a_confirmer"}
        /\ demande'[d].etat = IF demande[d].etat = "ouverte" /\ AtteintLeChantier(Avec(s))
                              THEN "chantier" ELSE demande[d].etat
        /\ \A e \in Dem \ {d} : demande'[e] = demande[e]
        /\ \A e \in Dem : demande'[e].contact = demande[e].contact
    BY <1>1, <1>4, <2>1
  <2>5. Vue!Appuyer(d)
    BY <2>2, <2>3, <2>4 DEF Vue!Appuyer
  <2> QED
    BY <2>5 DEF Vue!Next
<1>6. CASE Autre(r)
  <2>0. soutien' = soutien
    BY <1>1, <1>6
  <2>1. ASSUME NEW fin \in Finies, Finit(r, fin) PROVE Vue!Next
    <3> DEFINE S == DOMAIN r.lu
    <3>1. S \in SUBSET Dem /\ fin \in Vue!Finies
      BY <1>1 DEF Finies, Vue!Finies
    <3>2. \A d \in S : /\ demande'[d].etat = fin /\ ~demande'[d].contact
                       /\ fin = "realisee" => demande[d].etat = "a_confirmer"
                       /\ demande[d].etat # "absente"
      BY <1>1, <1>4, <2>1 DEF Finit
    <3>3. \A d \in S : demande'[d].contact = FALSE
      <4>1. TypeInv'
        BY TypeNext DEF Next, Issue
      <4> QED
        BY <3>1, <3>2, <4>1 DEF TypeInv, TypeOK, Fiche
    <3>4. \A d \in Dem \ S : demande'[d] = demande[d]
      BY <1>1
    <3> HIDE DEF S, r
    <3>5. Vue!Terminer(S, fin)
      BY <1>3, <2>0, <3>1, <3>2, <3>3, <3>4 DEF Vue!Terminer
    <3> QED
      BY <3>1, <3>5 DEF Vue!Next
  <2>2. CASE Passe(r)
    <3>1. PICK d \in DOMAIN r.lu :
            /\ DOMAIN r.lu = {d} /\ r.voulu[d].contact = r.lu[d].contact
            /\ \/ r.lu[d].etat = "a_confirmer" /\ r.voulu[d].etat = "chantier"
               \/ r.lu[d].etat \in {"ouverte", "chantier"} /\ r.voulu[d].etat = "a_confirmer"
      BY <2>2 DEF Passe
    <3> HIDE DEF r
    <3>2. /\ d \in Dem
          /\ \A e \in Dem \ {d} : demande'[e] = demande[e]
          /\ \A e \in Dem : demande'[e].contact = demande[e].contact
          /\ \/ demande[d].etat = "a_confirmer" /\ demande'[d].etat = "chantier"
             \/ demande[d].etat \in {"ouverte", "chantier"} /\ demande'[d].etat = "a_confirmer"
      BY <1>1, <1>4, <3>1
    <3>3. CASE demande[d].etat = "a_confirmer" /\ demande'[d].etat = "chantier"
      <4>1. Vue!Reprendre(d)
        BY <2>0, <3>2, <3>3 DEF Vue!Reprendre
      <4> QED
        BY <3>2, <4>1 DEF Vue!Next
    <3>4. CASE demande[d].etat \in {"ouverte", "chantier"} /\ demande'[d].etat = "a_confirmer"
      <4>1. Vue!Livrer(d)
        BY <2>0, <3>2, <3>4 DEF Vue!Livrer
      <4> QED
        BY <3>2, <4>1 DEF Vue!Next
    <3> QED
      BY <3>2, <3>3, <3>4
  <2>3. CASE Laisse(r)
    <3>1. \A d \in Dem : /\ demande'[d].etat = demande[d].etat
                         /\ demande'[d].contact = demande[d].contact
      BY <1>1, <1>4, <2>3 DEF Laisse
    <3> HIDE DEF r
    <3> QED
      BY <2>0, <3>1 DEF Vue!vars
  <2> QED
    BY <1>6, <2>1, <2>2, <2>3 DEF Autre
<1> QED
  BY <1>2, <1>5, <1>6

\* Every step of the tables is a step of the promise, or none.
LEMMA PasPromis ==
    ASSUME TypeInv, Surete, Suite, AuxConditions, Next
    PROVE  [Vue!Next]_(Vue!vars)
<1>1. CASE Soutien \/ Fin \/ Livraison \/ \E p \in Requetes : Abandonner(p)
  BY <1>1, SansValider DEF Vue!vars
<1>2. CASE \E d \in Dem : DelaiPasse(d)
  <2>1. /\ soutien' = soutien
        /\ \A e \in Dem : /\ demande'[e].etat = demande[e].etat
                          /\ demande'[e].contact = demande[e].contact
    BY <1>2 DEF DelaiPasse, TypeInv, TypeOK, Fiche
  <2> QED
    BY <2>1 DEF Vue!vars
<1> QED
  BY <1>1, <1>2, CreationPromise, RetraitPromis, CommitPromis DEF Next, Issue

\* Where requests follow one another, the views of the two instances agree.
LEMMA MemeVue ==
    ASSUME scenario = "serie", scenario' = scenario, [Vue!Next]_(Vue!vars)
    PROVE  [Promis!Next]_(Promis!vars)
<1>1. CASE UNCHANGED Vue!vars
  BY <1>1 DEF Vue!vars, Promis!vars, EnSerie
<1>2. ASSUME NEW d \in Dem, Vue!Deposer(d) PROVE Promis!Next
  <2>1. Promis!Deposer(d)
    BY <1>2 DEF Vue!Deposer, Promis!Deposer, EnSerie
  <2> QED
    BY <2>1 DEF Promis!Next
<1>3. ASSUME NEW d \in Dem, Vue!Appuyer(d) PROVE Promis!Next
  <2>1. Promis!Appuyer(d)
    BY <1>3 DEF Vue!Appuyer, Promis!Appuyer, EnSerie
  <2> QED
    BY <2>1 DEF Promis!Next
<1>4. ASSUME NEW d \in Dem, Vue!Desister(d) PROVE Promis!Next
  <2>1. Promis!Desister(d)
    BY <1>4 DEF Vue!Desister, Promis!Desister, Vue!Finies, Promis!Finies, EnSerie
  <2> QED
    BY <2>1 DEF Promis!Next
<1>5. ASSUME NEW d \in Dem, Vue!Livrer(d) PROVE Promis!Next
  <2>1. Promis!Livrer(d)
    BY <1>5 DEF Vue!Livrer, Promis!Livrer, EnSerie
  <2> QED
    BY <2>1 DEF Promis!Next
<1>6. ASSUME NEW d \in Dem, Vue!Reprendre(d) PROVE Promis!Next
  <2>1. Promis!Reprendre(d)
    BY <1>6 DEF Vue!Reprendre, Promis!Reprendre, EnSerie
  <2> QED
    BY <2>1 DEF Promis!Next
<1>7. ASSUME NEW S \in SUBSET Dem, NEW fin \in Vue!Finies, Vue!Terminer(S, fin)
      PROVE  Promis!Next
  <2>1. Promis!Terminer(S, fin) /\ fin \in Promis!Finies
    BY <1>7 DEF Vue!Terminer, Promis!Terminer, Vue!Finies, Promis!Finies, EnSerie
  <2> QED
    BY <2>1 DEF Promis!Next
<1> QED
  BY <1>1, <1>2, <1>3, <1>4, <1>5, <1>6, <1>7 DEF Vue!Next

\* One request at a time, the tables implement the life cycle of
\* docs/collectif.md: each commit is one of its steps, or none.
THEOREM CyclePromisUnParUn == MCSpec => CyclePromisEnSerie
<1>1. MCInit => Promis!Init
  <2> SUFFICES ASSUME MCInit PROVE Promis!Init
    OBVIOUS
  <2>1. \A d \in Dem : /\ demande[d].etat = "absente" /\ demande[d].contact = FALSE
                       /\ soutien[d] = [x \in Personnes |-> Aucun]
    BY DEF MCInit, Init, Absente
  <2>2. \A d \in Dem : AtteintLeChantier(soutien[d]) = FALSE
    BY <2>1, AucunAssumption, RolesAssumption DEF AtteintLeChantier, AGarant
  <2> QED
    BY <2>1, <2>2 DEF Promis!Init, EnSerie
<1>2. InvSerie /\ [MCNext]_MCvars => [Promis!Next]_(Promis!vars)
  <2> SUFFICES ASSUME InvSerie, [MCNext]_MCvars PROVE [Promis!Next]_(Promis!vars)
    OBVIOUS
  <2>1. CASE UNCHANGED MCvars
    BY <2>1 DEF MCvars, vars, Promis!vars, EnSerie, AtteintLeChantier, AGarant, Soutiens
  <2>2. CASE MCNext /\ scenario = "serie"
    <3>1. TypeInv /\ Surete /\ Suite /\ AuxConditions /\ Next /\ scenario' = scenario
      BY <2>2 DEF MCNext, InvSerie, Serie
    <3> QED
      BY <2>2, <3>1, PasPromis, MemeVue
  <2>3. CASE MCNext /\ scenario # "serie"
    BY <2>3 DEF MCNext, Promis!vars, EnSerie
  <2> QED
    BY <2>1, <2>2, <2>3
<1> QED
  BY <1>1, <1>2, InvarianceSerie, PTL DEF MCSpec, MCvars, CyclePromisEnSerie, Promis!Spec

=============================================================================
