--------------------------- MODULE Amorces_proofs ---------------------------
(***************************************************************************)
(* What the imports of an amorce leave, however many overlap, fail or are  *)
(* stopped: what is known was sent, what is said imported is known, and an *)
(* import that downloads everything leaves no older cutting behind.  All   *)
(* three rest on what an import in flight holds: what it has sent, what it *)
(* will note, and that a purge is alone as long as none has met another.   *)
(***************************************************************************)
EXTENDS Amorces, TLAPS

\* The months whose document has a row.
Connus == {m \in Mois : connus[m] # 0}

\* An import has sent nothing before it has downloaded, empties only what it
\* was asked to purge, and a purge starts from no month done.
Ordonne(r) ==
    /\ r.etape \in {"repos", "marquer", "vider", "oublier", "lancer", "telecharger"}
          => r.envoyes = {}
    /\ r.etape \in {"vider", "oublier"} => r.zero
    /\ r.zero => r.deja = {}

\* What it has to send or has sent was published by the source.
Paru(r) == r.reste \cup r.envoyes \subseteq paru

\* What it has sent is searchable, or OpenRAG refused it.
Envoye(r) == \A m \in r.envoyes : <<m, decoupage>> \in index \cup refuses

\* The months it will say done are known, or will be with those it sends.
Acquis(r) ==
    /\ r.deja \subseteq Connus
    /\ r.etape = "envoyer" => r.faits \subseteq Connus \cup r.reste \cup r.envoyes
    /\ r.etape \in {"couvrir", "terminer"} => r.faits \subseteq Connus
    /\ r.etape = "terminer" /\ r.zero => couverture = r.deja \cup r.faits

\* An import that downloads everything has sent, or will, each document cut
\* by an older release, and has noted them all once it has noted.
Repasse(r) ==
    /\ r.etape = "envoyer" =>
          \A m \in Mois : connus[m] \in {0, decoupage} \/ m \in r.reste \cup r.envoyes
    /\ r.etape \in {"couvrir", "terminer"} => \A m \in Mois : connus[m] \in {0, decoupage}

\* No purge has met another import, yet.
PurgesSeules == "chevauchee" \notin accrocs

\* A purge in flight is alone.
Seules == \A i, k \in EnVol : import[i].zero => k = i

\* No purge in flight has erased anything yet.
RienEfface == \A i \in EnVol : import[i].zero => import[i].etape \in {"marquer", "vider"}

Ordonnes == \A i \in Imports : Ordonne(import[i])

Parus == Connus \subseteq paru /\ \A i \in Imports : Paru(import[i])

Envoyes == PurgesSeules => Seules /\ \A i \in Imports : Envoye(import[i])

Faits == accrocs = {} => /\ RienEfface => amorce.faits \cup couverture \subseteq Connus
                         /\ \A i \in Imports : Acquis(import[i])

Repasses == ~memoire => \A i \in Imports : Repasse(import[i])

Inv == TypeOK /\ Ordonnes /\ Parus /\ Envoyes /\ ConnuServi /\ Faits /\ Repasses

-----------------------------------------------------------------------------
(* Types.                                                                  *)

LEMMA ReposType == Repos \in ImportEnVol /\ Repos.etape = "repos" /\ Ordonne(Repos)
BY DEF Repos, ImportEnVol, Etapes, Ordonne

LEMMA AccrocType ==
    ASSUME NEW i \in Imports
    PROVE  Accroc(i) \subseteq {"coupee", "sans_suite"}
BY DEF Accroc

\* An import that begins.
LEMMA CommencerPas ==
    ASSUME TypeOK, NEW i \in Imports, Demande(i)
    PROVE  \E r \in ImportEnVol :
              /\ import' = [import EXCEPT ![i] = r]
              /\ r.etape = "marquer" /\ r.deja = {} /\ r.reste = {} /\ r.envoyes = {}
              /\ import[i] = Repos
              /\ accrocs' = accrocs \cup
                   (IF EnVol # {} /\ (r.zero \/ \E k \in EnVol : import[k].zero)
                    THEN {"chevauchee"} ELSE {})
<1>1. PICK purger \in BOOLEAN : Commencer(i, purger)
  BY DEF Demande, Importer, Jouer
<1> DEFINE r == [Repos EXCEPT !.etape = "marquer", !.zero = purger]
<1>2. /\ r \in ImportEnVol /\ r.etape = "marquer" /\ r.deja = {} /\ r.reste = {}
      /\ r.envoyes = {} /\ r.zero = purger
  BY DEF Repos, ImportEnVol, Etapes
<1>3. import' = [import EXCEPT ![i] = r] /\ import[i] = Repos
  BY <1>1 DEF Commencer
<1> HIDE DEF r
<1> QED
  BY <1>1, <1>2, <1>3 DEF Commencer

\* An import that has downloaded: what it takes in, and what it will send.
LEMMA TelechargerPas ==
    ASSUME TypeOK, NEW i \in Imports, Telecharger(i)
    PROVE  \E r \in ImportEnVol :
              /\ import' = [import EXCEPT ![i] = r]
              /\ r.etape = "envoyer" /\ r.zero = import[i].zero
              /\ r.deja = import[i].deja /\ r.envoyes = import[i].envoyes
              /\ r.faits \subseteq paru /\ (~memoire => r.faits = Mois \cap paru)
              /\ r.reste = {m \in r.faits : connus[m] # decoupage}
<1> DEFINE a_faire == IF memoire THEN Premiers(Mois \ import[i].deja, MaxParRun) ELSE Mois
           lot == a_faire \cap paru
           lus == {m \in lot : connus[m] \notin {0, decoupage}}
           reste == {m \in lot : connus[m] # decoupage}
           r == [import[i] EXCEPT !.etape = "envoyer", !.faits = lot, !.lus = lus,
                                  !.reste = reste]
<1>1. import[i] \in ImportEnVol /\ import \in [Imports -> ImportEnVol]
  BY DEF TypeOK
<1>2. lot \subseteq Mois /\ lot \subseteq paru /\ (~memoire => lot = Mois \cap paru)
  BY DEF Premiers, TypeOK
<1>3. lus \subseteq Mois /\ reste \subseteq Mois
  BY <1>2
<1>4. import' = [import EXCEPT ![i] = r]
  BY <1>1 DEF Telecharger
<1>5. reste = {m \in lot : connus[m] # decoupage}
  OBVIOUS
<1> HIDE DEF lot, lus, reste
<1>6. r \in ImportEnVol
  BY <1>1, <1>2, <1>3 DEF ImportEnVol, Etapes
<1>7. /\ r.etape = "envoyer" /\ r.zero = import[i].zero /\ r.deja = import[i].deja
      /\ r.envoyes = import[i].envoyes /\ r.faits = lot /\ r.reste = reste
  BY <1>1 DEF ImportEnVol
<1> QED
  BY <1>2, <1>4, <1>5, <1>6, <1>7

\* An import that has sent a document, or has had it refused.
LEMMA EnvoyerPas ==
    ASSUME TypeOK, NEW i \in Imports, Envoyer(i)
    PROVE  \E r \in ImportEnVol, m \in import[i].reste :
              /\ import' = [import EXCEPT ![i] = r]
              /\ r.etape = "envoyer" /\ r.zero = import[i].zero
              /\ r.deja = import[i].deja /\ r.faits = import[i].faits
              /\ r.reste = import[i].reste \ {m} /\ r.envoyes = import[i].envoyes \cup {m}
              /\ \/ index' = index \cup {<<m, decoupage>>} /\ refuses' = refuses
                 \/ index' = index /\ refuses' = refuses \cup {<<m, decoupage>>}
<1>1. PICK m \in import[i].reste :
        /\ import' = [import EXCEPT ![i].reste = @ \ {m}, ![i].envoyes = @ \cup {m}]
        /\ \/ index' = index \cup {<<m, decoupage>>} /\ refuses' = refuses
           \/ index' = index /\ refuses' = refuses \cup {<<m, decoupage>>}
  BY DEF Envoyer
<1> DEFINE reste == import[i].reste \ {m}
           envoyes == import[i].envoyes \cup {m}
           r == [import[i] EXCEPT !.reste = reste, !.envoyes = envoyes]
<1>2. import[i] \in ImportEnVol /\ import \in [Imports -> ImportEnVol]
      /\ import[i].etape = "envoyer"
  BY DEF TypeOK, Envoyer
<1>3. reste \subseteq Mois /\ envoyes \subseteq Mois
  BY <1>2 DEF ImportEnVol
<1>4. import' = [import EXCEPT ![i] = r]
  BY <1>1, <1>2
<1>5. reste = import[i].reste \ {m} /\ envoyes = import[i].envoyes \cup {m}
  OBVIOUS
<1> HIDE DEF reste, envoyes
<1>6. r \in ImportEnVol
  BY <1>2, <1>3 DEF ImportEnVol
<1>7. /\ r.etape = "envoyer" /\ r.zero = import[i].zero /\ r.deja = import[i].deja
      /\ r.faits = import[i].faits /\ r.reste = reste /\ r.envoyes = envoyes
  BY <1>2 DEF ImportEnVol
<1> QED
  BY <1>1, <1>4, <1>5, <1>6, <1>7

\* The other steps, but the last: an import goes on with what it has.
LEMMA AutrePas ==
    ASSUME TypeOK, NEW i \in Imports,
           \/ Marquer(i) \/ Vider(i) \/ Oublier(i) \/ Lancer(i)
           \/ Noter(i) \/ Couvrir(i) \/ Lever(i)
    PROVE  \E r \in ImportEnVol :
              /\ import' = [import EXCEPT ![i] = r]
              /\ r.zero = import[i].zero /\ r.faits = import[i].faits
              /\ r.reste = import[i].reste /\ r.envoyes = import[i].envoyes
              /\ r.deja = IF import[i].etape # "lancer" THEN import[i].deja
                          ELSE IF memoire /\ ~import[i].zero THEN amorce.faits ELSE {}
              /\ r.etape \notin {"repos", "envoyer"}
              /\ r.etape = "couvrir" =>
                    /\ import[i].etape = "envoyer" /\ import[i].reste = {}
                    /\ connus' = [m \in Mois |-> IF m \in import[i].envoyes THEN decoupage
                                                 ELSE connus[m]]
              /\ r.etape = "terminer" => Couvrir(i)
<1>1. import[i] \in ImportEnVol /\ import \in [Imports -> ImportEnVol]
      /\ amorce.faits \subseteq Mois
  BY DEF TypeOK
<1>2. ASSUME NEW e \in Etapes, Va(i, e), import[i].etape # "lancer"
      PROVE  \E r \in ImportEnVol :
                /\ import' = [import EXCEPT ![i] = r] /\ r.etape = e
                /\ r.zero = import[i].zero /\ r.faits = import[i].faits
                /\ r.reste = import[i].reste /\ r.envoyes = import[i].envoyes
                /\ r.deja = import[i].deja
  <2> DEFINE r == [import[i] EXCEPT !.etape = e]
  <2>1. r \in ImportEnVol /\ import' = [import EXCEPT ![i] = r]
    BY <1>1, <1>2 DEF Va, ImportEnVol
  <2>2. /\ r.zero = import[i].zero /\ r.faits = import[i].faits /\ r.etape = e
        /\ r.reste = import[i].reste /\ r.envoyes = import[i].envoyes
        /\ r.deja = import[i].deja
    BY <1>1 DEF ImportEnVol
  <2> QED
    BY <2>1, <2>2
<1>3. CASE Lancer(i)
  <2> DEFINE deja == IF memoire /\ ~import[i].zero THEN amorce.faits ELSE {}
             r == [import[i] EXCEPT !.etape = "telecharger", !.deja = deja]
  <2>1. deja \subseteq Mois
    BY <1>1
  <2>2. import' = [import EXCEPT ![i] = r] /\ import[i].etape = "lancer"
    BY <1>1, <1>3 DEF Lancer
  <2> HIDE DEF deja
  <2>3. r \in ImportEnVol
    BY <1>1, <2>1 DEF ImportEnVol, Etapes
  <2>4. /\ r.zero = import[i].zero /\ r.faits = import[i].faits /\ r.etape = "telecharger"
        /\ r.reste = import[i].reste /\ r.envoyes = import[i].envoyes
        /\ r.deja = deja
    BY <1>1 DEF ImportEnVol
  <2> QED
    BY <1>3, <2>2, <2>3, <2>4 DEF deja
<1>4. CASE \/ Marquer(i) \/ Vider(i) \/ Oublier(i) \/ Noter(i) \/ Couvrir(i) \/ Lever(i)
  <2>1. PICK e \in Etapes :
          /\ Va(i, e) /\ import[i].etape # "lancer" /\ e # "envoyer"
          /\ e = "couvrir" =>
                /\ import[i].etape = "envoyer" /\ import[i].reste = {}
                /\ connus' = [m \in Mois |-> IF m \in import[i].envoyes THEN decoupage
                                             ELSE connus[m]]
          /\ e = "terminer" => Couvrir(i)
    BY <1>4 DEF Marquer, Vider, Oublier, Noter, Couvrir, Lever, Etapes
  <2>2. PICK r \in ImportEnVol :
          /\ import' = [import EXCEPT ![i] = r] /\ r.etape = e
          /\ r.zero = import[i].zero /\ r.faits = import[i].faits
          /\ r.reste = import[i].reste /\ r.envoyes = import[i].envoyes
          /\ r.deja = import[i].deja
    BY <1>2, <2>1
  <2> QED
    BY <2>1, <2>2 DEF Etapes
<1> QED
  BY <1>3, <1>4

\* The steps that a whole demand or execution is made of.
LEMMA TypeGarde ==
    ASSUME MaxVersion \in Nat \ {0}, TypeOK, NEW i \in Imports,
           Demande(i) \/ Execution(i) \/ Rompre(i) \/ Lever(i)
    PROVE  TypeOK'
<1>1. import[i] \in ImportEnVol /\ decoupage \in Versions /\ 0 \notin Versions
  BY DEF TypeOK, Versions
<1>2. CASE Demande(i)
  <2>1. import' \in [Imports -> ImportEnVol]
    BY <1>2, CommencerPas DEF TypeOK
  <2> QED
    BY <1>2, <2>1 DEF Demande, Importer, Jouer, Commencer, TypeOK
<1>3. CASE Marquer(i)
  BY <1>1, <1>3 DEF Marquer, Va, TypeOK, ImportEnVol, Etapes, ETATS_IMPORT_AMORCE
<1>4. CASE Vider(i)
  BY <1>1, <1>4 DEF Vider, Va, TypeOK, ImportEnVol, Etapes
<1>5. CASE Oublier(i)
  BY <1>1, <1>5 DEF Oublier, Va, TypeOK, ImportEnVol, Etapes
<1>6. CASE Lancer(i)
  BY <1>1, <1>6 DEF Lancer, TypeOK, ImportEnVol, Etapes
<1>7. CASE Telecharger(i)
  <2>1. import' \in [Imports -> ImportEnVol]
    BY <1>7, TelechargerPas DEF TypeOK
  <2> QED
    BY <1>7, <2>1 DEF Telecharger, TypeOK
<1>8. CASE Envoyer(i)
  <2>1. PICK r \in ImportEnVol : \E m \in import[i].reste :
          /\ import' = [import EXCEPT ![i] = r]
          /\ index' \cup refuses' \subseteq index \cup refuses \cup {<<m, decoupage>>}
    BY <1>8, EnvoyerPas
  <2>2. import' \in [Imports -> ImportEnVol]
    BY <2>1 DEF TypeOK
  <2>3. index' \cup refuses' \subseteq Mois \X Versions
    BY <1>1, <2>1 DEF TypeOK, ImportEnVol
  <2> QED
    BY <1>8, <2>2, <2>3 DEF Envoyer, TypeOK
<1>9. CASE Noter(i)
  BY <1>1, <1>9 DEF Noter, Va, TypeOK, ImportEnVol, Etapes
<1>10. CASE Echouer(i)
  BY <1>1, <1>10, AccrocType, ReposType DEF Echouer, TypeOK, ETATS_IMPORT_AMORCE
<1>11. CASE Couvrir(i)
  BY <1>1, <1>11 DEF Couvrir, Va, Resultat, TypeOK, ImportEnVol, Etapes
<1>12. CASE Terminer(i)
  BY <1>1, <1>12, ReposType DEF Terminer, Resultat, TypeOK, ImportEnVol, ETATS_IMPORT_AMORCE
<1>13. CASE Rompre(i)
  BY <1>1, <1>13, AccrocType, ReposType DEF Rompre, TypeOK
<1>14. CASE Lever(i)
  BY <1>1, <1>14 DEF Lever, Va, TypeOK, ImportEnVol, Etapes
<1> QED
  BY <1>2, <1>3, <1>4, <1>5, <1>6, <1>7, <1>8, <1>9, <1>10, <1>11, <1>12, <1>13, <1>14
     DEF Execution

LEMMA TypeMonde ==
    ASSUME MaxVersion \in Nat \ {0}, TypeOK, (\E m \in Mois : Paraitre(m)) \/ Redemarrer
    PROVE  TypeOK'
<1>1. CASE \E m \in Mois : Paraitre(m)
  BY <1>1 DEF Paraitre, TypeOK
<1>2. CASE Redemarrer
  <2>1. \A i \in EnVol : Accroc(i) \subseteq {"coupee", "sans_suite"}
    BY AccrocType DEF EnVol
  <2> DEFINE fins == UNION {Accroc(i) : i \in EnVol}
  <2>2. fins \subseteq {"coupee", "sans_suite"}
    BY <2>1, Zenon
  <2>3. accrocs' = accrocs \cup fins
    BY <1>2 DEF Redemarrer
  <2> HIDE DEF fins
  <2>4. accrocs' \subseteq {"chevauchee", "coupee", "sans_suite"}
    BY <2>2, <2>3 DEF TypeOK
  <2>5. import' \in [Imports -> ImportEnVol]
    BY <1>2, ReposType DEF Redemarrer
  <2>6. decoupage' \in Versions
    BY <1>2 DEF Redemarrer, Versions
  <2> QED
    BY <1>2, <2>4, <2>5, <2>6 DEF Redemarrer, TypeOK
<1> QED
  BY <1>1, <1>2

-----------------------------------------------------------------------------
(* What an import holds.                                                   *)

LEMMA OrdonneGarde ==
    ASSUME TypeOK, Ordonnes, NEW i \in Imports,
           Demande(i) \/ Execution(i) \/ Rompre(i) \/ Lever(i)
    PROVE  Ordonnes'
<1>1. import[i] \in ImportEnVol /\ import \in [Imports -> ImportEnVol] /\ Ordonne(import[i])
  BY DEF TypeOK, Ordonnes
<1>2. ASSUME NEW r \in ImportEnVol, import' = [import EXCEPT ![i] = r], Ordonne(r)
      PROVE  Ordonnes'
  BY <1>1, <1>2 DEF Ordonnes, Ordonne
<1>3. CASE Demande(i)
  <2>1. PICK r \in ImportEnVol : import' = [import EXCEPT ![i] = r]
                                /\ r.etape = "marquer" /\ r.deja = {} /\ r.envoyes = {}
    BY <1>3, CommencerPas
  <2> QED
    BY <1>2, <2>1 DEF Ordonne
<1>4. CASE Telecharger(i)
  <2>1. PICK r \in ImportEnVol : import' = [import EXCEPT ![i] = r] /\ r.etape = "envoyer"
                                /\ r.zero = import[i].zero /\ r.deja = import[i].deja
    BY <1>4, TelechargerPas
  <2> QED
    BY <1>1, <1>2, <2>1 DEF Ordonne
<1>5. CASE Envoyer(i)
  <2>1. PICK r \in ImportEnVol : import' = [import EXCEPT ![i] = r] /\ r.etape = "envoyer"
                                /\ r.zero = import[i].zero /\ r.deja = import[i].deja
    BY <1>5, EnvoyerPas
  <2> QED
    BY <1>1, <1>2, <2>1 DEF Ordonne
<1>6. CASE Echouer(i) \/ Terminer(i) \/ Rompre(i)
  BY <1>2, <1>6, ReposType DEF Echouer, Terminer, Rompre
<1>7. CASE Marquer(i) \/ Vider(i) \/ Oublier(i) \/ Lancer(i)
  BY <1>1, <1>7 DEF Marquer, Vider, Oublier, Lancer, Va, Ordonnes, Ordonne, ImportEnVol
<1>8. CASE Noter(i) \/ Couvrir(i) \/ Lever(i)
  BY <1>1, <1>8 DEF Noter, Couvrir, Lever, Va, Ordonnes, Ordonne, ImportEnVol
<1> QED
  BY <1>3, <1>4, <1>5, <1>6, <1>7, <1>8 DEF Execution

LEMMA ParuGarde ==
    ASSUME MaxVersion \in Nat \ {0}, TypeOK, Ordonnes, Parus, NEW i \in Imports,
           Demande(i) \/ Execution(i) \/ Rompre(i) \/ Lever(i)
    PROVE  Parus'
<1>1. /\ import[i] \in ImportEnVol /\ import \in [Imports -> ImportEnVol]
      /\ Paru(import[i]) /\ Ordonne(import[i]) /\ Connus \subseteq paru
      /\ connus \in [Mois -> Versions \cup {0}]
  BY DEF TypeOK, Parus, Ordonnes
<1>2. UNCHANGED paru
  BY DEF Demande, Importer, Jouer, Commencer, Execution, Marquer, Vider, Oublier, Lancer,
         Telecharger, Envoyer, Noter, Echouer, Couvrir, Terminer, Rompre, Lever
<1>3. Connus' \subseteq Connus \cup import[i].envoyes
  BY <1>1 DEF Demande, Importer, Jouer, Commencer, Execution, Marquer, Vider, Oublier, Lancer,
         Telecharger, Envoyer, Noter, Echouer, Couvrir, Terminer, Rompre, Lever, Connus, TypeOK
<1>4. ASSUME NEW r \in ImportEnVol, import' = [import EXCEPT ![i] = r],
             r.reste \cup r.envoyes \subseteq paru
      PROVE  Parus'
  <2>1. Connus' \subseteq paru'
    BY <1>1, <1>2, <1>3 DEF Paru
  <2>2. \A k \in Imports : import'[k].reste \cup import'[k].envoyes \subseteq paru'
    BY <1>1, <1>2, <1>4 DEF Parus, Paru
  <2> QED
    BY <2>1, <2>2 DEF Parus, Paru
<1>5. CASE Demande(i)
  <2>1. PICK r \in ImportEnVol : import' = [import EXCEPT ![i] = r]
                                /\ r.reste = {} /\ r.envoyes = {}
    BY <1>5, CommencerPas
  <2> QED
    BY <1>4, <2>1
<1>6. CASE Telecharger(i)
  <2>1. PICK r \in ImportEnVol : import' = [import EXCEPT ![i] = r]
                                /\ r.envoyes = import[i].envoyes /\ r.faits \subseteq paru
                                /\ r.reste = {m \in r.faits : connus[m] # decoupage}
    BY <1>6, TelechargerPas
  <2>2. r.reste \cup r.envoyes \subseteq paru
    BY <1>1, <2>1 DEF Paru
  <2> QED
    BY <1>4, <2>1, <2>2
<1>7. CASE Envoyer(i)
  <2>1. PICK r \in ImportEnVol : \E m \in import[i].reste :
          /\ import' = [import EXCEPT ![i] = r]
          /\ r.reste = import[i].reste \ {m} /\ r.envoyes = import[i].envoyes \cup {m}
    BY <1>7, EnvoyerPas
  <2>2. r.reste \cup r.envoyes \subseteq paru
    BY <1>1, <2>1 DEF Paru
  <2> QED
    BY <1>4, <2>1, <2>2
<1>8. CASE Echouer(i) \/ Terminer(i) \/ Rompre(i)
  <2>1. import' = [import EXCEPT ![i] = Repos]
    BY <1>8 DEF Echouer, Terminer, Rompre
  <2>2. Repos \in ImportEnVol /\ Repos.reste \cup Repos.envoyes \subseteq paru
    BY ReposType DEF Repos
  <2> QED
    BY <1>4, <2>1, <2>2
<1>9. CASE Marquer(i) \/ Vider(i) \/ Oublier(i) \/ Lancer(i) \/ Noter(i) \/ Couvrir(i) \/ Lever(i)
  <2>1. PICK r \in ImportEnVol : import' = [import EXCEPT ![i] = r]
                                /\ r.reste = import[i].reste /\ r.envoyes = import[i].envoyes
    BY <1>9, AutrePas
  <2> QED
    BY <1>1, <1>4, <2>1 DEF Paru
<1> QED
  BY <1>5, <1>6, <1>7, <1>8, <1>9 DEF Execution

\* As long as no purge has met another import, what was sent stays sent.
LEMMA EnvoyeGarde ==
    ASSUME TypeOK, Ordonnes, Envoyes, NEW i \in Imports,
           Demande(i) \/ Execution(i) \/ Rompre(i) \/ Lever(i)
    PROVE  Envoyes'
<1> SUFFICES ASSUME PurgesSeules' PROVE Seules' /\ \A k \in Imports : Envoye(import[k])'
  BY DEF Envoyes
<1>1. accrocs \subseteq accrocs' /\ UNCHANGED decoupage
  BY DEF Demande, Importer, Jouer, Commencer, Execution, Marquer, Vider, Oublier, Lancer,
         Telecharger, Envoyer, Noter, Echouer, Couvrir, Terminer, Rompre, Lever
<1>2. /\ Seules /\ \A k \in Imports : Envoye(import[k]) /\ Ordonne(import[k])
      /\ import[i] \in ImportEnVol /\ import \in [Imports -> ImportEnVol]
  BY <1>1 DEF PurgesSeules, Envoyes, Ordonnes, TypeOK
<1>3. ASSUME NEW r \in ImportEnVol, import' = [import EXCEPT ![i] = r],
             r = Repos \/ (import[i] # Repos /\ r.zero = import[i].zero)
      PROVE  Seules'
  BY <1>2, <1>3 DEF Seules, EnVol
<1>4. ASSUME NEW r \in ImportEnVol, import' = [import EXCEPT ![i] = r],
             index \cup refuses \subseteq index' \cup refuses',
             \A m \in r.envoyes : <<m, decoupage>> \in index' \cup refuses'
      PROVE  \A k \in Imports : Envoye(import[k])'
  <2> SUFFICES ASSUME NEW k \in Imports
               PROVE  \A m \in import'[k].envoyes : <<m, decoupage>> \in index' \cup refuses'
    BY <1>1 DEF Envoye
  <2>1. CASE k = i
    BY <1>2, <1>4, <2>1
  <2>2. CASE k # i
    BY <1>2, <1>4, <2>2 DEF Envoye
  <2> QED
    BY <2>1, <2>2
<1>5. CASE Demande(i)
  <2>1. PICK r \in ImportEnVol :
          /\ import' = [import EXCEPT ![i] = r] /\ r.envoyes = {} /\ import[i] = Repos
          /\ accrocs' = accrocs \cup
               (IF EnVol # {} /\ (r.zero \/ \E k \in EnVol : import[k].zero)
                THEN {"chevauchee"} ELSE {})
    BY <1>5, CommencerPas
  <2>2. UNCHANGED <<index, refuses>>
    BY <1>5 DEF Demande, Importer, Jouer, Commencer
  <2>3. EnVol = {} \/ (~r.zero /\ \A k \in EnVol : ~import[k].zero)
    BY <2>1 DEF PurgesSeules
  <2>4. EnVol' \subseteq EnVol \cup {i} /\ i \notin EnVol
    BY <1>2, <2>1 DEF EnVol
  <2>5. Seules'
    BY <1>2, <2>1, <2>3, <2>4 DEF Seules, EnVol
  <2> QED
    BY <1>4, <2>1, <2>2, <2>5
<1>6. CASE Envoyer(i)
  <2>1. PICK r \in ImportEnVol : \E m \in import[i].reste :
          /\ import' = [import EXCEPT ![i] = r] /\ r.zero = import[i].zero
          /\ r.envoyes = import[i].envoyes \cup {m}
          /\ index' \cup refuses' = index \cup refuses \cup {<<m, decoupage>>}
    BY <1>6, EnvoyerPas
  <2>2. import[i] # Repos
    BY <1>6, ReposType DEF Envoyer
  <2>3. \A m \in r.envoyes : <<m, decoupage>> \in index' \cup refuses'
    BY <1>2, <2>1 DEF Envoye
  <2> QED
    BY <1>3, <1>4, <2>1, <2>2, <2>3
<1>7. CASE Telecharger(i)
  <2>1. PICK r \in ImportEnVol :
          /\ import' = [import EXCEPT ![i] = r] /\ r.zero = import[i].zero
          /\ r.envoyes = import[i].envoyes
    BY <1>7, TelechargerPas
  <2>2. import[i] # Repos /\ UNCHANGED <<index, refuses>>
    BY <1>7, ReposType DEF Telecharger
  <2> QED
    BY <1>2, <1>3, <1>4, <2>1, <2>2 DEF Envoye
<1>8. CASE Echouer(i) \/ Terminer(i) \/ Rompre(i)
  <2>1. import' = [import EXCEPT ![i] = Repos] /\ UNCHANGED <<index, refuses>>
    BY <1>8 DEF Echouer, Terminer, Rompre
  <2>2. Repos \in ImportEnVol /\ \A m \in Repos.envoyes : FALSE
    BY ReposType DEF Repos
  <2>3. index \cup refuses \subseteq index' \cup refuses'
        /\ \A m \in Repos.envoyes : <<m, decoupage>> \in index' \cup refuses'
    BY <2>1, <2>2
  <2>4. Seules'
    BY <1>2, <2>1 DEF Seules, EnVol
  <2> QED
    BY <1>4, <2>1, <2>2, <2>3, <2>4
<1>9. CASE Vider(i)
  <2>1. PICK r \in ImportEnVol :
          /\ import' = [import EXCEPT ![i] = r] /\ r.zero = import[i].zero
          /\ r.envoyes = import[i].envoyes
    BY <1>9, AutrePas
  <2>2. i \in EnVol /\ import[i].zero /\ import[i].envoyes = {}
    BY <1>2, <1>9, ReposType DEF Vider, Ordonne, EnVol
  <2>3. \A k \in Imports \ {i} : import[k].envoyes = {}
    BY <1>2, <2>2 DEF Seules, EnVol, Repos
  <2>4. \A k \in Imports : import'[k].envoyes = {}
    BY <1>2, <2>1, <2>2, <2>3
  <2> QED
    BY <1>3, <2>1, <2>2, <2>4 DEF Envoye, EnVol
<1>10. CASE Marquer(i) \/ Oublier(i) \/ Lancer(i) \/ Noter(i) \/ Couvrir(i) \/ Lever(i)
  <2>1. PICK r \in ImportEnVol :
          /\ import' = [import EXCEPT ![i] = r] /\ r.zero = import[i].zero
          /\ r.envoyes = import[i].envoyes
    BY <1>10, AutrePas
  <2>2. import[i] # Repos /\ UNCHANGED <<index, refuses>>
    BY <1>10, ReposType DEF Marquer, Oublier, Lancer, Noter, Couvrir, Lever
  <2> QED
    BY <1>2, <1>3, <1>4, <2>1, <2>2 DEF Envoye
<1> QED
  BY <1>5, <1>6, <1>7, <1>8, <1>9, <1>10 DEF Execution

\* What the rows say known is there, or was refused.
LEMMA ConnuGarde ==
    ASSUME TypeOK, Ordonnes, Envoyes, ConnuServi, NEW i \in Imports,
           Demande(i) \/ Execution(i) \/ Rompre(i) \/ Lever(i)
    PROVE  ConnuServi'
<1> DEFINE Calme == accrocs \subseteq {"sans_suite"} /\ \A k \in Imports : import[k].etape # "oublier"
           Servis == \A m \in Mois : connus[m] # 0 => <<m, connus[m]>> \in index \cup refuses
<1> SUFFICES ASSUME Calme' PROVE Servis'
  BY DEF ConnuServi
<1>1. accrocs \subseteq accrocs' /\ UNCHANGED decoupage
  BY DEF Demande, Importer, Jouer, Commencer, Execution, Marquer, Vider, Oublier, Lancer,
         Telecharger, Envoyer, Noter, Echouer, Couvrir, Terminer, Rompre, Lever
<1>2. /\ PurgesSeules /\ Seules /\ \A k \in Imports : Envoye(import[k]) /\ Ordonne(import[k])
      /\ import[i] \in ImportEnVol /\ import \in [Imports -> ImportEnVol]
      /\ connus \in [Mois -> Versions \cup {0}] /\ accrocs \subseteq {"sans_suite"}
  BY <1>1 DEF PurgesSeules, Envoyes, Ordonnes, TypeOK
<1>3. CASE Oublier(i)
  BY <1>3 DEF Oublier
<1>4. CASE Vider(i)
  BY <1>2, <1>4 DEF Vider, Va, ImportEnVol
<1>5. CASE ~Oublier(i) /\ ~Vider(i)
  <2>1. \A k \in Imports : import[k].etape # "oublier"
    <3> SUFFICES ASSUME NEW k \in Imports, import[k].etape = "oublier" PROVE FALSE
      OBVIOUS
    <3>1. k \in EnVol /\ import[k].zero
      BY <1>2, ReposType DEF Ordonne, EnVol
    <3>2. k = i
      <4> SUFFICES ASSUME k # i PROVE FALSE
        OBVIOUS
      <4>1. import'[k].etape # "oublier" /\ import'[k] = import[k]
        BY <1>2 DEF Demande, Importer, Jouer, Commencer, Execution, Marquer, Vider, Oublier,
                    Lancer, Telecharger, Envoyer, Noter, Echouer, Couvrir, Terminer, Rompre,
                    Lever, Va
      <4> QED
        BY <4>1
    <3>3. Rompre(i)
      BY <1>5, <3>1, <3>2, ReposType
         DEF Demande, Importer, Jouer, Commencer, Execution, Marquer, Lancer, Telecharger,
             Envoyer, Noter, Echouer, Couvrir, Terminer, Lever
    <3>4. "coupee" \in accrocs'
      BY <3>1, <3>2, <3>3 DEF Rompre, Accroc
    <3> QED
      BY <3>4
  <2>2. Servis
    BY <1>2, <2>1 DEF ConnuServi
  <2>3. index \cup refuses \subseteq index' \cup refuses'
    BY <1>5 DEF Demande, Importer, Jouer, Commencer, Execution, Marquer, Lancer,
         Telecharger, Envoyer, Noter, Echouer, Couvrir, Terminer, Rompre, Lever
  <2>4. \A m \in Mois : \/ connus'[m] = connus[m]
                        \/ connus'[m] = decoupage /\ m \in import[i].envoyes
    BY <1>2, <1>5 DEF Demande, Importer, Jouer, Commencer, Execution, Marquer, Lancer,
         Telecharger, Envoyer, Noter, Echouer, Couvrir, Terminer, Rompre, Lever
  <2> QED
    BY <1>2, <2>2, <2>3, <2>4 DEF Envoye
<1> QED
  BY <1>3, <1>4, <1>5

\* What the row and the grid say imported is known, as long as every purge
\* came to its end.
LEMMA FaitsGarde ==
    ASSUME MaxVersion \in Nat \ {0}, TypeOK, Ordonnes, Envoyes, Faits, NEW i \in Imports,
           Demande(i) \/ Execution(i) \/ Rompre(i) \/ Lever(i)
    PROVE  Faits'
<1> SUFFICES ASSUME accrocs' = {}
             PROVE  /\ RienEfface' => amorce'.faits \cup couverture' \subseteq Connus'
                    /\ \A k \in Imports : Acquis(import[k])'
  BY DEF Faits
<1>1. accrocs \subseteq accrocs' /\ UNCHANGED decoupage
  BY DEF Demande, Importer, Jouer, Commencer, Execution, Marquer, Vider, Oublier, Lancer,
         Telecharger, Envoyer, Noter, Echouer, Couvrir, Terminer, Rompre, Lever
<1>2. /\ Seules /\ \A k \in Imports : Acquis(import[k]) /\ Ordonne(import[k])
      /\ import[i] \in ImportEnVol /\ import \in [Imports -> ImportEnVol]
      /\ connus \in [Mois -> Versions \cup {0}] /\ decoupage \in Versions /\ 0 \notin Versions
      /\ RienEfface => amorce.faits \cup couverture \subseteq Connus
  BY <1>1 DEF PurgesSeules, Envoyes, Ordonnes, TypeOK, Faits, Versions
<1>3. ~Oublier(i) => Connus \subseteq Connus'
  BY <1>2 DEF Demande, Importer, Jouer, Commencer, Execution, Marquer, Vider, Oublier, Lancer,
         Telecharger, Envoyer, Noter, Echouer, Couvrir, Terminer, Rompre, Lever, Connus
<1>4. ASSUME NEW r \in ImportEnVol, import' = [import EXCEPT ![i] = r], ~Oublier(i),
             \/ UNCHANGED couverture
             \/ import[i] # Repos,
             /\ r.deja \subseteq Connus'
             /\ r.etape = "envoyer" => r.faits \subseteq Connus' \cup r.reste \cup r.envoyes
             /\ r.etape \in {"couvrir", "terminer"} => r.faits \subseteq Connus'
             /\ r.etape = "terminer" /\ r.zero => couverture' = r.deja \cup r.faits
      PROVE  \A k \in Imports : Acquis(import[k])'
  <2> SUFFICES ASSUME NEW k \in Imports, k # i PROVE Acquis(import[k])'
    BY <1>2, <1>4 DEF Acquis
  <2>1. import'[k] = import[k] /\ Acquis(import[k]) /\ Connus \subseteq Connus'
    BY <1>2, <1>3, <1>4
  <2>2. import[k].etape = "terminer" /\ import[k].zero => UNCHANGED couverture
    BY <1>2, <1>4, ReposType DEF Seules, EnVol
  <2> QED
    BY <2>1, <2>2 DEF Acquis
<1>5. ASSUME NEW r \in ImportEnVol, import' = [import EXCEPT ![i] = r], ~Oublier(i),
             RienEfface',
             \/ r # Repos /\ ~r.zero /\ ~import[i].zero
             \/ r.zero /\ r # Repos /\ (import[i] = Repos \/ import[i].etape = "marquer")
             \/ r = Repos /\ (import[i].zero => import[i].etape \in {"marquer", "vider"})
             \/ r = Repos /\ ~import[i].zero
             \/ import[i] = Repos
      PROVE  amorce.faits \cup couverture \subseteq Connus'
  <2>1. RienEfface
    BY <1>2, <1>5, ReposType DEF RienEfface, EnVol
  <2> QED
    BY <1>2, <1>3, <1>5, <2>1
<1>6. CASE Demande(i)
  <2>1. PICK r \in ImportEnVol :
          /\ import' = [import EXCEPT ![i] = r] /\ r.etape = "marquer" /\ r.deja = {}
          /\ import[i] = Repos
    BY <1>6, CommencerPas
  <2>2. UNCHANGED <<amorce, couverture>> /\ ~Oublier(i)
    BY <1>6, <2>1, ReposType DEF Demande, Importer, Jouer, Commencer, Oublier
  <2> QED
    BY <1>4, <1>5, <2>1, <2>2
<1>7. CASE Telecharger(i)
  <2>1. PICK r \in ImportEnVol :
          /\ import' = [import EXCEPT ![i] = r]
          /\ r.etape = "envoyer" /\ r.zero = import[i].zero /\ r.deja = import[i].deja
          /\ r.faits \subseteq paru /\ r.reste = {m \in r.faits : connus[m] # decoupage}
    BY <1>7, TelechargerPas
  <2>2. UNCHANGED <<amorce, couverture, connus>> /\ ~Oublier(i) /\ r # Repos
    BY <1>7, <2>1, ReposType DEF Telecharger, Oublier
  <2>3. r.faits \subseteq Connus \cup r.reste
    BY <1>2, <2>1 DEF Connus, ImportEnVol
  <2>4. \A k \in Imports : Acquis(import[k])'
    BY <1>2, <1>3, <1>4, <2>1, <2>2, <2>3 DEF Acquis
  <2>5. RienEfface' => ~r.zero
    BY <1>2, <2>1, <2>2 DEF RienEfface, EnVol
  <2> QED
    BY <1>5, <2>1, <2>2, <2>4, <2>5
<1>8. CASE Envoyer(i)
  <2>1. PICK r \in ImportEnVol : \E m \in import[i].reste :
          /\ import' = [import EXCEPT ![i] = r]
          /\ r.etape = "envoyer" /\ r.zero = import[i].zero
          /\ r.deja = import[i].deja /\ r.faits = import[i].faits
          /\ r.reste = import[i].reste \ {m} /\ r.envoyes = import[i].envoyes \cup {m}
    BY <1>8, EnvoyerPas
  <2>2. /\ UNCHANGED <<amorce, couverture, connus>> /\ ~Oublier(i) /\ r # Repos
        /\ import[i].etape = "envoyer"
    BY <1>8, <2>1, ReposType DEF Envoyer, Oublier
  <2>3. r.faits \subseteq Connus \cup r.reste \cup r.envoyes
    BY <1>2, <2>1, <2>2 DEF Acquis
  <2>4. \A k \in Imports : Acquis(import[k])'
    BY <1>2, <1>3, <1>4, <2>1, <2>2, <2>3 DEF Acquis
  <2>5. RienEfface' => ~r.zero
    BY <1>2, <2>1, <2>2 DEF RienEfface, EnVol
  <2> QED
    BY <1>5, <2>1, <2>2, <2>4, <2>5
<1>9. CASE Echouer(i) \/ Rompre(i)
  <2>1. /\ import' = [import EXCEPT ![i] = Repos] /\ UNCHANGED couverture
        /\ amorce'.faits = amorce.faits /\ accrocs' = accrocs \cup Accroc(i) /\ ~Oublier(i)
    <3>1. import' = [import EXCEPT ![i] = Repos] /\ UNCHANGED couverture
          /\ accrocs' = accrocs \cup Accroc(i)
      BY <1>9 DEF Echouer, Rompre
    <3>2. amorce'.faits = amorce.faits
      BY <1>9 DEF Echouer, Rompre, TypeOK
    <3>3. ~Oublier(i)
      <4>1. import'[i].etape = "repos"
        BY <1>2, <3>1, ReposType
      <4>2. Oublier(i) => import'[i].etape = "lancer"
        BY <1>2 DEF Oublier, Va, ImportEnVol
      <4> QED
        BY <4>1, <4>2
    <3> QED
      BY <3>1, <3>2, <3>3
  <2>2. import[i].zero => import[i].etape \in {"marquer", "vider"}
    BY <2>1 DEF Accroc
  <2> DEFINE r == Repos
  <2>3. r \in ImportEnVol /\ r.etape = "repos" /\ r.deja = {} /\ r = Repos
        /\ import' = [import EXCEPT ![i] = r]
    BY <2>1, ReposType DEF Repos
  <2> HIDE DEF r
  <2>4. \A k \in Imports : Acquis(import[k])'
    BY <1>4, <2>1, <2>3
  <2>5. RienEfface' => amorce.faits \cup couverture \subseteq Connus'
    BY <1>5, <2>1, <2>2, <2>3
  <2> QED
    BY <2>1, <2>4, <2>5
<1>10. CASE Terminer(i)
  <2> DEFINE r == Repos
  <2>1. r \in ImportEnVol /\ r.etape = "repos" /\ r.deja = {} /\ r = Repos
        /\ import' = [import EXCEPT ![i] = r]
    BY <1>10, ReposType DEF Terminer, Repos
  <2>2. /\ UNCHANGED <<couverture, connus>> /\ import[i].etape = "terminer" /\ ~Oublier(i)
        /\ amorce'.faits = import[i].deja \cup import[i].faits
    BY <1>10 DEF Terminer, Oublier, Resultat
  <2> HIDE DEF r
  <2>3. \A k \in Imports : Acquis(import[k])'
    BY <1>4, <2>1, <2>2
  <2>4. Acquis(import[i]) /\ Connus \subseteq Connus'
    BY <1>2, <1>3, <2>2
  <2>5. amorce'.faits \subseteq Connus'
    BY <2>2, <2>4 DEF Acquis
  <2>6. ASSUME RienEfface' PROVE couverture \subseteq Connus'
    <3>1. CASE import[i].zero
      BY <2>2, <2>4, <2>5, <3>1 DEF Acquis
    <3>2. CASE ~import[i].zero
      BY <1>5, <2>1, <2>2, <2>6, <3>2
    <3> QED
      BY <3>1, <3>2
  <2> QED
    BY <2>2, <2>3, <2>5, <2>6
<1>11. CASE Marquer(i) \/ Vider(i) \/ Lancer(i) \/ Noter(i) \/ Lever(i)
  <2>1. PICK r \in ImportEnVol :
          /\ import' = [import EXCEPT ![i] = r]
          /\ r.zero = import[i].zero /\ r.faits = import[i].faits
          /\ r.reste = import[i].reste /\ r.envoyes = import[i].envoyes
          /\ r.deja = IF import[i].etape # "lancer" THEN import[i].deja
                      ELSE IF memoire /\ ~import[i].zero THEN amorce.faits ELSE {}
          /\ r.etape \notin {"repos", "envoyer"}
          /\ r.etape = "couvrir" =>
                /\ import[i].etape = "envoyer" /\ import[i].reste = {}
                /\ connus' = [m \in Mois |-> IF m \in import[i].envoyes THEN decoupage
                                             ELSE connus[m]]
          /\ r.etape = "terminer" => Couvrir(i)
    BY <1>11, AutrePas
  <2>2. /\ UNCHANGED couverture /\ amorce'.faits = amorce.faits
        /\ ~Oublier(i) /\ ~Couvrir(i) /\ r # Repos /\ import[i] # Repos
    <3>1. UNCHANGED couverture /\ amorce'.faits = amorce.faits
      BY <1>11 DEF Marquer, Vider, Lancer, Noter, Lever, TypeOK
    <3>2. /\ ~Oublier(i) /\ ~Couvrir(i)
      BY <1>2, <1>11 DEF Marquer, Vider, Lancer, Noter, Lever, Oublier, Couvrir, Va, ImportEnVol
    <3>3. import[i] # Repos
      BY <1>11, ReposType DEF Marquer, Vider, Lancer, Noter, Lever
    <3> QED
      BY <2>1, <3>1, <3>2, <3>3, ReposType
  <2>3. r.deja \subseteq Connus'
    <3>1. CASE import[i].etape # "lancer" \/ ~memoire \/ import[i].zero
      BY <1>2, <1>3, <2>1, <2>2, <3>1 DEF Acquis
    <3>2. CASE import[i].etape = "lancer" /\ memoire /\ ~import[i].zero
      <4>1. RienEfface
        BY <2>2, <3>2, <1>2 DEF Seules, EnVol, RienEfface
      <4> QED
        BY <1>2, <1>3, <2>1, <2>2, <3>2, <4>1
    <3> QED
      BY <3>1, <3>2
  <2>4. r.etape = "couvrir" => r.faits \subseteq Connus'
    BY <1>2, <2>1 DEF Acquis, Connus, ImportEnVol
  <2>5. \A k \in Imports : Acquis(import[k])'
    BY <1>4, <2>1, <2>2, <2>3, <2>4
  <2>6. RienEfface' => ~r.zero \/ import[i].etape = "marquer"
    <3> SUFFICES ASSUME RienEfface', r.zero PROVE import[i].etape = "marquer"
      OBVIOUS
    <3>1. import'[i] = r /\ r.etape \in {"marquer", "vider"}
      BY <1>2, <2>1, <2>2 DEF RienEfface, EnVol
    <3> QED
      BY <1>2, <1>11, <2>1, <3>1 DEF Marquer, Vider, Lancer, Noter, Lever, Va, ImportEnVol
  <2>7. RienEfface' => amorce.faits \cup couverture \subseteq Connus'
    BY <1>5, <2>1, <2>2, <2>6
  <2> QED
    BY <2>2, <2>5, <2>7
<1>12. CASE Couvrir(i)
  <2>1. PICK r \in ImportEnVol :
          /\ import' = [import EXCEPT ![i] = r]
          /\ r.zero = import[i].zero /\ r.faits = import[i].faits
          /\ r.deja = IF import[i].etape # "lancer" THEN import[i].deja
                      ELSE IF memoire /\ ~import[i].zero THEN amorce.faits ELSE {}
          /\ r.etape \notin {"repos", "envoyer"}
    BY <1>12, AutrePas
  <2>2. /\ couverture' = import[i].deja \cup import[i].faits
        /\ UNCHANGED <<amorce, connus>> /\ import[i].etape = "couvrir"
        /\ ~Oublier(i) /\ r # Repos /\ import[i] # Repos
    BY <1>12, <2>1, ReposType DEF Couvrir, Oublier, Resultat
  <2>3. Acquis(import[i]) /\ Connus \subseteq Connus'
    BY <1>2, <1>3, <2>2
  <2>4. \A k \in Imports : Acquis(import[k])'
    BY <1>4, <2>1, <2>2, <2>3 DEF Acquis
  <2>5. RienEfface' => ~r.zero
    <3> SUFFICES ASSUME RienEfface', r.zero PROVE FALSE
      OBVIOUS
    <3>1. import'[i] = r /\ r.etape \in {"marquer", "vider"}
      BY <1>2, <2>1, <2>2 DEF RienEfface, EnVol
    <3>2. import'[i].etape = "terminer"
      BY <1>2, <1>12 DEF Couvrir, Va, ImportEnVol
    <3> QED
      BY <3>1, <3>2
  <2>6. RienEfface' => amorce.faits \cup couverture \subseteq Connus'
    BY <1>5, <2>1, <2>2, <2>5
  <2> QED
    BY <2>2, <2>3, <2>4, <2>6 DEF Acquis
<1>13. CASE Oublier(i)
  <2>1. PICK r \in ImportEnVol :
          /\ import' = [import EXCEPT ![i] = r]
          /\ r.zero = import[i].zero /\ r.faits = import[i].faits
          /\ r.deja = IF import[i].etape # "lancer" THEN import[i].deja
                      ELSE IF memoire /\ ~import[i].zero THEN amorce.faits ELSE {}
          /\ r.etape \notin {"repos", "envoyer"}
    BY <1>13, AutrePas
  <2>2. /\ import[i].etape = "oublier" /\ import[i] # Repos /\ import[i].zero
        /\ import[i].deja = {} /\ import'[i] = r /\ r.etape = "lancer"
    BY <1>2, <1>13, <2>1, ReposType DEF Oublier, Ordonne, Va, ImportEnVol
  <2>3. r.deja = {} /\ r # Repos /\ r.zero
    BY <2>1, <2>2, ReposType
  <2>4. ~RienEfface'
    BY <2>2, <2>3 DEF RienEfface, EnVol
  <2>5. ASSUME NEW k \in Imports PROVE Acquis(import[k])'
    <3>1. CASE k = i
      BY <2>2, <2>3, <3>1 DEF Acquis
    <3>2. CASE k # i
      <4>1. import'[k] = Repos
        BY <1>2, <2>1, <2>2, <3>2 DEF Seules, EnVol
      <4> QED
        BY <4>1 DEF Acquis, Repos
    <3> QED
      BY <3>1, <3>2
  <2> QED
    BY <2>4, <2>5
<1> QED
  BY <1>6, <1>7, <1>8, <1>9, <1>10, <1>11, <1>12, <1>13 DEF Execution

\* An import that downloads everything leaves no older cutting among the rows.
LEMMA RepasseGarde ==
    ASSUME TypeOK, Parus, Repasses, NEW i \in Imports,
           Demande(i) \/ Execution(i) \/ Rompre(i) \/ Lever(i)
    PROVE  Repasses'
<1> SUFFICES ASSUME ~memoire' PROVE \A k \in Imports : Repasse(import[k])'
  BY DEF Repasses
<1>1. UNCHANGED <<memoire, decoupage>>
  BY DEF Demande, Importer, Jouer, Commencer, Execution, Marquer, Vider, Oublier, Lancer,
         Telecharger, Envoyer, Noter, Echouer, Couvrir, Terminer, Rompre, Lever
<1>2. /\ \A k \in Imports : Repasse(import[k])
      /\ import[i] \in ImportEnVol /\ import \in [Imports -> ImportEnVol]
      /\ Connus \subseteq paru /\ connus \in [Mois -> Versions \cup {0}]
  BY <1>1 DEF Repasses, Parus, TypeOK
<1>3. \A m \in Mois : connus'[m] \in {connus[m], 0, decoupage}
  BY <1>2 DEF Demande, Importer, Jouer, Commencer, Execution, Marquer, Vider, Oublier, Lancer,
         Telecharger, Envoyer, Noter, Echouer, Couvrir, Terminer, Rompre, Lever
<1>4. ASSUME NEW r \in ImportEnVol, import' = [import EXCEPT ![i] = r],
             /\ r.etape = "envoyer" =>
                   \A m \in Mois : connus'[m] \in {0, decoupage} \/ m \in r.reste \cup r.envoyes
             /\ r.etape \in {"couvrir", "terminer"} => \A m \in Mois : connus'[m] \in {0, decoupage}
      PROVE  \A k \in Imports : Repasse(import[k])'
  <2> SUFFICES ASSUME NEW k \in Imports, k # i PROVE Repasse(import[k])'
    BY <1>1, <1>2, <1>4 DEF Repasse
  <2>1. import'[k] = import[k] /\ Repasse(import[k])
    BY <1>2, <1>4
  <2> QED
    BY <1>1, <1>3, <2>1 DEF Repasse
<1>5. CASE Demande(i)
  <2>1. PICK r \in ImportEnVol : import' = [import EXCEPT ![i] = r] /\ r.etape = "marquer"
    BY <1>5, CommencerPas
  <2> QED
    BY <1>4, <2>1
<1>6. CASE Telecharger(i)
  <2>1. PICK r \in ImportEnVol :
          /\ import' = [import EXCEPT ![i] = r] /\ r.etape = "envoyer"
          /\ r.faits = Mois \cap paru
          /\ r.reste = {m \in r.faits : connus[m] # decoupage}
    BY <1>1, <1>6, TelechargerPas
  <2>2. UNCHANGED connus
    BY <1>6 DEF Telecharger
  <2>3. \A m \in Mois : connus'[m] \in {0, decoupage} \/ m \in r.reste
    BY <1>2, <2>1, <2>2 DEF Connus
  <2> QED
    BY <1>4, <2>1, <2>3
<1>7. CASE Envoyer(i)
  <2>1. PICK r \in ImportEnVol : \E m \in import[i].reste :
          /\ import' = [import EXCEPT ![i] = r] /\ r.etape = "envoyer"
          /\ r.reste = import[i].reste \ {m} /\ r.envoyes = import[i].envoyes \cup {m}
    BY <1>7, EnvoyerPas
  <2>2. UNCHANGED connus /\ import[i].etape = "envoyer"
    BY <1>7 DEF Envoyer
  <2>3. \A m \in Mois : connus'[m] \in {0, decoupage} \/ m \in r.reste \cup r.envoyes
    BY <1>2, <2>1, <2>2 DEF Repasse
  <2> QED
    BY <1>4, <2>1, <2>3
<1>8. CASE Echouer(i) \/ Terminer(i) \/ Rompre(i)
  <2> DEFINE r == Repos
  <2>1. r \in ImportEnVol /\ r.etape = "repos" /\ import' = [import EXCEPT ![i] = r]
    BY <1>8, ReposType DEF Echouer, Terminer, Rompre
  <2> HIDE DEF r
  <2> QED
    BY <1>4, <2>1
<1>9. CASE Marquer(i) \/ Vider(i) \/ Oublier(i) \/ Lancer(i) \/ Noter(i) \/ Couvrir(i) \/ Lever(i)
  <2>1. PICK r \in ImportEnVol :
          /\ import' = [import EXCEPT ![i] = r]
          /\ r.etape \notin {"repos", "envoyer"}
          /\ r.etape = "couvrir" =>
                /\ import[i].etape = "envoyer" /\ import[i].reste = {}
                /\ connus' = [m \in Mois |-> IF m \in import[i].envoyes THEN decoupage
                                             ELSE connus[m]]
          /\ r.etape = "terminer" => Couvrir(i)
    BY <1>9, AutrePas
  <2>2. r.etape = "couvrir" => \A m \in Mois : connus'[m] \in {0, decoupage}
    BY <1>2, <2>1 DEF Repasse
  <2>3. r.etape = "terminer" => \A m \in Mois : connus'[m] \in {0, decoupage}
    BY <1>2, <2>1 DEF Repasse, Couvrir
  <2> QED
    BY <1>4, <2>1, <2>2, <2>3
<1> QED
  BY <1>5, <1>6, <1>7, <1>8, <1>9 DEF Execution


-----------------------------------------------------------------------------
(* The world.                                                              *)

\* A month that appears changes nothing of what an import holds.
LEMMA ParaitrePas ==
    ASSUME Inv, NEW m \in Mois, Paraitre(m)
    PROVE  /\ Ordonnes' /\ Parus' /\ Envoyes' /\ ConnuServi' /\ Faits' /\ Repasses'
<1>1. /\ UNCHANGED <<memoire, decoupage, amorce, couverture, connus, index, import,
                     refuses, accrocs>>
      /\ paru \subseteq paru' /\ UNCHANGED <<Connus, EnVol>>
  BY DEF Paraitre, Connus, EnVol
<1>2. Ordonnes' /\ Parus'
  BY <1>1 DEF Inv, Ordonnes, Ordonne, Parus, Paru
<1>3. Envoyes' /\ ConnuServi'
  BY <1>1 DEF Inv, Envoyes, Envoye, PurgesSeules, Seules, ConnuServi
<1>4. Faits' /\ Repasses'
  BY <1>1 DEF Inv, Faits, RienEfface, Acquis, Repasses, Repasse
<1> QED
  BY <1>2, <1>3, <1>4

\* A stop leaves no import, and notes the purges it cut.
LEMMA RedemarrerPas ==
    ASSUME Inv, Redemarrer
    PROVE  /\ Ordonnes' /\ Parus' /\ Envoyes' /\ ConnuServi' /\ Faits' /\ Repasses'
<1>1. /\ UNCHANGED <<memoire, paru, amorce, couverture, connus, index, refuses>>
      /\ UNCHANGED Connus /\ EnVol' = {} /\ \A k \in Imports : import'[k] = Repos
  BY DEF Redemarrer, Connus, EnVol
<1>2. /\ Repos.etape = "repos" /\ Repos.deja = {} /\ Repos.reste = {} /\ Repos.envoyes = {}
      /\ Ordonne(Repos)
  BY ReposType DEF Repos
<1>3. /\ accrocs \subseteq accrocs'
      /\ \A k \in EnVol : Accroc(k) \subseteq accrocs'
  <2> DEFINE fins == UNION {Accroc(k) : k \in EnVol}
  <2>1. \A k \in EnVol : Accroc(k) \subseteq fins
    BY Zenon
  <2>2. accrocs' = accrocs \cup fins
    BY DEF Redemarrer
  <2> HIDE DEF fins
  <2> QED
    BY <2>1, <2>2
<1> HIDE DEF Repos
<1>4. Ordonnes' /\ Parus'
  BY <1>1, <1>2 DEF Inv, Ordonnes, Ordonne, Parus, Paru
<1>5. Envoyes' /\ Repasses'
  BY <1>1, <1>2 DEF Envoyes, Envoye, Seules, Repasses, Repasse
<1>6. ConnuServi'
  <2> SUFFICES ASSUME accrocs' \subseteq {"sans_suite"}
               PROVE  (\A m \in Mois : connus[m] # 0 => <<m, connus[m]>> \in index \cup refuses)'
    BY DEF ConnuServi
  <2>1. ASSUME NEW k \in Imports PROVE import[k].etape # "oublier"
    <3> SUFFICES ASSUME import[k].etape = "oublier" PROVE FALSE
      OBVIOUS
    <3>1. k \in EnVol /\ import[k].zero
      BY <1>2 DEF Inv, Ordonnes, Ordonne, EnVol
    <3>2. "coupee" \in accrocs'
      BY <1>3, <3>1 DEF Accroc
    <3> QED
      BY <3>2
  <2> QED
    BY <1>1, <1>3, <2>1 DEF Inv, ConnuServi
<1>7. Faits'
  <2> SUFFICES ASSUME accrocs' = {}
               PROVE  /\ RienEfface' => amorce'.faits \cup couverture' \subseteq Connus'
                      /\ \A k \in Imports : Acquis(import[k])'
    BY DEF Faits
  <2>1. RienEfface
    BY <1>3 DEF RienEfface, Accroc
  <2>2. amorce.faits \cup couverture \subseteq Connus
    BY <1>3, <2>1 DEF Inv, Faits
  <2> QED
    BY <1>1, <1>2, <2>2 DEF Acquis
<1> QED
  BY <1>4, <1>5, <1>6, <1>7

-----------------------------------------------------------------------------
(* The invariant.                                                          *)

LEMMA InitInv == ASSUME MaxVersion \in Nat \ {0}, Init PROVE Inv
<1>1. \A k \in Imports : import[k] = Repos
  BY DEF Init
<1>2. /\ Repos \in ImportEnVol /\ Repos.etape = "repos" /\ Repos.deja = {}
      /\ Repos.reste = {} /\ Repos.envoyes = {} /\ Ordonne(Repos)
  BY ReposType DEF Repos
<1>3. EnVol = {} /\ Connus = {} /\ \A m \in Mois : connus[m] = 0
  BY DEF Init, EnVol, Connus
<1>4. TypeOK
  BY <1>2 DEF Init, TypeOK, Versions, ETATS_IMPORT_AMORCE
<1>5. Ordonnes /\ Parus
  BY <1>1, <1>2, <1>3 DEF Ordonnes, Parus, Paru
<1>6. Envoyes /\ ConnuServi
  BY <1>1, <1>2, <1>3 DEF Envoyes, Seules, Envoye, ConnuServi
<1>7. amorce.faits = {} /\ couverture = {}
  BY DEF Init
<1>8. Faits /\ Repasses
  BY <1>1, <1>2, <1>3, <1>7 DEF Faits, Acquis, Repasses, Repasse
<1> QED
  BY <1>4, <1>5, <1>6, <1>8 DEF Inv

LEMMA EtapeGarde == ASSUME MaxVersion \in Nat \ {0}, Inv, [Next]_vars PROVE Inv'
<1>1. CASE \E i \in Imports : Demande(i) \/ Execution(i) \/ Rompre(i) \/ Lever(i)
  BY <1>1, TypeGarde, OrdonneGarde, ParuGarde, EnvoyeGarde, ConnuGarde, FaitsGarde,
     RepasseGarde DEF Inv
<1>2. CASE (\E m \in Mois : Paraitre(m)) \/ Redemarrer
  <2>1. TypeOK'
    BY <1>2, TypeMonde DEF Inv
  <2> QED
    BY <1>2, <2>1, ParaitrePas, RedemarrerPas DEF Inv
<1>3. CASE UNCHANGED vars
  <2>1. UNCHANGED <<Connus, EnVol>>
    BY <1>3 DEF vars, Connus, EnVol
  <2>2. TypeOK' /\ Ordonnes' /\ Parus'
    BY <1>3, <2>1 DEF vars, Inv, TypeOK, Ordonnes, Ordonne, Parus, Paru
  <2>3. Envoyes' /\ ConnuServi'
    BY <1>3, <2>1 DEF vars, Inv, Envoyes, Envoye, PurgesSeules, Seules, ConnuServi
  <2>4. Faits' /\ Repasses'
    BY <1>3, <2>1 DEF vars, Inv, Faits, RienEfface, Acquis, Repasses, Repasse
  <2> QED
    BY <2>2, <2>3, <2>4 DEF Inv
<1> QED
  BY <1>1, <1>2, <1>3 DEF Next

-----------------------------------------------------------------------------
(* Theorems.                                                               *)

\* The rows of amorce, grille and source_files keep the shape of models/db.py,
\* whatever imports, failures and releases follow each other.
THEOREM TypesGardes == ASSUME MaxVersion \in Nat \ {0} PROVE Spec => []TypeOK
<1>1. Inv => TypeOK
  BY DEF Inv
<1> QED
  BY <1>1, InitInv, EtapeGarde, PTL DEF Spec

\* ingerer (services/amorces/ingestion.py): a document the rows say known in
\* some version is searchable in it, or OpenRAG refused it, as long as no purge
\* was cut between the erasure and the rows, nor met another import.
THEOREM ConnusServis == ASSUME MaxVersion \in Nat \ {0} PROVE Spec => []ConnuServi
<1>1. Inv => ConnuServi
  BY DEF Inv
<1> QED
  BY <1>1, InitInv, EtapeGarde, PTL DEF Spec

\* _executer (routers/amorces.py): a month that the row or the grid says
\* imported, and that the connector will not download again, has its document
\* known, as long as each purge was followed by an import that ended well.
THEOREM MoisToujoursServis == ASSUME MaxVersion \in Nat \ {0} PROVE Spec => []MoisServis
<1>1. Inv => MoisServis
  BY DEF Inv, MoisServis, Faits, RienEfface, Connus
<1> QED
  BY <1>1, InitInv, EtapeGarde, PTL DEF Spec

\* VERSION_DECOUPAGE: an import of a connector without memory leaves, once it
\* has noted its documents, none that an older release had cut, whatever other
\* imports and purges run with it.
THEOREM SansMemoireToutRepasse ==
    ASSUME MaxVersion \in Nat \ {0} PROVE Spec => []ToutRepasseSansMemoire
<1>1. Inv => ToutRepasseSansMemoire
  BY DEF Inv, ToutRepasseSansMemoire, Repasses, Repasse, SansAncienDecoupage
<1> QED
  BY <1>1, InitInv, EtapeGarde, PTL DEF Spec

=============================================================================
