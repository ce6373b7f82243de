-------------------------- MODULE Assistants_proofs --------------------------
(***************************************************************************)
(* The versions of an assistant however many saves and publications        *)
(* overlap: none repeats the one before it, and the published one can be   *)
(* served.  Both rest on what a publication in flight has read: Prets.     *)
(***************************************************************************)
EXTENDS Assistants, TLAPS

\* A publication that has read its draft has checked it, and the number of
\* the last version it read is that of one of the `nb` versions there are.
Pret(d, nb) ==
    /\ d.etape \in {"derniere", "figer"} => Coherente(d.fiche)
    /\ d.etape = "figer" => d.derniere <= nb

Prets == \A p \in Requetes : Pret(demandes[p], Len(versions))

VersionsCoherentes == \A n \in 1..Len(versions) : Coherente(versions[n])

Inv == /\ TypeOK
       /\ Prets
       /\ VersionsCoherentes
       /\ VersionsDistinctes
       /\ ligne.version <= Len(versions)

Demande == [etape : Etapes, robot : BOOLEAN, derniere : Nat, fiche : Contenu, lu : Lu]

-----------------------------------------------------------------------------
\* A step that leaves the versions, and the published number, as they are.
LEMMA SansVersion ==
    ASSUME Inv, NEW p \in Requetes, NEW d \in Demande, Pret(d, Len(versions)), Passer(p, d),
           ligne' \in Ligne, ligne'.version = ligne.version,
           consignes' \subseteq Sources, UNCHANGED versions
    PROVE  Inv'
<1>1. demandes' \in [Requetes -> Demande] /\ demandes'[p] = d
      /\ \A q \in Requetes \ {p} : demandes'[q] = demandes[q]
  BY DEF Inv, TypeOK, Passer, Demande
<1>2. TypeOK'
  BY <1>1 DEF Inv, TypeOK, Demande
<1>3. Prets'
  BY <1>1 DEF Inv, Prets, Pret
<1> QED
  BY <1>2, <1>3 DEF Inv, VersionsCoherentes, VersionsDistinctes

LEMMA ReposDemande == Repos \in Demande /\ \A nb \in Nat : Pret(Repos, nb)
BY DEF Repos, Demande, Pret, Etapes, Contenu, Lu

LEMMA LectureType == TypeOK => Lecture \in Lu
BY DEF TypeOK, Ligne, Lecture, Lu

\* A save, from the route to its commit.
LEMMA SauvegardeGarde ==
    ASSUME Fiches \subseteq Contenu, Inv, NEW p \in Requetes,
           \/ \E f \in Fiches : Enregistrer(p, f)
           \/ \E s \in Sources : Deriver(p, s)
           \/ Lire(p)
           \/ Ecrire(p)
    PROVE  Inv'
<1>1. /\ TypeOK /\ ligne \in Ligne /\ consignes \subseteq Sources
      /\ demandes[p] \in Demande
  BY DEF Inv, TypeOK, Demande
<1>2. CASE \E f \in Fiches : Enregistrer(p, f)
  <2>1. PICK f \in Fiches : Enregistrer(p, f)
    BY <1>2
  <2> DEFINE d == [Repos EXCEPT !.etape = "lire", !.fiche = f]
  <2>2. d \in Demande /\ Pret(d, Len(versions))
    BY ReposDemande DEF Demande, Pret, Etapes, Repos
  <2>3. Passer(p, d) /\ UNCHANGED <<ligne, consignes, versions>>
    BY <2>1 DEF Enregistrer
  <2> HIDE DEF d
  <2> QED
    BY <1>1, <2>2, <2>3, SansVersion
<1>3. CASE \E s \in Sources : Deriver(p, s)
  <2>1. PICK s \in Sources : Deriver(p, s)
    BY <1>3
  <2> DEFINE f == [sources |-> {s}, consignes |-> {}]
             d == [Repos EXCEPT !.etape = "lire", !.robot = TRUE, !.fiche = f]
  <2>2. f \in Contenu
    BY DEF Contenu
  <2>3. Passer(p, d) /\ UNCHANGED <<ligne, consignes, versions>>
    BY <2>1 DEF Deriver
  <2> HIDE DEF f
  <2>4. d \in Demande /\ Pret(d, Len(versions))
    BY <2>2, ReposDemande DEF Demande, Pret, Etapes, Repos
  <2> HIDE DEF d
  <2> QED
    BY <1>1, <2>3, <2>4, SansVersion
<1>4. CASE Lire(p)
  <2> DEFINE d == [demandes[p] EXCEPT !.etape = "ecrire", !.lu = Lecture]
  <2>1. d \in Demande /\ Pret(d, Len(versions))
    BY <1>1, LectureType DEF Demande, Pret, Etapes
  <2>2. Passer(p, d) /\ UNCHANGED <<ligne, consignes, versions>>
    BY <1>4 DEF Lire
  <2> HIDE DEF d
  <2> QED
    BY <1>1, <2>1, <2>2, SansVersion
<1>5. CASE Ecrire(p)
  <2> DEFINE r == demandes[p]
             d == IF r.robot THEN [Repos EXCEPT !.etape = "ligne", !.robot = TRUE]
                  ELSE Repos
  <2>1. d \in Demande /\ Pret(d, Len(versions))
    BY ReposDemande DEF Demande, Pret, Etapes, Repos
  <2>2. Passer(p, d) /\ UNCHANGED versions /\ consignes' = r.fiche.consignes
    BY <1>5 DEF Ecrire
  <2>3. ligne' = IF r.lu.existe
                 THEN [ligne EXCEPT !.sources = IF r.fiche.sources # r.lu.sources
                                                THEN r.fiche.sources ELSE @]
                 ELSE [ligne EXCEPT !.existe = TRUE, !.suivi = r.robot,
                                    !.sources = r.fiche.sources]
    BY <1>5 DEF Ecrire
  <2>4. /\ r.robot \in BOOLEAN /\ r.fiche.sources \subseteq Sources
        /\ r.fiche.consignes \subseteq Sources
    BY <1>1 DEF Demande, Contenu
  <2> HIDE DEF r, d
  <2>5. ligne' \in Ligne /\ ligne'.version = ligne.version
    BY <1>1, <2>3, <2>4 DEF Ligne
  <2> QED
    BY <2>1, <2>2, <2>4, <2>5, SansVersion
<1> QED
  BY <1>2, <1>3, <1>4, <1>5

\* A publication, until it has read all it decides on.
LEMMA LecturesGarde ==
    ASSUME Inv, NEW p \in Requetes,
           Publier(p) \/ LireLigne(p) \/ LireConsignes(p) \/ LireDerniere(p)
    PROVE  Inv'
<1>1. /\ TypeOK /\ ligne \in Ligne /\ consignes \subseteq Sources
      /\ demandes[p] \in Demande /\ Pret(demandes[p], Len(versions)) /\ Len(versions) \in Nat
  BY DEF Inv, TypeOK, Demande, Prets
<1>2. CASE Publier(p)
  <2> DEFINE d == [Repos EXCEPT !.etape = "ligne"]
  <2>1. d \in Demande /\ Pret(d, Len(versions))
    BY ReposDemande DEF Demande, Pret, Etapes, Repos
  <2>2. Passer(p, d) /\ UNCHANGED <<ligne, consignes, versions>>
    BY <1>2 DEF Publier
  <2> HIDE DEF d
  <2> QED
    BY <1>1, <2>1, <2>2, SansVersion
<1>3. CASE LireLigne(p)
  <2> DEFINE d == [demandes[p] EXCEPT !.etape = "consignes", !.lu = Lecture,
                                      !.fiche.sources = ligne.sources]
  <2>1. ligne.sources \subseteq Sources
    BY <1>1 DEF Ligne
  <2>2. d \in Demande /\ Pret(d, Len(versions))
    BY <1>1, <2>1, LectureType DEF Demande, Pret, Etapes, Contenu
  <2>3. Passer(p, d) /\ UNCHANGED <<ligne, consignes, versions>>
    BY <1>3 DEF LireLigne
  <2> HIDE DEF d
  <2> QED
    BY <1>1, <2>2, <2>3, SansVersion
<1>4. CASE LireConsignes(p)
  <2> DEFINE f == [demandes[p].fiche EXCEPT !.consignes = consignes]
             d == [demandes[p] EXCEPT !.etape = "derniere", !.fiche.consignes = consignes]
  <2>1. d.fiche = f /\ d.etape = "derniere" /\ d \in Demande
    BY <1>1 DEF Demande, Etapes, Contenu
  <2>2. /\ Coherente(f) /\ Passer(p, d)
        /\ UNCHANGED <<ligne, consignes, versions>>
    BY <1>4 DEF LireConsignes
  <2> HIDE DEF d, f
  <2>3. Pret(d, Len(versions))
    BY <2>1, <2>2 DEF Pret
  <2> QED
    BY <1>1, <2>1, <2>2, <2>3, SansVersion
<1>5. CASE LireDerniere(p)
  <2> DEFINE d == [demandes[p] EXCEPT !.etape = "figer", !.derniere = Len(versions)]
  <2>1. demandes[p].etape = "derniere" /\ Passer(p, d)
        /\ UNCHANGED <<ligne, consignes, versions>>
    BY <1>5 DEF LireDerniere
  <2>2. /\ d \in Demande /\ d.etape = "figer" /\ d.derniere = Len(versions)
        /\ d.fiche = demandes[p].fiche
    BY <1>1 DEF Demande, Etapes
  <2> HIDE DEF d
  <2>3. Pret(d, Len(versions))
    BY <1>1, <2>1, <2>2 DEF Pret
  <2> QED
    BY <1>1, <2>1, <2>2, <2>3, SansVersion
<1> QED
  BY <1>2, <1>3, <1>4, <1>5

\* Its commit: the version it adds follows the one it compared itself with.
LEMMA FigerGarde ==
    ASSUME Inv, NEW p \in Requetes, Figer(p)
    PROVE  Inv'
<1> DEFINE d == demandes[p]
           n == d.derniere
           deja == n > 0 /\ versions[n] = d.fiche
<1>1. FigerSelon(p, deja)
  BY DEF Figer
<1>2. /\ ligne \in Ligne /\ consignes \subseteq Sources
      /\ versions \in Seq(Contenu) /\ d \in Demande /\ d.etape = "figer"
      /\ Coherente(d.fiche) /\ n \in Nat /\ n <= Len(versions)
      /\ d.fiche \in Contenu /\ Len(versions) \in Nat /\ ligne.version \in Nat
      /\ ligne.version <= Len(versions)
  BY <1>1 DEF Inv, TypeOK, Prets, Pret, FigerSelon, Demande, Ligne
<1>3. Passer(p, Repos) /\ UNCHANGED consignes
  BY <1>1 DEF FigerSelon
<1>4. demandes' \in [Requetes -> Demande] /\ demandes'[p] = Repos
      /\ \A q \in Requetes \ {p} : demandes'[q] = demandes[q]
  BY <1>3, ReposDemande DEF Inv, TypeOK, Passer, Demande
<1>5. CASE deja
  <2>1. UNCHANGED versions
        /\ ligne' = [ligne EXCEPT !.version = IF n # d.lu.version THEN n ELSE @]
    BY <1>1, <1>5 DEF FigerSelon
  <2> HIDE DEF n, d, deja
  <2>2. ligne' \in Ligne /\ ligne'.version <= Len(versions)
    BY <1>2, <2>1 DEF Ligne
  <2>3. TypeOK'
    BY <1>2, <1>3, <1>4, <2>1, <2>2 DEF TypeOK, Demande
  <2>4. Prets'
    BY <1>4, <2>1, ReposDemande DEF Inv, Prets, Pret, Repos
  <2> QED
    BY <2>1, <2>2, <2>3, <2>4 DEF Inv, VersionsCoherentes, VersionsDistinctes
<1>6. CASE ~deja
  <2>1. /\ Len(versions) = n /\ versions' = Append(versions, d.fiche)
        /\ ligne' = [ligne EXCEPT !.version = n + 1]
    BY <1>1, <1>6 DEF FigerSelon
  <2>2. n > 0 => versions[n] # d.fiche
    BY <1>6
  <2> HIDE DEF n, d, deja
  <2>3. /\ versions' \in Seq(Contenu) /\ Len(versions') = n + 1
        /\ versions'[n + 1] = d.fiche
        /\ \A k \in 1..n : versions'[k] = versions[k]
    BY <1>2, <2>1
  <2>4. ligne' \in Ligne /\ ligne'.version = n + 1
    BY <1>2, <2>1 DEF Ligne
  <2>5. TypeOK'
    BY <1>2, <1>3, <1>4, <2>3, <2>4 DEF TypeOK, Demande
  <2>6. Prets'
    <3>1. ASSUME NEW q \in Requetes PROVE Pret(demandes'[q], Len(versions'))
      <4>1. CASE q = p
        BY <4>1, <1>4 DEF Pret, Repos
      <4>2. CASE q # p
        <5>1. demandes'[q] = demandes[q] /\ Pret(demandes[q], Len(versions)) /\ demandes[q].derniere \in Nat
          BY <4>2, <1>4 DEF Inv, Prets, TypeOK
        <5> QED
          BY <5>1, <1>2, <2>1, <2>3 DEF Pret
      <4> QED
        BY <4>1, <4>2
    <3> QED
      BY <3>1 DEF Prets
  <2>7. VersionsCoherentes'
    BY <1>2, <2>1, <2>3 DEF Inv, VersionsCoherentes
  <2>8. VersionsDistinctes'
    <3>1. ASSUME NEW k \in 1..(n + 1), k > 1
          PROVE  versions'[k] # versions'[k - 1]
      <4>1. CASE k = n + 1
        BY <4>1, <3>1, <1>2, <2>2, <2>3
      <4>2. CASE k # n + 1
        <5>1. k \in 1..n /\ k - 1 \in 1..n
          BY <4>2, <3>1, <1>2
        <5> QED
          BY <5>1, <3>1, <2>1, <2>3 DEF Inv, VersionsDistinctes
      <4> QED
        BY <4>1, <4>2
    <3> QED
      BY <3>1, <2>3 DEF VersionsDistinctes
  <2> QED
    BY <1>2, <2>3, <2>4, <2>5, <2>6, <2>7, <2>8 DEF Inv
<1> QED
  BY <1>5, <1>6

LEMMA InitInv == Init => Inv
<1> SUFFICES ASSUME Init PROVE Inv
  OBVIOUS
<1>1. TypeOK
  BY ReposDemande DEF Init, TypeOK, Ligne, Demande
<1>2. Prets
  BY ReposDemande DEF Init, Prets
<1> QED
  BY <1>1, <1>2 DEF Init, Inv, VersionsCoherentes, VersionsDistinctes

LEMMA EtapeGarde ==
    ASSUME Fiches \subseteq Contenu, Inv, [Next]_vars
    PROVE  Inv'
<1>1. CASE UNCHANGED vars
  BY <1>1 DEF vars, Inv, TypeOK, Prets, Pret, VersionsCoherentes, VersionsDistinctes
<1>2. CASE Archiver \/ Suivre
  <2>1. PICK b \in BOOLEAN : ligne' = [ligne EXCEPT !.archivee = b]
    BY <1>2 DEF Archiver, Suivre
  <2>2. UNCHANGED <<consignes, versions, demandes>>
    BY <1>2 DEF Archiver, Suivre
  <2>3. ligne' \in Ligne /\ ligne'.version = ligne.version
    BY <2>1 DEF Inv, TypeOK, Ligne
  <2> QED
    BY <2>2, <2>3 DEF Inv, TypeOK, Prets, Pret, VersionsCoherentes, VersionsDistinctes
<1>3. ASSUME NEW p \in Requetes, Abandonner(p)
      PROVE  Inv'
  BY <1>3, ReposDemande, SansVersion DEF Abandonner, Inv, TypeOK
<1> QED
  BY <1>1, <1>2, <1>3, SauvegardeGarde, LecturesGarde, FigerGarde DEF Next

-----------------------------------------------------------------------------
\* The rows and the functions in flight keep their shapes, whatever contents
\* are sent, for any number of functions (assistant_store.py).
THEOREM TypesGardes ==
    ASSUME Fiches \subseteq Contenu
    PROVE  Spec => []TypeOK
<1>1. Inv => TypeOK
  BY DEF Inv
<1> QED
  BY <1>1, InitInv, EtapeGarde, PTL DEF Spec

\* assistant_store.publier, "publier deux fois le même brouillon ne fait
\* qu'une version": with any number of saves and publications in flight.
THEOREM VersionsToujoursDistinctes ==
    ASSUME Fiches \subseteq Contenu
    PROVE  Spec => []VersionsDistinctes
<1>1. Inv => VersionsDistinctes
  BY DEF Inv
<1> QED
  BY <1>1, InitInv, EtapeGarde, PTL DEF Spec

\* assistant_store.version_publiee: the version said published is there and
\* can be read, with any number of saves and publications in flight.
THEOREM VersionsToujoursServables ==
    ASSUME Fiches \subseteq Contenu
    PROVE  Spec => []VersionsServables
<1>1. Inv => VersionsServables
  BY DEF Inv, TypeOK, Ligne, VersionsCoherentes, VersionsServables
<1> QED
  BY <1>1, InitInv, EtapeGarde, PTL DEF Spec
=============================================================================
