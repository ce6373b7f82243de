-------------------------- MODULE Ingestion_proofs --------------------------
(***************************************************************************)
(* The jobs of a collection, for any files, any cutting of them and any    *)
(* number of routes, however they interleave and wherever the process      *)
(* stops: their counts are right, their end is announced once, and what is *)
(* done is searchable.                                                     *)
(*                                                                         *)
(* None is inductive.  Suivi says of a job alone what its task has left to *)
(* count; Lancables and Reprenables that no two will run the same job; and *)
(* Place that the rows never outgrow the bound of the model.  Indexe says  *)
(* that what is searchable and what a task has left hold a whole version.  *)
(*                                                                         *)
(* Then the two scenarios of MCIngestion.  Where nothing but an erasure is *)
(* refused, InvServie follows the job that answers for a file: the tasks   *)
(* of earlier jobs may still send what a reindexing has erased.            *)
(***************************************************************************)
EXTENDS MCIngestion, FiniteSetTheorems, SequenceTheorems, TLAPS

\* The counts of a job, whoever runs it.
Juste(t) ==
    /\ t.echecs <= t.envoyes /\ t.envoyes <= t.total
    /\ t.statut \in {"done", "done_with_errors"} =>
          t.envoyes = t.total /\ (t.statut = "done" <=> t.echecs = 0)

\* Its task has yet to count what the job has not counted.
Accordee(t, k) ==
    /\ k # Repos /\ k.etape # "annoncer" =>
          t.statut \in ETATS_EN_COURS /\ t.envoyes + Len(k.reste) = t.total
    /\ k.etape \in {"envoyer", "suivre", "compter"} => k.reste # <<>>
    /\ k.etape = "finir" => k.reste = <<>>
    /\ k.etape = "annoncer" => t.statut \in {"done", "done_with_errors"}

\* A job, its task and its events.
Suivi(t, k, n) ==
    /\ Juste(t)
    /\ Accordee(t, k)
    /\ n <= 1
    /\ n = 1 => t.statut \in Termines /\ k = Repos

Suivis == /\ \A j \in 1 .. Len(travaux) : Suivi(travaux[j], tache[j], annonces[j])
          /\ \A j \in Numeros : j > Len(travaux) => tache[j] = Repos /\ annonces[j] = 0

\* A row that is created, and has no task yet.
Vierge(t) == t.statut = "chunking" /\ t.total = 0 /\ t.envoyes = 0 /\ t.echecs = 0

\* What a route is about to launch is new, and nobody else runs it.
Lancables ==
    \A p \in Requetes : Etape(p, "lancer") =>
        LET j == requete[p].travail
        IN  /\ j \in 1 .. Len(travaux) /\ Vierge(travaux[j]) /\ tache[j] = Repos
            /\ j \notin reprise
            /\ \A q \in Requetes \ {p} : Etape(q, "lancer") => requete[q].travail # j

\* What is to be resumed was in progress, and has no task.
Reprenables ==
    \A j \in reprise : /\ j \in 1 .. Len(travaux) /\ tache[j] = Repos
                       /\ travaux[j].statut \in ETATS_EN_COURS

\* A route has files to take in.
Chargee(r) == r # Repos => Len(r.suite) \in 1 .. MaxTravaux

Place == /\ \A p \in Requetes : Chargee(requete[p])
         /\ Len(travaux) + Attendus <= MaxTravaux

Inv == TypeOK /\ Suivis /\ Lancables /\ Reprenables /\ Place

-----------------------------------------------------------------------------
(* What is waited for.                                                     *)

LEMMA AttenteFinie == /\ IsFiniteSet(Attente) /\ Attendus \in Nat
                      /\ IsFiniteSet(Attente') /\ Attendus' \in Nat
<1> DEFINE S == Requetes \X Numeros
<1>1. IsFiniteSet(Numeros)
  BY BornesAssumption, FS_Interval DEF Numeros
<1>2. IsFiniteSet(S)
  BY <1>1, FiniAssumption, FS_Product
<1>3. Attente \in SUBSET S /\ Attente' \in SUBSET S
  BY DEF Attente
<1> QED
  BY <1>2, <1>3, FS_Subset, FS_CardinalityType DEF Attendus

-----------------------------------------------------------------------------
(* What a step of a route adds to what is waited for.                      *)

\* The numbers of the files a route still waits for.
Reste(r) == {n \in Numeros : /\ r # Repos /\ n <= Len(r.suite)
                             /\ n > 1 \/ r.etape # "lancer"}

LEMMA AttenteCouples ==
    /\ \A a \in Attente : a = <<a[1], a[2]>> /\ a[1] \in Requetes /\ a[2] \in Reste(requete[a[1]])
    /\ \A a \in Attente' : a = <<a[1], a[2]>> /\ a[1] \in Requetes /\ a[2] \in Reste(requete'[a[1]])
    /\ \A p \in Requetes : \A n \in Reste(requete[p]) : <<p, n>> \in Attente
BY DEF Attente, Reste

\* A route that waits for nothing it did not wait for.
LEMMA AttenteMoindre ==
    ASSUME NEW p \in Requetes,
           \A q \in Requetes \ {p} : requete'[q] = requete[q],
           Reste(requete'[p]) \subseteq Reste(requete[p])
    PROVE  Attendus' <= Attendus
<1>1. Attente' \in SUBSET Attente
  BY AttenteCouples
<1> QED
  BY <1>1, AttenteFinie, FS_Subset DEF Attendus

\* A route that has created the job of its first file.
LEMMA AttenteServie ==
    ASSUME NEW p \in Requetes,
           \A q \in Requetes \ {p} : requete'[q] = requete[q],
           1 \in Reste(requete[p]),
           Reste(requete'[p]) \subseteq Reste(requete[p]) \ {1}
    PROVE  Attendus' <= Attendus - 1
<1>1. Attente' \in SUBSET (Attente \ {<<p, 1>>}) /\ <<p, 1>> \in Attente
  BY AttenteCouples
<1>2. /\ IsFiniteSet(Attente \ {<<p, 1>>})
      /\ Cardinality(Attente \ {<<p, 1>>}) = Attendus - 1
  BY <1>1, AttenteFinie, FS_RemoveElement DEF Attendus
<1>3. Attendus' <= Cardinality(Attente \ {<<p, 1>>})
  BY <1>1, <1>2, FS_Subset DEF Attendus
<1> QED
  BY <1>2, <1>3

\* A route that goes on with its next file: its last number is the first of
\* what is left.
LEMMA AttenteSuivante ==
    ASSUME NEW p \in Requetes,
           \A q \in Requetes \ {p} : requete'[q] = requete[q],
           NEW n \in Reste(requete[p]), n # 1,
           Reste(requete'[p]) \subseteq (Reste(requete[p]) \ {n}) \cup {1}
    PROVE  Attendus' <= Attendus
<1> DEFINE S == Attente \ {<<p, n>>}
           T == S \cup {<<p, 1>>}
<1>1. Attente' \in SUBSET T /\ <<p, n>> \in Attente
  BY AttenteCouples
<1>2. IsFiniteSet(S) /\ Cardinality(S) = Attendus - 1
  BY <1>1, AttenteFinie, FS_RemoveElement DEF Attendus
<1> HIDE DEF S
<1>3. IsFiniteSet(T) /\ Cardinality(T) <= Attendus
  <2>1. /\ IsFiniteSet(T)
        /\ Cardinality(T) = IF <<p, 1>> \in S THEN Cardinality(S) ELSE Cardinality(S) + 1
    BY <1>2, FS_AddElement
  <2> QED
    BY <1>2, <2>1, AttenteFinie
<1> HIDE DEF T
<1>4. Attendus' <= Cardinality(T)
  BY <1>1, <1>3, FS_Subset DEF Attendus
<1>5. Cardinality(T) \in Nat
  BY <1>3, FS_CardinalityType
<1> QED
  BY <1>3, <1>4, <1>5, AttenteFinie

\* A route that takes files in.
LEMMA AttenteAjoutee ==
    ASSUME NEW p \in Requetes, NEW k \in Nat,
           \A q \in Requetes \ {p} : requete'[q] = requete[q],
           Reste(requete'[p]) \subseteq 1 .. k
    PROVE  Attendus' <= Attendus + k
<1> DEFINE S == {p} \X (1 .. k)
           T == Attente \cup S
<1>1. Attente' \in SUBSET T
  BY AttenteCouples
<1>2. /\ IsFiniteSet({p}) /\ Cardinality({p}) = 1
      /\ IsFiniteSet(1 .. k) /\ Cardinality(1 .. k) = k
  <2>1. IsFiniteSet({p}) /\ Cardinality({p}) = 1
    BY FS_Singleton
  <2>2. IsFiniteSet(1 .. k) /\ Cardinality(1 .. k) = IF 1 > k THEN 0 ELSE k - 1 + 1
    BY FS_Interval
  <2> QED
    BY <2>1, <2>2
<1>3. IsFiniteSet(S) /\ Cardinality(S) = k
  <2>1. IsFiniteSet(S) /\ Cardinality(S) = Cardinality({p}) * Cardinality(1 .. k)
    BY <1>2, FS_Product
  <2>2. Cardinality(S) = 1 * k
    BY <1>2, <2>1
  <2> QED
    BY <2>1, <2>2
<1> HIDE DEF S
<1>4. IsFiniteSet(Attente \cap S) /\ Cardinality(Attente \cap S) \in Nat
  BY <1>3, FS_Subset, FS_CardinalityType
<1>5. /\ IsFiniteSet(T)
      /\ Cardinality(T) = Attendus + Cardinality(S) - Cardinality(Attente \cap S)
  BY <1>3, AttenteFinie, FS_Union DEF Attendus
<1> HIDE DEF T
<1>6. Attendus' <= Cardinality(T) /\ Cardinality(T) \in Nat
  BY <1>1, <1>5, FS_Subset, FS_CardinalityType DEF Attendus
<1> QED
  BY <1>3, <1>4, <1>5, <1>6, AttenteFinie

-----------------------------------------------------------------------------
(* Steps of one job, steps of one route, steps of neither.                 *)

\* A job that no route is about to launch moves, with its task.
LEMMA TravailGarde ==
    ASSUME Inv, NEW j \in 1 .. Len(travaux),
           \A p \in Requetes : Etape(p, "lancer") => requete[p].travail # j,
           NEW t \in Travail, NEW k \in Tache \cup {Repos}, NEW n \in Nat, Suivi(t, k, n),
           travaux' = [travaux EXCEPT ![j] = t],
           tache' = [tache EXCEPT ![j] = k],
           annonces' = [annonces EXCEPT ![j] = n],
           reprise' \subseteq reprise \ {j},
           index' \subseteq Morceaux, lecture' \subseteq Lecture,
           UNCHANGED <<disque, sources, requete, arrets>>
    PROVE  Inv'
<1>1. /\ TypeOK /\ Suivis /\ Lancables /\ Reprenables /\ Place
      /\ travaux \in Seq(Travail) /\ Len(travaux) \in Nat /\ Len(travaux) <= MaxTravaux
      /\ tache \in [Numeros -> Tache \cup {Repos}] /\ annonces \in [Numeros -> Nat]
      /\ MaxTravaux \in Nat
  BY BornesAssumption DEF Inv, TypeOK
<1>2. j \in Numeros
  BY <1>1 DEF Numeros
<1>3. /\ travaux' \in Seq(Travail) /\ Len(travaux') = Len(travaux) /\ travaux'[j] = t
      /\ \A i \in 1 .. Len(travaux) : i # j => travaux'[i] = travaux[i]
  BY <1>1, ExceptSeq
<1>4. /\ tache' \in [Numeros -> Tache \cup {Repos}] /\ annonces' \in [Numeros -> Nat]
      /\ tache'[j] = k /\ annonces'[j] = n
      /\ \A i \in Numeros : i # j => tache'[i] = tache[i] /\ annonces'[i] = annonces[i]
  BY <1>1, <1>2
<1>5. TypeOK'
  BY <1>1, <1>3, <1>4 DEF TypeOK
<1>6. Suivis'
  BY <1>1, <1>3, <1>4 DEF Suivis, Suivi, Juste, Accordee, Numeros
<1>7. Lancables'
  BY <1>1, <1>3, <1>4 DEF Lancables, Etape, Vierge, Numeros
<1>8. Reprenables'
  BY <1>1, <1>3, <1>4 DEF Reprenables, Numeros
<1>9. Place'
  BY <1>1, <1>3 DEF Place, Attendus, Attente, Chargee
<1> QED
  BY <1>5, <1>6, <1>7, <1>8, <1>9 DEF Inv

\* A route moves, and does not come to launch a job.
LEMMA RouteGarde ==
    ASSUME Inv, NEW p \in Requetes, NEW r \in Route \cup {Repos}, Aller(p, r),
           r.etape # "lancer", Chargee(r),
           Len(travaux) + Attendus' <= MaxTravaux,
           disque' \in [Fichiers -> Contenus \cup {Rien}], sources' \subseteq Fichiers,
           index' \subseteq Morceaux,
           UNCHANGED <<travaux, annonces, tache, lecture, reprise, arrets>>
    PROVE  Inv'
<1>1. /\ TypeOK /\ Suivis /\ Lancables /\ Reprenables /\ Place
      /\ requete \in [Requetes -> Route \cup {Repos}]
  BY DEF Inv, TypeOK
<1>2. /\ requete' \in [Requetes -> Route \cup {Repos}] /\ requete'[p] = r
      /\ \A q \in Requetes \ {p} : requete'[q] = requete[q]
  BY <1>1 DEF Aller
<1>3. TypeOK'
  BY <1>1, <1>2 DEF TypeOK
<1>4. Suivis' /\ Reprenables'
  BY <1>1 DEF Suivis, Suivi, Juste, Accordee, Reprenables
<1>5. Lancables'
  BY <1>1, <1>2 DEF Lancables, Etape, Vierge
<1>6. Place'
  BY <1>1, <1>2 DEF Place, Chargee
<1> QED
  BY <1>3, <1>4, <1>5, <1>6 DEF Inv

\* What comes from outside moves no row, no task and no route.
LEMMA DehorsGarde ==
    ASSUME Inv,
           disque' \in [Fichiers -> Contenus \cup {Rien}],
           index' \subseteq Morceaux, lecture' \subseteq Lecture,
           UNCHANGED <<tables, memoire, arrets>>
    PROVE  Inv'
<1>1. TypeOK /\ Suivis /\ Lancables /\ Reprenables /\ Place
  BY DEF Inv
<1>2. UNCHANGED <<sources, travaux, annonces, tache, requete, reprise, arrets>>
  BY DEF tables, memoire
<1>3. TypeOK'
  BY <1>1, <1>2 DEF TypeOK
<1>4. Suivis' /\ Reprenables'
  BY <1>1, <1>2 DEF Suivis, Suivi, Juste, Accordee, Reprenables
<1>5. Lancables' /\ Place'
  BY <1>1, <1>2 DEF Lancables, Etape, Vierge, Place, Chargee, Attendus, Attente
<1> QED
  BY <1>3, <1>4, <1>5 DEF Inv

-----------------------------------------------------------------------------
(* The routes.                                                             *)

\* The chunks of a content are chunks.
LEMMA DecoupeType ==
    ASSUME NEW c \in Contenus, NEW s \in Strategies \cup {STRATEGIE_DOCUMENT}
    PROVE  /\ Decoupe[<<c, s>>] \in Seq(Morceaux)
           /\ Range(Decoupe[<<c, s>>]) \subseteq Morceaux
<1>1. <<c, s>> \in Decoupages
  BY DEF Decoupages
<1>2. Range(Decoupe[<<c, s>>]) \subseteq Morceaux /\ Decoupe[<<c, s>>] \in Seq(Range(Decoupe[<<c, s>>]))
  BY <1>1, DecoupeAssumption DEF Morceaux
<1> QED
  BY <1>2, SeqMonotonic

LEMMA RouteType ==
    ASSUME Inv, NEW p \in Requetes, requete[p] # Repos
    PROVE  /\ requete[p] \in Route
           /\ requete[p].suite \in Seq(Piece) /\ requete[p].suite # <<>>
           /\ Len(requete[p].suite) \in 1 .. MaxTravaux
           /\ Courante(p) \in Piece
<1>1. requete[p] \in Route /\ Len(requete[p].suite) \in 1 .. MaxTravaux
  BY DEF Inv, TypeOK, Place, Chargee
<1>2. requete[p].suite \in Seq(Piece)
  BY <1>1 DEF Route
<1>3. requete[p].suite # <<>>
  BY <1>1, <1>2, EmptySeq
<1> QED
  BY <1>1, <1>2, <1>3, HeadTailProperties DEF Courante

\* A route goes to its next step, with the same files.
LEMMA EtapeRouteGarde ==
    ASSUME Inv, NEW p \in Requetes, requete[p] # Repos, ~Etape(p, "lancer"),
           NEW e \in {"recreer", "sauver", "noter", "creer"},
           Aller(p, [requete[p] EXCEPT !.etape = e]),
           disque' \in [Fichiers -> Contenus \cup {Rien}], sources' \subseteq Fichiers,
           index' \subseteq Morceaux,
           UNCHANGED <<travaux, annonces, tache, lecture, reprise, arrets>>
    PROVE  Inv'
<1> DEFINE r == [requete[p] EXCEPT !.etape = e]
<1>1. requete[p] \in Route /\ Len(requete[p].suite) \in 1 .. MaxTravaux
  BY RouteType
<1>2. r \in Route /\ r.etape = e /\ r.suite = requete[p].suite
  BY <1>1 DEF Route
<1> HIDE DEF r
<1>3. Chargee(r)
  BY <1>1, <1>2 DEF Chargee
<1>4. requete \in [Requetes -> Route \cup {Repos}]
  BY DEF Inv, TypeOK
<1>5. requete'[p] = r /\ \A q \in Requetes \ {p} : requete'[q] = requete[q]
  BY <1>4 DEF Aller, r
<1>6. Reste(r) \subseteq Reste(requete[p])
  BY <1>2 DEF Reste, Etape
<1>7. Attendus' <= Attendus
  BY <1>5, <1>6, AttenteMoindre
<1>8. Len(travaux) + Attendus' <= MaxTravaux
  BY <1>7, AttenteFinie, BornesAssumption DEF Inv, TypeOK, Place
<1> QED
  BY <1>2, <1>3, <1>8, RouteGarde DEF r

\* A route that ends, or is refused.
LEMMA FinRouteGarde ==
    ASSUME Inv, NEW p \in Requetes, Aller(p, Repos),
           UNCHANGED <<disque, tables, tache, openrag, reprise, arrets>>
    PROVE  Inv'
<1>1. requete'[p] = Repos /\ \A q \in Requetes \ {p} : requete'[q] = requete[q]
  BY DEF Inv, TypeOK, Aller
<1>2. Attendus' <= Attendus
  BY <1>1, AttenteMoindre DEF Reste
<1>3. Len(travaux) + Attendus' <= MaxTravaux
  BY <1>2, AttenteFinie, BornesAssumption DEF Inv, TypeOK, Place
<1>4. /\ disque' \in [Fichiers -> Contenus \cup {Rien}] /\ sources' \subseteq Fichiers
      /\ index' \subseteq Morceaux
      /\ UNCHANGED <<travaux, annonces, tache, lecture, reprise, arrets>>
  BY DEF Inv, TypeOK, tables, openrag
<1> QED
  BY <1>3, <1>4, RouteGarde DEF Repos, Chargee

\* A route is asked for, with its files.
LEMMA DemandeGarde ==
    ASSUME Inv, NEW p \in Requetes, NEW r \in Route, r.etape # "lancer",
           r.suite # <<>>, PlacePour(Len(r.suite)), Aller(p, r),
           UNCHANGED <<disque, tables, tache, openrag, reprise, arrets>>
    PROVE  Inv'
<1> DEFINE k == Len(r.suite)
<1>0. k \in Nat /\ k # 0
  BY EmptySeq DEF Route
<1>1. /\ requete'[p] = r /\ \A q \in Requetes \ {p} : requete'[q] = requete[q]
      /\ Len(travaux) \in Nat
  BY DEF Inv, TypeOK, Aller
<1>2. Reste(r) \subseteq 1 .. k
  BY DEF Reste, Numeros
<1>3. Attendus' <= Attendus + k
  BY <1>0, <1>1, <1>2, AttenteAjoutee
<1>4. Len(travaux) + Attendus' <= MaxTravaux /\ k \in 1 .. MaxTravaux
  BY <1>0, <1>1, <1>3, AttenteFinie, BornesAssumption DEF PlacePour
<1>5. /\ disque' \in [Fichiers -> Contenus \cup {Rien}] /\ sources' \subseteq Fichiers
      /\ index' \subseteq Morceaux
      /\ UNCHANGED <<travaux, annonces, tache, lecture, reprise, arrets>>
  BY DEF Inv, TypeOK, tables, openrag
<1> QED
  BY <1>4, <1>5, RouteGarde DEF Chargee

LEMMA DeposerGarde ==
    ASSUME Inv, NEW p \in Requetes, NEW f \in Fichiers, NEW c \in Contenus,
           NEW s \in Strategies, Deposer(p, f, c, s)
    PROVE  Inv'
<1> DEFINE piece == [fichier |-> f, contenu |-> c]
           suite == <<piece>>
           r == [etape |-> "sauver", strategie |-> s, travail |-> 0, suite |-> suite]
<1>1. piece \in Piece
  BY DEF Piece
<1> HIDE DEF piece
<1>2. suite \in Seq(Piece) /\ Len(suite) = 1
  BY <1>1
<1>3. Aller(p, r) /\ PlacePour(Len(suite))
      /\ UNCHANGED <<disque, tables, tache, openrag, reprise, arrets>>
  BY <1>2 DEF Deposer, piece
<1> HIDE DEF suite
<1>4. r \in Route /\ r.etape = "sauver" /\ r.suite = suite /\ suite # <<>>
  BY <1>2, EmptySeq, BornesAssumption DEF Route
<1> HIDE DEF r
<1> QED
  BY <1>3, <1>4, DemandeGarde

\* Some sequence of a finite set is its sequence.
LEMMA SuiteDeEnsemble ==
    ASSUME NEW S, IsFiniteSet(S)
    PROVE  SetToSeq(S) \in Seq(S) /\ Len(SetToSeq(S)) = Cardinality(S)
<1> DEFINE n == Cardinality(S)
<1>1. n \in Nat /\ ExistsBijection(1 .. n, S)
  BY FS_CardinalityType
<1>2. \E f \in [1 .. n -> S] : IsInjective(f)
  BY <1>1 DEF ExistsBijection, Bijection, Injection, IsInjective
<1>3. SetToSeq(S) \in [1 .. n -> S]
  BY <1>2 DEF SetToSeq
<1> QED
  BY <1>1, <1>3

LEMMA ReindexerGarde ==
    ASSUME Inv, NEW p \in Requetes, NEW s \in Strategies, Reindexer(p, s)
    PROVE  Inv'
<1> DEFINE piece == [f \in sources |-> [fichier |-> f, contenu |-> disque[f]]]
           pieces == {[fichier |-> f, contenu |-> disque[f]] : f \in sources}
           suite == SetToSeq(pieces)
           r == [etape |-> "vider", strategie |-> s, travail |-> 0, suite |-> suite]
<1>1. /\ disque \in [Fichiers -> Contenus \cup {Rien}] /\ sources \subseteq Fichiers
      /\ sources # {} /\ \A f \in sources : disque[f] # Rien
      /\ Len(travaux) \in Nat
  <2>1. sources # {} /\ \A f \in sources : disque[f] # Rien
    BY DEF Reindexer, Reindexable
  <2> QED
    BY <2>1 DEF Inv, TypeOK
<1>2. Aller(p, r) /\ PlacePour(Cardinality(sources))
      /\ UNCHANGED <<disque, tables, tache, openrag, reprise, arrets>>
  BY DEF Reindexer
<1>3. IsFiniteSet(sources) /\ Cardinality(sources) \in Nat
  BY <1>1, FiniAssumption, FS_Subset, FS_CardinalityType
<1>4. piece \in Surjection(sources, pieces)
  BY DEF Surjection
<1>5. IsFiniteSet(pieces) /\ Cardinality(pieces) <= Cardinality(sources)
  BY <1>3, <1>4, FS_Surjection
<1>6. /\ suite \in Seq(pieces) /\ Len(suite) = Cardinality(pieces)
      /\ Cardinality(pieces) \in Nat
  BY <1>5, SuiteDeEnsemble, FS_CardinalityType
<1>7. pieces \subseteq Piece /\ pieces # {}
  <2>1. ASSUME NEW f \in sources
        PROVE  [fichier |-> f, contenu |-> disque[f]] \in Piece
    BY <1>1 DEF Piece
  <2> QED
    BY <1>1, <2>1
<1>8. Cardinality(pieces) # 0
  BY <1>5, <1>7, FS_EmptySet
<1> HIDE DEF suite, pieces, piece
<1>9. suite \in Seq(Piece) /\ suite # <<>>
  BY <1>6, <1>7, <1>8, SeqMonotonic, EmptySeq
<1>10. PlacePour(Len(suite))
  BY <1>1, <1>2, <1>3, <1>5, <1>6, AttenteFinie, BornesAssumption DEF PlacePour
<1>11. r \in Route /\ r.etape = "vider" /\ r.suite = suite
  BY <1>9, BornesAssumption DEF Route
<1> HIDE DEF r
<1> QED
  BY <1>2, <1>9, <1>10, <1>11, DemandeGarde

\* The steps of a route that create no job.
LEMMA AvancerRouteGarde ==
    ASSUME Inv, NEW p \in Requetes,
           Sauver(p) \/ Noter(p) \/ Vider(p) \/ Recreer(p) \/ Abandonner(p)
    PROVE  Inv'
<1>1. /\ disque \in [Fichiers -> Contenus \cup {Rien}] /\ sources \subseteq Fichiers
      /\ index \subseteq Morceaux
  BY DEF Inv, TypeOK
<1>2. requete[p] # Repos
  BY RefusAssumption DEF Sauver, Noter, Vider, Recreer, Abandonner, Etape, Repos
<1>3. Courante(p) \in Piece
  BY <1>2, RouteType
<1>4. Courante(p).fichier \in Fichiers /\ Courante(p).contenu \in Contenus
  BY <1>3 DEF Piece
<1>5. CASE Sauver(p)
  <2>1. disque' \in [Fichiers -> Contenus \cup {Rien}]
    BY <1>1, <1>4, <1>5 DEF Sauver
  <2>2. /\ sources' \subseteq Fichiers /\ index' \subseteq Morceaux
        /\ UNCHANGED <<travaux, annonces, tache, lecture, reprise, arrets>>
        /\ ~Etape(p, "lancer") /\ Aller(p, [requete[p] EXCEPT !.etape = "noter"])
    BY <1>1, <1>5 DEF Sauver, Etape, tables, openrag
  <2> QED
    BY <1>2, <2>1, <2>2, EtapeRouteGarde
<1>6. CASE Noter(p)
  <2>1. /\ disque' \in [Fichiers -> Contenus \cup {Rien}] /\ sources' \subseteq Fichiers
        /\ index' \subseteq Morceaux
        /\ UNCHANGED <<travaux, annonces, tache, lecture, reprise, arrets>>
        /\ ~Etape(p, "lancer") /\ Aller(p, [requete[p] EXCEPT !.etape = "creer"])
    BY <1>1, <1>4, <1>6 DEF Noter, Etape, openrag
  <2> QED
    BY <1>2, <2>1, EtapeRouteGarde
<1>7. CASE Vider(p)
  <2>1. /\ disque' \in [Fichiers -> Contenus \cup {Rien}] /\ sources' \subseteq Fichiers
        /\ index' \subseteq Morceaux
        /\ UNCHANGED <<travaux, annonces, tache, lecture, reprise, arrets>>
        /\ ~Etape(p, "lancer") /\ Aller(p, [requete[p] EXCEPT !.etape = "recreer"])
    BY <1>1, <1>7 DEF Vider, Etape, tables
  <2> QED
    BY <1>2, <2>1, EtapeRouteGarde
<1>8. CASE Recreer(p)
  <2>1. /\ disque' \in [Fichiers -> Contenus \cup {Rien}] /\ sources' \subseteq Fichiers
        /\ index' \subseteq Morceaux
        /\ UNCHANGED <<travaux, annonces, tache, lecture, reprise, arrets>>
        /\ ~Etape(p, "lancer") /\ Aller(p, [requete[p] EXCEPT !.etape = "sauver"])
    BY <1>1, <1>8 DEF Recreer, Etape, tables, openrag
  <2> QED
    BY <1>2, <2>1, EtapeRouteGarde
<1>9. CASE Abandonner(p)
  BY <1>9, FinRouteGarde DEF Abandonner
<1> QED
  BY <1>5, <1>6, <1>7, <1>8, <1>9

\* The row of a job is created: nobody runs it yet.
LEMMA CreerTravailGarde ==
    ASSUME Inv, NEW p \in Requetes, CreerTravail(p)
    PROVE  Inv'
<1> DEFINE n == Len(travaux) + 1
           t == [fichier |-> Courante(p).fichier,
                 strategie |-> StrategieDe(Courante(p).fichier, requete[p].strategie),
                 statut |-> "chunking", total |-> 0, envoyes |-> 0, echecs |-> 0]
           r == [requete[p] EXCEPT !.etape = "lancer", !.travail = n]
<1>1. /\ TypeOK /\ Suivis /\ Lancables /\ Reprenables /\ Place
      /\ travaux \in Seq(Travail) /\ Len(travaux) \in Nat /\ MaxTravaux \in Nat
      /\ requete \in [Requetes -> Route \cup {Repos}]
      /\ tache \in [Numeros -> Tache \cup {Repos}] /\ annonces \in [Numeros -> Nat]
  BY BornesAssumption DEF Inv, TypeOK
<1>2. requete[p] # Repos /\ requete[p].etape = "creer"
  BY DEF CreerTravail, Etape, Repos
<1>3. /\ requete[p] \in Route /\ Courante(p) \in Piece
      /\ Len(requete[p].suite) \in 1 .. MaxTravaux
  BY <1>2, RouteType
<1>4. t \in Travail /\ Vierge(t)
  BY <1>3 DEF Travail, Vierge, Piece, Route, StrategieDe, ETATS_EN_COURS
<1>5. travaux' = Append(travaux, t)
      /\ UNCHANGED <<disque, sources, annonces, tache, index, lecture, reprise, arrets>>
  BY DEF CreerTravail, openrag
<1> HIDE DEF t
<1>6. /\ travaux' \in Seq(Travail) /\ Len(travaux') = n /\ travaux'[n] = t
      /\ \A i \in 1 .. Len(travaux) : travaux'[i] = travaux[i]
  BY <1>1, <1>4, <1>5
<1>7. Aller(p, r)
  BY <1>6 DEF CreerTravail
<1>8. 1 \in Reste(requete[p]) /\ Reste(r) \subseteq Reste(requete[p]) \ {1}
  BY <1>1, <1>2, <1>3 DEF Reste, Numeros, Repos, Route
<1>9. requete'[p] = r /\ \A q \in Requetes \ {p} : requete'[q] = requete[q]
  BY <1>1, <1>7 DEF Aller
<1>10. Attendus' <= Attendus - 1
  BY <1>8, <1>9, AttenteServie
<1>11. n + Attendus' <= MaxTravaux /\ n \in Numeros
  BY <1>1, <1>10, AttenteFinie DEF Place, Numeros
<1>12. r \in Route /\ r.etape = "lancer" /\ r.travail = n /\ r.suite = requete[p].suite
  <2>1. n \in 0 .. MaxTravaux
    BY <1>1, <1>11 DEF Numeros
  <2> HIDE DEF n
  <2> QED
    BY <1>3, <2>1 DEF Route
<1> HIDE DEF r
<1>13. TypeOK'
  <2>1. requete' \in [Requetes -> Route \cup {Repos}]
    BY <1>1, <1>7, <1>12 DEF Aller
  <2>2. n <= MaxTravaux
    BY <1>11 DEF Numeros
  <2> QED
    BY <1>1, <1>5, <1>6, <2>1, <2>2 DEF TypeOK
<1>14. tache[n] = Repos /\ annonces[n] = 0 /\ n \notin reprise
  BY <1>1, <1>11 DEF Suivis, Reprenables
<1>15. Suivis'
  <2>1. Suivi(travaux'[n], tache[n], annonces[n])
    BY <1>4, <1>6, <1>14 DEF Suivi, Juste, Accordee, Vierge, Repos
  <2>2. \A j \in 1 .. n : Suivi(travaux'[j], tache[j], annonces[j])
    <3> SUFFICES ASSUME NEW j \in 1 .. n PROVE Suivi(travaux'[j], tache[j], annonces[j])
      OBVIOUS
    <3>1. CASE j = n
      <4> HIDE DEF n
      <4> QED
        BY <2>1, <3>1
    <3>2. CASE j # n
      <4>1. j \in 1 .. Len(travaux) /\ travaux'[j] = travaux[j]
        BY <1>1, <1>6, <3>2
      <4> QED
        BY <4>1 DEF Inv, Suivis
    <3> QED
      BY <3>1, <3>2
  <2>3. \A j \in Numeros : j > n => tache[j] = Repos /\ annonces[j] = 0
    BY <1>1 DEF Suivis, Numeros
  <2>4. Suivis' = (/\ \A j \in 1 .. n : Suivi(travaux'[j], tache[j], annonces[j])
                   /\ \A j \in Numeros : j > n => tache[j] = Repos /\ annonces[j] = 0)
    BY <1>5, <1>6 DEF Suivis, Suivi, Juste, Accordee
  <2> QED
    BY <2>2, <2>3, <2>4
<1>16. Lancables'
  <2>1. ASSUME NEW q \in Requetes \ {p}, Etape(q, "lancer")
        PROVE  requete[q].travail \in 1 .. Len(travaux) /\ requete[q].travail # n
    BY <1>1, <2>1 DEF Lancables
  <2> QED
    BY <1>1, <1>4, <1>5, <1>6, <1>9, <1>12, <1>14, <2>1 DEF Lancables, Etape, Vierge
<1>17. Reprenables'
  BY <1>1, <1>5, <1>6 DEF Reprenables
<1>18. Place'
  BY <1>1, <1>3, <1>6, <1>9, <1>11, <1>12 DEF Place, Chargee
<1> QED
  BY <1>13, <1>15, <1>16, <1>17, <1>18 DEF Inv

\* The task of a new job counts what the job is for.
LEMMA NouvelleTacheType ==
    ASSUME NEW m \in Seq(Morceaux), NEW origine \in {"depot", "reprise"}
    PROVE  /\ NouvelleTache(m, origine) \in Tache
           /\ NouvelleTache(m, origine).etape = "demarrer"
           /\ NouvelleTache(m, origine).reste = m
           /\ NouvelleTache(m, origine) # Repos
BY DEF NouvelleTache, Tache, Repos

\* A route that has launched a job ends, or goes on with its next file.
LEMMA SuiteRouteGarde ==
    ASSUME Inv, NEW p \in Requetes, Etape(p, "lancer"),
           NEW r, r = IF Len(requete[p].suite) = 1 THEN Repos
                      ELSE [requete[p] EXCEPT !.etape = "sauver", !.suite = Tail(@)],
           Aller(p, r)
    PROVE  /\ r \in Route \cup {Repos} /\ r.etape # "lancer" /\ Chargee(r)
           /\ Attendus' <= Attendus
<1> DEFINE w == requete[p]
           n == Len(w.suite)
<1>1. /\ w \in Route /\ w.suite \in Seq(Piece) /\ w.suite # <<>> /\ n \in 1 .. MaxTravaux
      /\ w.etape = "lancer" /\ w # Repos
  BY RouteType DEF Etape, Repos
<1>2. /\ requete'[p] = r /\ \A q \in Requetes \ {p} : requete'[q] = requete[q]
      /\ MaxTravaux \in Nat
  BY BornesAssumption DEF Inv, TypeOK, Aller
<1>3. CASE n = 1
  <2>1. r = Repos
    BY <1>3
  <2>2. Reste(r) \subseteq Reste(w)
    BY <2>1 DEF Reste
  <2> QED
    BY <1>2, <2>1, <2>2, AttenteMoindre DEF Repos, Chargee
<1>4. CASE n # 1
  <2> DEFINE suite == Tail(w.suite)
  <2>1. suite \in Seq(Piece) /\ Len(suite) = n - 1
    BY <1>1, HeadTailProperties
  <2>2. r = [w EXCEPT !.etape = "sauver", !.suite = suite]
    BY <1>1, <1>4 DEF Route
  <2> HIDE DEF suite
  <2>3. r \in Route /\ r.etape = "sauver" /\ r.suite = suite
    BY <1>1, <2>1, <2>2 DEF Route
  <2>8. n \in 1 .. MaxTravaux /\ n # 1 /\ Len(w.suite) = n
    BY <1>1, <1>4
  <2> HIDE DEF n
  <2>4. n - 1 \in 1 .. MaxTravaux
    BY <1>2, <2>8
  <2>5. Chargee(r)
    BY <2>1, <2>3, <2>4 DEF Chargee
  <2>6. n \in Reste(w) /\ Reste(r) \subseteq (Reste(w) \ {n}) \cup {1}
    <3>1. n \in Reste(w)
      BY <1>1, <1>2, <2>8 DEF Reste, Numeros
    <3>2. ASSUME NEW i \in Reste(r), i # 1
          PROVE  i \in Reste(w) /\ i # n
      <4>1. i \in Numeros /\ i <= n - 1
        BY <2>1, <2>3 DEF Reste
      <4> QED
        BY <1>1, <1>2, <2>8, <3>2, <4>1 DEF Reste, Numeros
    <3> QED
      BY <3>1, <3>2
  <2>7. Attendus' <= Attendus
    BY <1>2, <1>4, <2>6, AttenteSuivante
  <2> QED
    BY <2>3, <2>5, <2>7
<1> QED
  BY <1>3, <1>4

\* The job of a file gets its total and its task.
LEMMA LancerGarde ==
    ASSUME Inv, NEW p \in Requetes, Lancer(p)
    PROVE  Inv'
<1> DEFINE j == requete[p].travail
           morceaux == Decoupe[<<Courante(p).contenu, travaux[j].strategie>>]
           t == [travaux[j] EXCEPT !.total = Len(morceaux)]
           k == NouvelleTache(morceaux, "depot")
           r == IF Len(requete[p].suite) = 1 THEN Repos
                ELSE [requete[p] EXCEPT !.etape = "sauver", !.suite = Tail(@)]
<1>1. /\ TypeOK /\ Suivis /\ Lancables /\ Reprenables /\ Place
      /\ travaux \in Seq(Travail) /\ Len(travaux) \in Nat /\ Len(travaux) <= MaxTravaux
      /\ requete \in [Requetes -> Route \cup {Repos}]
      /\ tache \in [Numeros -> Tache \cup {Repos}] /\ annonces \in [Numeros -> Nat]
      /\ MaxTravaux \in Nat
  BY BornesAssumption DEF Inv, TypeOK
<1>2. Etape(p, "lancer")
  BY DEF Lancer
<1>3. /\ j \in 1 .. Len(travaux) /\ Vierge(travaux[j]) /\ tache[j] = Repos /\ j \notin reprise
      /\ \A q \in Requetes \ {p} : Etape(q, "lancer") => requete[q].travail # j
  BY <1>1, <1>2 DEF Lancables
<1>4. travaux[j] \in Travail /\ j \in Numeros /\ Suivi(travaux[j], tache[j], annonces[j])
  BY <1>1, <1>3, ElementOfSeq DEF Numeros, Suivis
<1>5. morceaux \in Seq(Morceaux) /\ Len(morceaux) \in Nat
  <2>1. Courante(p) \in Piece
    BY <1>2, RouteType DEF Etape, Repos
  <2>2. Courante(p).contenu \in Contenus
        /\ travaux[j].strategie \in Strategies \cup {STRATEGIE_DOCUMENT}
    BY <1>4, <2>1 DEF Piece, Travail
  <2>3. morceaux \in Seq(Morceaux)
    BY <2>2, DecoupeType
  <2> QED
    BY <2>3, LenProperties
<1>6. /\ travaux' = [travaux EXCEPT ![j] = t] /\ tache' = [tache EXCEPT ![j] = k]
      /\ Aller(p, r)
      /\ UNCHANGED <<disque, sources, annonces, index, lecture, reprise, arrets>>
  BY DEF Lancer, Passer, openrag
<1>7. /\ r \in Route \cup {Repos} /\ r.etape # "lancer" /\ Chargee(r)
      /\ Attendus' <= Attendus
  BY <1>2, <1>6, SuiteRouteGarde
<1> HIDE DEF r, j, morceaux
<1>8. /\ t \in Travail /\ t.total = Len(morceaux) /\ t.envoyes = 0 /\ t.echecs = 0
      /\ t.statut = "chunking"
  BY <1>3, <1>4, <1>5 DEF Travail, Vierge
<1> HIDE DEF t
<1>9. k \in Tache /\ k.etape = "demarrer" /\ k.reste = morceaux /\ k # Repos
  BY <1>5, NouvelleTacheType
<1> HIDE DEF k
<1>10. Suivi(t, k, annonces[j])
  BY <1>1, <1>3, <1>4, <1>5, <1>8, <1>9
     DEF Suivi, Juste, Accordee, Vierge, Termines, ETATS_EN_COURS
<1>11. /\ travaux' \in Seq(Travail) /\ Len(travaux') = Len(travaux) /\ travaux'[j] = t
       /\ \A i \in 1 .. Len(travaux) : i # j => travaux'[i] = travaux[i]
  BY <1>1, <1>3, <1>6, <1>8, ExceptSeq
<1>12. /\ tache' \in [Numeros -> Tache \cup {Repos}] /\ tache'[j] = k
       /\ \A i \in Numeros : i # j => tache'[i] = tache[i]
  BY <1>1, <1>4, <1>6, <1>9
<1>13. /\ requete' \in [Requetes -> Route \cup {Repos}] /\ requete'[p] = r
       /\ \A q \in Requetes \ {p} : requete'[q] = requete[q]
  BY <1>1, <1>6, <1>7 DEF Aller
<1>14. TypeOK'
  BY <1>1, <1>6, <1>11, <1>12, <1>13 DEF TypeOK
<1>15. Suivis'
  <2>1. ASSUME NEW i \in 1 .. Len(travaux)
        PROVE  Suivi(travaux'[i], tache'[i], annonces[i])
    <3>1. CASE i = j
      BY <1>10, <1>11, <1>12, <3>1
    <3>2. CASE i # j
      BY <1>1, <1>11, <1>12, <3>2 DEF Suivis, Numeros
    <3> QED
      BY <3>1, <3>2
  <2>2. ASSUME NEW i \in Numeros, i > Len(travaux)
        PROVE  tache'[i] = Repos /\ annonces[i] = 0
    BY <1>1, <1>3, <1>12, <2>2 DEF Suivis
  <2> QED
    BY <1>6, <1>11, <2>1, <2>2 DEF Suivis, Suivi, Juste, Accordee
<1>16. Lancables'
  <2>1. ASSUME NEW q \in Requetes, requete'[q].etape = "lancer"
        PROVE  /\ q # p /\ Etape(q, "lancer") /\ requete'[q] = requete[q]
               /\ requete[q].travail # j
    BY <1>3, <1>7, <1>13, <2>1 DEF Etape
  <2>2. ASSUME NEW q \in Requetes, requete'[q].etape = "lancer"
        PROVE  LET i == requete'[q].travail
               IN  /\ i \in 1 .. Len(travaux) /\ Vierge(travaux'[i]) /\ tache'[i] = Repos
                   /\ i \notin reprise
    BY <1>1, <1>11, <1>12, <2>1, <2>2 DEF Lancables, Numeros
  <2>3. ASSUME NEW q \in Requetes, requete'[q].etape = "lancer",
               NEW o \in Requetes \ {q}, requete'[o].etape = "lancer"
        PROVE  requete'[o].travail # requete'[q].travail
    BY <1>1, <2>1, <2>3 DEF Lancables
  <2> QED
    BY <1>6, <1>11, <2>2, <2>3 DEF Lancables, Etape, Vierge
<1>17. Reprenables'
  BY <1>1, <1>3, <1>6, <1>11, <1>12 DEF Reprenables, Numeros
<1>18. Place'
  <2>1. Len(travaux) + Attendus <= MaxTravaux
    BY <1>1 DEF Place
  <2>2. Len(travaux') + Attendus' <= MaxTravaux
    BY <1>1, <1>7, <1>11, <2>1, AttenteFinie
  <2>3. \A q \in Requetes : Chargee(requete'[q])
    BY <1>1, <1>7, <1>13 DEF Place
  <2> QED
    BY <2>2, <2>3 DEF Place, Chargee
<1> QED
  BY <1>14, <1>15, <1>16, <1>17, <1>18 DEF Inv

-----------------------------------------------------------------------------
(* The tasks.                                                              *)

\* The job of a task is run by that task alone.
LEMMA TacheType ==
    ASSUME Inv, NEW j \in Numeros, tache[j] # Repos
    PROVE  /\ j \in 1 .. Len(travaux) /\ travaux[j] \in Travail
           /\ tache[j] \in Tache /\ tache[j].reste \in Seq(Morceaux)
           /\ Suivi(travaux[j], tache[j], annonces[j]) /\ annonces[j] = 0
           /\ \A p \in Requetes : Etape(p, "lancer") => requete[p].travail # j
           /\ j \notin reprise
<1>1. /\ TypeOK /\ Suivis /\ Lancables /\ Reprenables
      /\ travaux \in Seq(Travail) /\ Len(travaux) \in Nat
      /\ tache \in [Numeros -> Tache \cup {Repos}] /\ annonces \in [Numeros -> Nat]
  BY DEF Inv, TypeOK
<1>2. j \in 1 .. Len(travaux)
  BY <1>1 DEF Suivis, Numeros
<1>3. travaux[j] \in Travail /\ tache[j] \in Tache
  BY <1>1, <1>2, ElementOfSeq
<1>4. Suivi(travaux[j], tache[j], annonces[j]) /\ annonces[j] \in Nat
  BY <1>1, <1>2 DEF Suivis
<1>5. annonces[j] = 0
  BY <1>4 DEF Suivi
<1>6. tache[j].reste \in Seq(Morceaux)
  BY <1>3 DEF Tache
<1>7. /\ \A p \in Requetes : Etape(p, "lancer") => requete[p].travail # j
      /\ j \notin reprise
  BY <1>1 DEF Lancables, Reprenables
<1> QED
  BY <1>2, <1>3, <1>4, <1>5, <1>6, <1>7

\* A task moves, and its job with it.
LEMMA PasGarde ==
    ASSUME Inv, NEW j \in Numeros, tache[j] # Repos,
           NEW t \in Travail, NEW k \in Tache,
           Juste(t), Accordee(t, k),
           travaux' = [travaux EXCEPT ![j] = t],
           tache' = [tache EXCEPT ![j] = k],
           index' \subseteq Morceaux, lecture' \subseteq Lecture,
           UNCHANGED <<disque, sources, annonces, requete, reprise, arrets>>
    PROVE  Inv'
<1>1. /\ j \in 1 .. Len(travaux) /\ annonces[j] = 0 /\ j \notin reprise
      /\ \A p \in Requetes : Etape(p, "lancer") => requete[p].travail # j
  BY TacheType
<1>2. annonces' = [annonces EXCEPT ![j] = annonces[j]] /\ annonces[j] \in Nat
  BY DEF Inv, TypeOK
<1>3. Suivi(t, k, annonces[j])
  BY <1>1 DEF Suivi
<1> QED
  BY <1>1, <1>2, <1>3, TravailGarde

\* A task moves, and its job stays as it is.
LEMMA PasSeulGarde ==
    ASSUME Inv, NEW j \in Numeros, tache[j] # Repos, tache[j].etape # "annoncer",
           NEW k \in Tache, k.reste = tache[j].reste, k.reste # <<>>,
           k.etape \in {"compter", "suivre"},
           tache' = [tache EXCEPT ![j] = k],
           index' \subseteq Morceaux, lecture' \subseteq Lecture,
           UNCHANGED <<disque, tables, requete, reprise, arrets>>
    PROVE  Inv'
<1> DEFINE t == travaux[j]
<1>1. t \in Travail /\ Suivi(t, tache[j], annonces[j])
  BY TacheType
<1>2. Juste(t) /\ Accordee(t, k)
  BY <1>1 DEF Suivi, Accordee
<1>3. travaux' = [travaux EXCEPT ![j] = t]
      /\ UNCHANGED <<disque, sources, annonces, requete, reprise, arrets>>
  BY DEF Inv, TypeOK, tables
<1> QED
  BY <1>1, <1>2, <1>3, PasGarde

LEMMA DemarrerGarde ==
    ASSUME Inv, NEW j \in Numeros, Demarrer(j)
    PROVE  Inv'
<1> DEFINE w == tache[j]
           etape == IF w.reste = <<>> THEN "finir" ELSE "envoyer"
           t == [travaux[j] EXCEPT !.statut = "uploading"]
           k == [w EXCEPT !.etape = etape]
<1>1. w.etape = "demarrer" /\ w # Repos
      /\ travaux' = [travaux EXCEPT ![j] = t] /\ tache' = [tache EXCEPT ![j] = k]
      /\ UNCHANGED <<disque, sources, annonces, index, lecture, requete, reprise, arrets>>
  BY DEF Demarrer, TacheEn, Passer, openrag, Repos
<1>2. /\ travaux[j] \in Travail /\ w \in Tache /\ Suivi(travaux[j], w, annonces[j])
      /\ index \subseteq Morceaux /\ lecture \subseteq Lecture
  BY <1>1, TacheType DEF Inv, TypeOK
<1>3. etape \in {"finir", "envoyer"} /\ (etape = "finir" <=> w.reste = <<>>)
  OBVIOUS
<1> HIDE DEF etape
<1>4. /\ t \in Travail /\ t.statut = "uploading" /\ t.total = travaux[j].total
      /\ t.envoyes = travaux[j].envoyes /\ t.echecs = travaux[j].echecs
  BY <1>2 DEF Travail, ETATS_EN_COURS
<1>5. k \in Tache /\ k.etape = etape /\ k.reste = w.reste
  BY <1>2, <1>3 DEF Tache
<1> HIDE DEF t, k
<1>6. Juste(t) /\ Accordee(t, k)
  BY <1>1, <1>2, <1>3, <1>4, <1>5 DEF Suivi, Juste, Accordee, ETATS_EN_COURS
<1> QED
  BY <1>1, <1>2, <1>4, <1>5, <1>6, PasGarde

\* What is sent is a chunk, and what OpenRAG reads a chunk of a job.
LEMMA EnvoiGarde ==
    ASSUME Inv, NEW j \in Numeros, Envoyer(j) \/ EnvoyerDocument(j) \/ Suivre(j)
    PROVE  Inv'
<1> DEFINE w == tache[j]
           c == Head(w.reste)
           compter(succes) == [w EXCEPT !.etape = "compter", !.succes = succes]
           suivre == [w EXCEPT !.etape = "suivre"]
<1>1. /\ w.etape \in {"envoyer", "suivre"} /\ w # Repos
      /\ UNCHANGED <<disque, tables, requete, reprise, arrets>>
  <2>1. w.etape \in {"envoyer", "suivre"}
    BY DEF Envoyer, EnvoyerDocument, Suivre, TacheEn
  <2>2. UNCHANGED <<disque, tables, requete, reprise, arrets>>
    BY DEF Envoyer, EnvoyerDocument, Suivre
  <2> QED
    BY <2>1, <2>2 DEF Repos
<1>2. /\ w \in Tache /\ w.reste \in Seq(Morceaux) /\ Suivi(travaux[j], w, annonces[j])
      /\ index \subseteq Morceaux /\ lecture \subseteq Lecture
  BY <1>1, TacheType DEF Inv, TypeOK
<1>3. w.reste # <<>> /\ c \in Morceaux
  BY <1>1, <1>2, HeadTailProperties DEF Suivi, Accordee
<1>4. /\ suivre \in Tache /\ suivre.etape = "suivre" /\ suivre.reste = w.reste
      /\ \A succes \in BOOLEAN : /\ compter(succes) \in Tache
                                 /\ compter(succes).etape = "compter"
                                 /\ compter(succes).reste = w.reste
  BY <1>2 DEF Tache
<1> HIDE DEF c, compter, suivre
<1>5. ASSUME NEW k \in {compter(TRUE), compter(FALSE), suivre}, Passer(j, k),
             index' \subseteq Morceaux, lecture' \subseteq Lecture
      PROVE  Inv'
  <2>1. k \in Tache /\ k.etape \in {"compter", "suivre"} /\ k.reste = w.reste
    BY <1>4
  <2> QED
    BY <1>1, <1>3, <1>5, <2>1, PasSeulGarde DEF Passer
<1>6. CASE Envoyer(j)
  <2>1. PICK recu \in BOOLEAN : \E succes \in BOOLEAN :
          /\ index' = IF recu THEN index \cup {c} ELSE index
          /\ Passer(j, compter(succes))
    BY <1>6 DEF Envoyer, c, compter
  <2>2. PICK succes \in BOOLEAN : Passer(j, compter(succes))
    BY <2>1
  <2>3. index' \subseteq Morceaux /\ lecture' \subseteq Lecture
    BY <1>2, <1>3, <1>6, <2>1 DEF Envoyer
  <2> QED
    BY <1>5, <2>2, <2>3
<1>7. CASE EnvoyerDocument(j)
  <2> DEFINE l == [travail |-> j, document |-> c, etat |-> "en_cours"]
             acceptee == (lecture \ Lectures(j, c)) \cup {l}
  <2>1. l \in Lecture
    BY <1>3 DEF Lecture, Numeros
  <2>2. acceptee \subseteq Lecture
    BY <1>2, <2>1
  <2>3. /\ UNCHANGED index /\ lecture' \in {lecture, acceptee}
        /\ \/ Passer(j, compter(TRUE)) \/ Passer(j, compter(FALSE)) \/ Passer(j, suivre)
    BY <1>7 DEF EnvoyerDocument, c, compter, suivre
  <2> QED
    BY <1>2, <1>5, <2>2, <2>3
<1>8. CASE Suivre(j)
  <2>1. PICK l \in Lectures(j, c) :
          /\ lecture' = IF l.etat = "en_cours" THEN lecture ELSE lecture \ {l}
          /\ Passer(j, compter(l.etat = "lu"))
    BY <1>8 DEF Suivre, c, compter
  <2>2. lecture' \subseteq Lecture /\ UNCHANGED index
    BY <1>2, <1>8, <2>1 DEF Suivre
  <2>3. Passer(j, compter(TRUE)) \/ Passer(j, compter(FALSE))
    BY <2>1
  <2> QED
    BY <1>2, <1>5, <2>2, <2>3
<1> QED
  BY <1>6, <1>7, <1>8

LEMMA CompterGarde ==
    ASSUME Inv, NEW j \in Numeros, Compter(j)
    PROVE  Inv'
<1> DEFINE v == travaux[j]
           w == tache[j]
           echecs == IF w.succes THEN v.echecs ELSE v.echecs + 1
           etape == IF Len(w.reste) = 1 THEN "finir" ELSE "envoyer"
           reste == Tail(w.reste)
           envoyes == v.envoyes + 1
           t == [v EXCEPT !.envoyes = envoyes, !.echecs = echecs]
           k == [w EXCEPT !.reste = reste, !.etape = etape]
<1>1. w.etape = "compter" /\ w # Repos
      /\ UNCHANGED <<disque, sources, annonces, index, lecture, requete, reprise, arrets>>
  BY DEF Compter, TacheEn, openrag, Repos
<1>2. /\ v \in Travail /\ w \in Tache /\ w.reste \in Seq(Morceaux)
      /\ Suivi(v, w, annonces[j]) /\ w.reste # <<>> /\ j \in 1 .. Len(travaux)
      /\ index \subseteq Morceaux /\ lecture \subseteq Lecture
      /\ travaux \in Seq(Travail) /\ tache \in [Numeros -> Tache \cup {Repos}]
  BY <1>1, TacheType DEF Inv, TypeOK, Suivi, Accordee
<1>3. travaux' = [travaux EXCEPT ![j] = t]
  BY <1>2 DEF Compter, Travail
<1>4. tache' = [tache EXCEPT ![j] = k]
  BY <1>2 DEF Compter, Passer, Tache
<1>5. /\ v.envoyes \in Nat /\ v.echecs \in Nat /\ v.total \in Nat
      /\ v.statut \in ETATS_EN_COURS /\ v.envoyes + Len(w.reste) = v.total
      /\ v.echecs <= v.envoyes
  BY <1>1, <1>2 DEF Suivi, Juste, Accordee, Travail
<1>6. reste \in Seq(Morceaux) /\ Len(reste) = Len(w.reste) - 1 /\ Len(w.reste) \in Nat \ {0}
  BY <1>2, HeadTailProperties, EmptySeq
<1>7. etape \in {"finir", "envoyer"} /\ (etape = "finir" <=> reste = <<>>)
  <2>1. Len(reste) = 0 <=> reste = <<>>
    BY <1>6, EmptySeq
  <2> QED
    BY <1>6, <2>1
<1>8. /\ echecs \in Nat /\ envoyes \in Nat /\ echecs <= envoyes
      /\ Len(reste) \in Nat /\ envoyes + Len(reste) = v.total
  <2> HIDE DEF v, w, reste
  <2>1. echecs \in Nat /\ echecs <= v.envoyes + 1
    BY <1>5
  <2>2. Len(reste) \in Nat /\ envoyes + Len(reste) = v.total
    BY <1>5, <1>6
  <2> QED
    BY <1>5, <2>1, <2>2
<1> HIDE DEF etape, reste, echecs, envoyes
<1>9. /\ t \in Travail /\ t.statut = v.statut /\ t.total = v.total
      /\ t.envoyes = envoyes /\ t.echecs = echecs
  BY <1>2, <1>8 DEF Travail
<1>10. k \in Tache /\ k.etape = etape /\ k.reste = reste
  BY <1>2, <1>6, <1>7 DEF Tache
<1> HIDE DEF t, k
<1>11. Juste(t)
  <2> HIDE DEF v
  <2>1. t.echecs <= t.envoyes /\ t.envoyes <= t.total
    BY <1>5, <1>8, <1>9
  <2>2. t.statut \notin {"done", "done_with_errors"}
    BY <1>5, <1>9 DEF ETATS_EN_COURS
  <2> QED
    BY <2>1, <2>2 DEF Juste
<1>12. Accordee(t, k)
  <2> HIDE DEF v
  <2>1. t.statut \in ETATS_EN_COURS /\ t.envoyes + Len(k.reste) = t.total
    BY <1>5, <1>8, <1>9, <1>10
  <2>2. /\ k.etape \in {"envoyer", "suivre", "compter"} => k.reste # <<>>
        /\ k.etape = "finir" => k.reste = <<>>
        /\ k.etape # "annoncer"
    BY <1>7, <1>10
  <2> QED
    BY <2>1, <2>2 DEF Accordee
<1> QED
  BY <1>1, <1>2, <1>3, <1>4, <1>9, <1>10, <1>11, <1>12, PasGarde

LEMMA FinirGarde ==
    ASSUME Inv, NEW j \in Numeros, Finir(j)
    PROVE  Inv'
<1> DEFINE v == travaux[j]
           w == tache[j]
           statut == IF v.echecs = 0 THEN "done" ELSE "done_with_errors"
           t == [v EXCEPT !.statut = statut]
           k == [w EXCEPT !.etape = "annoncer"]
<1>1. /\ w.etape = "finir" /\ w # Repos
      /\ travaux' = [travaux EXCEPT ![j] = t] /\ tache' = [tache EXCEPT ![j] = k]
      /\ UNCHANGED <<disque, sources, annonces, index, lecture, requete, reprise, arrets>>
  BY DEF Finir, TacheEn, Passer, openrag, Repos
<1>2. /\ v \in Travail /\ w \in Tache /\ Suivi(v, w, annonces[j])
      /\ index \subseteq Morceaux /\ lecture \subseteq Lecture
  BY <1>1, TacheType DEF Inv, TypeOK
<1>3. /\ v.envoyes \in Nat /\ v.echecs \in Nat /\ v.total \in Nat
      /\ v.envoyes = v.total /\ v.echecs <= v.envoyes
  <2>1. w.reste = <<>> /\ Len(w.reste) = 0
    BY <1>1, <1>2 DEF Suivi, Accordee
  <2> QED
    BY <1>1, <1>2, <2>1 DEF Suivi, Juste, Accordee, Travail
<1>4. statut \in {"done", "done_with_errors"} /\ (statut = "done" <=> v.echecs = 0)
  OBVIOUS
<1> HIDE DEF statut
<1>5. /\ t \in Travail /\ t.statut = statut /\ t.total = v.total
      /\ t.envoyes = v.envoyes /\ t.echecs = v.echecs
  BY <1>2, <1>4 DEF Travail, Termines
<1>6. k \in Tache /\ k.etape = "annoncer"
  BY <1>2 DEF Tache
<1> HIDE DEF t, k
<1>7. Juste(t) /\ Accordee(t, k)
  BY <1>3, <1>4, <1>5, <1>6 DEF Juste, Accordee
<1> QED
  BY <1>1, <1>2, <1>5, <1>6, <1>7, PasGarde

\* The end of a job is announced by its task, which then is no more.
LEMMA AnnoncerGarde ==
    ASSUME Inv, NEW j \in Numeros, Annoncer(j)
    PROVE  Inv'
<1> DEFINE v == travaux[j]
           w == tache[j]
<1>1. /\ w.etape = "annoncer" /\ w # Repos
      /\ annonces' = [annonces EXCEPT ![j] = @ + 1] /\ tache' = [tache EXCEPT ![j] = Repos]
      /\ UNCHANGED <<disque, sources, travaux, index, lecture, requete, reprise, arrets>>
  BY DEF Annoncer, TacheEn, Passer, openrag, Repos
<1>2. /\ v \in Travail /\ Suivi(v, w, annonces[j]) /\ annonces[j] = 0
      /\ j \in 1 .. Len(travaux) /\ j \notin reprise
      /\ \A p \in Requetes : Etape(p, "lancer") => requete[p].travail # j
      /\ index \subseteq Morceaux /\ lecture \subseteq Lecture
  BY <1>1, TacheType DEF Inv, TypeOK
<1>3. annonces' = [annonces EXCEPT ![j] = 1] /\ travaux' = [travaux EXCEPT ![j] = v]
  BY <1>1, <1>2 DEF Inv, TypeOK
<1>4. Suivi(v, Repos, 1)
  BY <1>1, <1>2 DEF Suivi, Accordee, Termines, Repos
<1>5. reprise' \subseteq reprise \ {j}
  BY <1>1, <1>2
<1>6. UNCHANGED <<disque, sources, requete, arrets>>
      /\ index' \subseteq Morceaux /\ lecture' \subseteq Lecture
  BY <1>1, <1>2
<1> DEFINE un == 1
<1>7. un \in Nat /\ Suivi(v, Repos, un) /\ annonces' = [annonces EXCEPT ![j] = un]
  BY <1>3, <1>4
<1> HIDE DEF un
<1> QED
  BY <1>1, <1>2, <1>3, <1>5, <1>6, <1>7, TravailGarde

\* A job that was in progress when the process stopped is taken up again.
LEMMA ReprendreGarde ==
    ASSUME Inv, NEW j \in Numeros, Reprendre(j)
    PROVE  Inv'
<1> DEFINE v == travaux[j]
           n == annonces[j]
           perdue == v.fichier \notin sources \/ disque[v.fichier] = Rien
           morceaux == Decoupe[<<disque[v.fichier], v.strategie>>]
<1>1. /\ TypeOK /\ Suivis /\ Lancables /\ Reprenables
      /\ travaux \in Seq(Travail) /\ tache \in [Numeros -> Tache \cup {Repos}]
      /\ annonces \in [Numeros -> Nat] /\ disque \in [Fichiers -> Contenus \cup {Rien}]
      /\ index \subseteq Morceaux /\ lecture \subseteq Lecture
  BY DEF Inv, TypeOK
<1>2. j \in reprise /\ j \in 1 .. Len(travaux) /\ tache[j] = Repos
      /\ v.statut \in ETATS_EN_COURS
  BY <1>1 DEF Reprendre, Reprenables
<1>3. /\ v \in Travail /\ Suivi(v, Repos, n) /\ n \in Nat /\ n # 1
      /\ \A p \in Requetes : Etape(p, "lancer") => requete[p].travail # j
  <2>1. v \in Travail /\ Suivi(v, Repos, n) /\ n \in Nat
    BY <1>1, <1>2, ElementOfSeq DEF Suivis
  <2>2. n # 1
    BY <1>2, <2>1 DEF Suivi, Termines, ETATS_EN_COURS
  <2>3. \A p \in Requetes : Etape(p, "lancer") => requete[p].travail # j
    BY <1>1, <1>2 DEF Lancables
  <2> QED
    BY <2>1, <2>2, <2>3
<1>4. /\ reprise' = reprise \ {j} /\ annonces' = [annonces EXCEPT ![j] = n]
      /\ UNCHANGED <<disque, sources, requete, arrets>>
      /\ index' \subseteq Morceaux /\ lecture' \subseteq Lecture
  BY <1>1 DEF Reprendre, openrag
<1>5. CASE perdue
  <2> DEFINE t == [v EXCEPT !.statut = "interrupted"]
  <2>1. travaux' = [travaux EXCEPT ![j] = t] /\ tache' = [tache EXCEPT ![j] = Repos]
    BY <1>1, <1>2, <1>5 DEF Reprendre
  <2>2. /\ t \in Travail /\ t.statut = "interrupted" /\ t.total = v.total
        /\ t.envoyes = v.envoyes /\ t.echecs = v.echecs
    BY <1>3 DEF Travail, Termines
  <2> HIDE DEF t
  <2>3. Suivi(t, Repos, n)
    BY <1>3, <2>2 DEF Suivi, Juste, Accordee, Repos
  <2> QED
    BY <1>2, <1>3, <1>4, <2>1, <2>2, <2>3, TravailGarde
<1>6. CASE ~perdue
  <2> DEFINE t == [v EXCEPT !.statut = "uploading", !.total = Len(morceaux),
                            !.envoyes = 0, !.echecs = 0]
             k == NouvelleTache(morceaux, "reprise")
  <2>1. travaux' = [travaux EXCEPT ![j] = t] /\ tache' = [tache EXCEPT ![j] = k]
    BY <1>6 DEF Reprendre, Passer
  <2>2. disque[v.fichier] \in Contenus /\ v.strategie \in Strategies \cup {STRATEGIE_DOCUMENT}
    BY <1>1, <1>3, <1>6 DEF Travail
  <2>3. morceaux \in Seq(Morceaux) /\ Len(morceaux) \in Nat
    BY <2>2, DecoupeType, LenProperties
  <2> HIDE DEF morceaux
  <2>4. /\ t \in Travail /\ t.statut = "uploading" /\ t.total = Len(morceaux)
        /\ t.envoyes = 0 /\ t.echecs = 0
    BY <1>3, <2>3 DEF Travail, ETATS_EN_COURS
  <2>5. k \in Tache /\ k.etape = "demarrer" /\ k.reste = morceaux /\ k # Repos
    BY <2>3, NouvelleTacheType
  <2> HIDE DEF t, k
  <2>6. Suivi(t, k, n)
    BY <1>3, <2>3, <2>4, <2>5 DEF Suivi, Juste, Accordee, ETATS_EN_COURS
  <2> QED
    BY <1>2, <1>3, <1>4, <2>1, <2>4, <2>5, <2>6, TravailGarde
<1> QED
  BY <1>5, <1>6

-----------------------------------------------------------------------------
(* A stop, what comes from outside, and the whole.                         *)

LEMMA ArreterGarde ==
    ASSUME Inv, Arreter
    PROVE  Inv'
<1>1. /\ TypeOK /\ Suivis
      /\ travaux \in Seq(Travail) /\ Len(travaux) \in Nat /\ Len(travaux) <= MaxTravaux
      /\ arrets \in 0 .. MaxArrets /\ MaxTravaux \in Nat /\ MaxArrets \in Nat
  BY BornesAssumption DEF Inv, TypeOK
<1>2. /\ arrets < MaxArrets /\ arrets' = arrets + 1
      /\ tache' = [j \in Numeros |-> Repos] /\ requete' = [p \in Requetes |-> Repos]
      /\ reprise' = {j \in 1 .. Len(travaux) : travaux[j].statut \in ETATS_EN_COURS}
      /\ UNCHANGED <<disque, sources, travaux, annonces, index, lecture>>
  BY DEF Arreter, tables, openrag
<1>3. TypeOK'
  <2>1. arrets' \in 0 .. MaxArrets /\ reprise' \subseteq Numeros
    BY <1>1, <1>2 DEF Numeros
  <2>2. /\ tache' \in [Numeros -> Tache \cup {Repos}]
        /\ requete' \in [Requetes -> Route \cup {Repos}]
    BY <1>2
  <2> QED
    BY <1>1, <1>2, <2>1, <2>2 DEF TypeOK
<1>4. Suivis'
  <2>1. ASSUME NEW j \in 1 .. Len(travaux)
        PROVE  Suivi(travaux[j], tache'[j], annonces[j])
    <3>1. Suivi(travaux[j], tache[j], annonces[j]) /\ tache'[j] = Repos
      BY <1>1, <1>2 DEF Suivis, Numeros
    <3> QED
      BY <3>1 DEF Suivi, Accordee, Repos
  <2>2. ASSUME NEW j \in Numeros, j > Len(travaux)
        PROVE  tache'[j] = Repos /\ annonces[j] = 0
    BY <1>1, <1>2, <2>2 DEF Suivis
  <2> QED
    BY <1>2, <2>1, <2>2 DEF Suivis, Suivi, Juste, Accordee
<1>5. Lancables' /\ Reprenables'
  BY <1>1, <1>2 DEF Lancables, Reprenables, Etape, Repos, Numeros
<1>6. Place'
  <2>1. Attente' = {}
    BY <1>2 DEF Attente
  <2>2. Attendus' = 0
    BY <2>1, FS_EmptySet DEF Attendus
  <2> QED
    BY <1>1, <1>2, <2>2 DEF Place, Chargee
<1> QED
  BY <1>3, <1>4, <1>5, <1>6 DEF Inv

LEMMA ExterieurGarde ==
    ASSUME Inv,
           (\E l \in lecture : Lire(l)) \/ (\E f \in Fichiers : PerdreSource(f))
    PROVE  Inv'
<1>1. /\ disque \in [Fichiers -> Contenus \cup {Rien}]
      /\ index \subseteq Morceaux /\ lecture \subseteq Lecture
  BY DEF Inv, TypeOK
<1>2. ASSUME NEW l \in lecture, Lire(l)
      PROVE  Inv'
  <2>1. PICK etat \in {"lu", "echec"} :
          /\ lecture' = (lecture \ {l}) \cup {[l EXCEPT !.etat = etat]}
          /\ index' = IF etat = "lu" THEN index \cup {l.document} ELSE index
    BY <1>2 DEF Lire
  <2>2. l.document \in Morceaux /\ [l EXCEPT !.etat = etat] \in Lecture
    BY <1>1 DEF Lecture
  <2>3. index' \subseteq Morceaux /\ lecture' \subseteq Lecture
    BY <1>1, <2>1, <2>2
  <2> QED
    BY <1>1, <1>2, <2>3, DehorsGarde DEF Lire
<1>3. ASSUME NEW f \in Fichiers, PerdreSource(f)
      PROVE  Inv'
  BY <1>1, <1>3, DehorsGarde DEF PerdreSource, openrag
<1> QED
  BY <1>2, <1>3

LEMMA InitInv == Init => Inv
<1> SUFFICES ASSUME Init PROVE Inv
  OBVIOUS
<1>1. /\ travaux = <<>> /\ Len(travaux) = 0 /\ travaux \in Seq(Travail)
      /\ MaxTravaux \in Nat /\ MaxArrets \in Nat
  BY BornesAssumption DEF Init
<1>2. /\ disque \in [Fichiers -> Contenus \cup {Rien}]
      /\ tache \in [Numeros -> Tache \cup {Repos}]
      /\ requete \in [Requetes -> Route \cup {Repos}]
  BY DEF Init
<1>3. annonces \in [Numeros -> Nat]
  BY DEF Init
<1>4. sources = {} /\ index = {} /\ lecture = {} /\ reprise = {} /\ arrets = 0
  BY DEF Init
<1>5. arrets \in 0 .. MaxArrets /\ Len(travaux) <= MaxTravaux
  BY <1>1, <1>4
<1>6. TypeOK
  BY <1>1, <1>2, <1>3, <1>4, <1>5 DEF TypeOK
<1>7. Suivis /\ Lancables /\ Reprenables
  BY <1>1, <1>4 DEF Init, Suivis, Lancables, Reprenables, Etape, Repos
<1>8. Place
  <2>1. Attente = {}
    BY DEF Init, Attente
  <2>2. Attendus = 0
    BY <2>1, FS_EmptySet DEF Attendus
  <2> QED
    BY <1>1, <2>2 DEF Init, Place, Chargee
<1> QED
  BY <1>6, <1>7, <1>8 DEF Inv

LEMMA EtapeGarde == Inv /\ [Next]_vars => Inv'
<1> SUFFICES ASSUME Inv, [Next]_vars PROVE Inv'
  OBVIOUS
<1>1. CASE UNCHANGED vars
  <2>1. /\ UNCHANGED <<tables, memoire, arrets>>
        /\ UNCHANGED disque /\ UNCHANGED index /\ UNCHANGED lecture
    BY <1>1 DEF vars, tables, memoire
  <2> QED
    BY <2>1, DehorsGarde DEF Inv, TypeOK
<1>2. ASSUME NEW p \in Requetes, Demander(p) \/ Continuer(p) \/ Abandonner(p)
      PROVE  Inv'
  BY <1>2, DeposerGarde, ReindexerGarde, AvancerRouteGarde, CreerTravailGarde, LancerGarde
     DEF Demander, Continuer
<1>3. ASSUME NEW j \in Numeros, Travailler(j) \/ Reprendre(j)
      PROVE  Inv'
  BY <1>3, DemarrerGarde, EnvoiGarde, CompterGarde, FinirGarde, AnnoncerGarde, ReprendreGarde
     DEF Travailler
<1>4. CASE Arreter
  BY <1>4, ArreterGarde
<1>5. CASE Dehors
  BY <1>2, <1>5, ExterieurGarde DEF Dehors
<1> QED
  BY <1>1, <1>2, <1>3, <1>4, <1>5 DEF Next

LEMMA InvGarde == Spec => []Inv
BY InitInv, EtapeGarde, PTL DEF Spec

-----------------------------------------------------------------------------
(* What is searchable, where nothing is erased.                            *)

\* Some version of a file, as that strategy cuts it, is among the chunks x.
VersionDans(s, x) == \E c \in Contenus : Range(Decoupe[<<c, s>>]) \subseteq x

\* While nothing failed, what is in x and what the task has left hold a version.
Indexe(t, k, x) ==
    /\ k # Repos /\ k.etape # "annoncer" /\ t.echecs = 0 =>
          VersionDans(t.strategie, x \cup Range(k.reste))
    /\ k.etape = "compter" /\ k.succes => Head(k.reste) \in x
    /\ t.statut = "done" => VersionDans(t.strategie, x)

\* What OpenRAG has read is searchable.
LusDans(o, x) == \A l \in o : l.etat = "lu" => l.document \in x

InvIndex == /\ LusDans(lecture, index)
            /\ \A j \in 1 .. Len(travaux) : Indexe(travaux[j], tache[j], index)

\* The steps of a reindexing that empty the partition.
Effacer == \E p \in Requetes : Vider(p)

LEMMA IndexeCroissant ==
    ASSUME NEW t, NEW k, NEW x, NEW y, x \subseteq y, Indexe(t, k, x)
    PROVE  Indexe(t, k, y)
<1>1. ASSUME NEW s, NEW a, NEW b, a \subseteq b, VersionDans(s, a)
      PROVE  VersionDans(s, b)
  BY <1>1 DEF VersionDans
<1>2. x \cup Range(k.reste) \subseteq y \cup Range(k.reste)
  OBVIOUS
<1> QED
  BY <1>1, <1>2 DEF Indexe

\* A job whose task has everything of a version left.
LEMMA IndexeNeuf ==
    ASSUME NEW t, t.statut # "done", NEW c \in Contenus, NEW k,
           k.etape # "compter", k.reste = Decoupe[<<c, t.strategie>>], NEW x
    PROVE  Indexe(t, k, x)
BY DEF Indexe, VersionDans

\* No job moves, and nothing is erased.
LEMMA IndexGrandi ==
    ASSUME InvIndex, index \subseteq index', LusDans(lecture', index'),
           UNCHANGED <<travaux, tache>>
    PROVE  InvIndex'
<1>1. ASSUME NEW j \in 1 .. Len(travaux)
      PROVE  Indexe(travaux[j], tache[j], index')
  BY IndexeCroissant DEF InvIndex
<1> QED
  BY <1>1 DEF InvIndex

\* One job moves with its task, and nothing is erased.
LEMMA TravailIndexe ==
    ASSUME Inv, InvIndex, NEW j \in 1 .. Len(travaux), NEW t, NEW k,
           travaux' = [travaux EXCEPT ![j] = t],
           tache' = [tache EXCEPT ![j] = k],
           index \subseteq index', LusDans(lecture', index'),
           Indexe(t, k, index')
    PROVE  InvIndex'
<1>1. /\ travaux \in Seq(Travail) /\ Len(travaux) \in Nat /\ j \in Numeros
      /\ tache \in [Numeros -> Tache \cup {Repos}]
      /\ \A i \in 1 .. Len(travaux) : i \in Numeros
  BY BornesAssumption DEF Inv, TypeOK, Numeros
<1>2. /\ Len(travaux') = Len(travaux) /\ travaux'[j] = t /\ tache'[j] = k
      /\ \A i \in 1 .. Len(travaux) : i # j => travaux'[i] = travaux[i] /\ tache'[i] = tache[i]
  BY <1>1
<1>3. ASSUME NEW i \in 1 .. Len(travaux)
      PROVE  Indexe(travaux'[i], tache'[i], index')
  <2>1. CASE i = j
    BY <1>2, <2>1
  <2>2. CASE i # j
    <3>1. Indexe(travaux[i], tache[i], index')
      BY IndexeCroissant DEF InvIndex
    <3> QED
      BY <1>2, <2>2, <3>1
  <2> QED
    BY <2>1, <2>2
<1> QED
  BY <1>2, <1>3 DEF InvIndex

LEMMA RangeTail ==
    ASSUME NEW S, NEW m \in Seq(S), m # <<>>
    PROVE  Range(m) \subseteq {Head(m)} \cup Range(Tail(m))
<1> SUFFICES ASSUME NEW i \in DOMAIN m, m[i] # Head(m)
             PROVE  m[i] \in Range(Tail(m))
  BY DEF Range
<1>1. DOMAIN m = 1 .. Len(m) /\ Len(m) \in Nat /\ Head(m) = m[1]
  OBVIOUS
<1>2. i \in 1 .. Len(m) /\ i # 1
  BY <1>1
<1>3. DOMAIN Tail(m) = 1 .. Len(m) - 1 /\ \A n \in 1 .. Len(m) - 1 : Tail(m)[n] = m[n + 1]
  BY <1>1
<1>4. i - 1 \in 1 .. Len(m) - 1 /\ i - 1 + 1 = i
  BY <1>1, <1>2
<1>5. i - 1 \in DOMAIN Tail(m) /\ Tail(m)[i - 1] = m[i]
  BY <1>3, <1>4
<1> QED
  BY <1>5 DEF Range

\* A route that creates a job, or launches it.
LEMMA RouteIndexe ==
    ASSUME Inv, InvIndex, NEW p \in Requetes, CreerTravail(p) \/ Lancer(p)
    PROVE  InvIndex'
<1>1. /\ travaux \in Seq(Travail) /\ Len(travaux) \in Nat /\ Len(travaux) <= MaxTravaux
      /\ Suivis /\ MaxTravaux \in Nat
      /\ UNCHANGED <<index, lecture>>
  BY BornesAssumption DEF Inv, TypeOK, CreerTravail, Lancer, openrag
<1>2. LusDans(lecture', index') /\ index \subseteq index'
  BY <1>1 DEF InvIndex
<1>3. CASE CreerTravail(p)
  <2> DEFINE n == Len(travaux) + 1
             t == [fichier |-> Courante(p).fichier,
                   strategie |-> StrategieDe(Courante(p).fichier, requete[p].strategie),
                   statut |-> "chunking", total |-> 0, envoyes |-> 0, echecs |-> 0]
  <2>1. travaux' = Append(travaux, t) /\ UNCHANGED tache /\ t.statut = "chunking"
    BY <1>3 DEF CreerTravail
  <2>2. n \in Numeros /\ tache[n] = Repos
    <3>1. Inv'
      BY <1>3, CreerTravailGarde
    <3>2. Len(travaux') = n
      BY <1>1, <2>1
    <3>3. n \in Numeros
      BY <1>1, <3>1, <3>2 DEF Inv, TypeOK, Numeros
    <3> QED
      BY <1>1, <3>3 DEF Suivis
  <2> HIDE DEF t
  <2>3. Len(travaux') = n /\ travaux'[n] = t
        /\ \A j \in 1 .. Len(travaux) : travaux'[j] = travaux[j]
    BY <1>1, <2>1
  <2>4. Indexe(t, tache[n], index)
    BY <2>1, <2>2 DEF Indexe, Repos
  <2>5. ASSUME NEW j \in 1 .. n
        PROVE  Indexe(travaux'[j], tache[j], index)
    <3>1. CASE j = n
      <4> HIDE DEF n
      <4> QED
        BY <2>3, <2>4, <3>1
    <3>2. CASE j # n
      <4>1. j \in 1 .. Len(travaux) /\ travaux'[j] = travaux[j]
        BY <1>1, <2>3, <3>2
      <4> QED
        BY <4>1 DEF InvIndex
    <3> QED
      BY <3>1, <3>2
  <2> QED
    BY <1>1, <1>2, <2>1, <2>3, <2>5 DEF InvIndex
<1>4. CASE Lancer(p)
  <2> DEFINE j == requete[p].travail
             c == Courante(p).contenu
             morceaux == Decoupe[<<c, travaux[j].strategie>>]
             t == [travaux[j] EXCEPT !.total = Len(morceaux)]
             k == NouvelleTache(morceaux, "depot")
  <2>1. travaux' = [travaux EXCEPT ![j] = t] /\ tache' = [tache EXCEPT ![j] = k]
    BY <1>4 DEF Lancer, Passer
  <2>2. j \in 1 .. Len(travaux) /\ travaux[j].statut = "chunking"
    BY <1>4 DEF Inv, Lancables, Lancer, Vierge
  <2>3. c \in Contenus
    BY <1>4, RouteType DEF Lancer, Etape, Repos, Piece
  <2>4. k.etape = "demarrer" /\ k.reste = morceaux
    BY DEF NouvelleTache
  <2>5. travaux[j] \in Travail
    BY <1>1, <2>2, ElementOfSeq
  <2>6. t.statut = "chunking" /\ t.strategie = travaux[j].strategie
    BY <2>2, <2>5 DEF Travail
  <2> HIDE DEF c, j, t, k
  <2>7. Indexe(t, k, index')
    BY <2>3, <2>4, <2>6, IndexeNeuf
  <2> QED
    BY <1>2, <2>1, <2>2, <2>7, TravailIndexe
<1> QED
  BY <1>3, <1>4

\* A task starts, sends, follows, counts, ends or announces.
LEMMA TacheIndexe ==
    ASSUME Inv, InvIndex, NEW j \in Numeros,
           Demarrer(j) \/ Compter(j) \/ Finir(j) \/ Annoncer(j)
    PROVE  InvIndex'
<1> DEFINE v == travaux[j]
           w == tache[j]
<1>1. UNCHANGED <<index, lecture>> /\ w # Repos
  BY DEF Demarrer, Compter, Finir, Annoncer, TacheEn, openrag, Repos
<1>2. /\ v \in Travail /\ w \in Tache /\ w.reste \in Seq(Morceaux)
      /\ Suivi(v, w, annonces[j]) /\ j \in 1 .. Len(travaux)
      /\ travaux \in Seq(Travail) /\ tache \in [Numeros -> Tache \cup {Repos}]
  BY <1>1, TacheType DEF Inv, TypeOK
<1>3. Indexe(v, w, index)
  BY <1>2 DEF InvIndex
<1>4. ASSUME NEW t, NEW k,
             travaux' = [travaux EXCEPT ![j] = t], tache' = [tache EXCEPT ![j] = k],
             Indexe(t, k, index)
      PROVE  InvIndex'
  BY <1>1, <1>2, <1>4, TravailIndexe DEF InvIndex
<1>5. CASE Demarrer(j)
  <2> DEFINE t == [v EXCEPT !.statut = "uploading"]
             etape == IF w.reste = <<>> THEN "finir" ELSE "envoyer"
             k == [w EXCEPT !.etape = etape]
  <2>1. travaux' = [travaux EXCEPT ![j] = t] /\ tache' = [tache EXCEPT ![j] = k]
        /\ w.etape = "demarrer"
    BY <1>5 DEF Demarrer, Passer, TacheEn
  <2>2. t.statut = "uploading" /\ t.strategie = v.strategie /\ t.echecs = v.echecs
    BY <1>2 DEF Travail
  <2>3. k.etape \in {"finir", "envoyer"} /\ k.reste = w.reste
    BY <1>2 DEF Tache
  <2> HIDE DEF t, k
  <2>4. Indexe(t, k, index)
    BY <1>1, <1>3, <2>1, <2>2, <2>3 DEF Indexe
  <2> QED
    BY <1>4, <2>1, <2>4
<1>6. CASE Compter(j)
  <2> DEFINE echecs == IF w.succes THEN v.echecs ELSE v.echecs + 1
             envoyes == v.envoyes + 1
             etape == IF Len(w.reste) = 1 THEN "finir" ELSE "envoyer"
             reste == Tail(w.reste)
             t == [v EXCEPT !.envoyes = envoyes, !.echecs = echecs]
             k == [w EXCEPT !.reste = reste, !.etape = etape]
  <2>1. w.etape = "compter" /\ w.reste # <<>> /\ v.echecs \in Nat
    BY <1>2, <1>6 DEF Compter, TacheEn, Suivi, Accordee, Travail
  <2>2. travaux' = [travaux EXCEPT ![j] = t]
    BY <1>2, <1>6 DEF Compter, Travail
  <2>3. tache' = [tache EXCEPT ![j] = k]
    BY <1>2, <1>6 DEF Compter, Passer, Tache
  <2>4. etape # "compter" /\ (echecs = 0 => w.succes /\ v.echecs = 0)
    BY <2>1
  <2>5. Range(w.reste) \subseteq {Head(w.reste)} \cup Range(reste)
    BY <1>2, <2>1, RangeTail
  <2> HIDE DEF echecs, envoyes, etape, reste
  <2>6. t.statut = v.statut /\ t.strategie = v.strategie /\ t.echecs = echecs
    BY <1>2 DEF Travail
  <2>7. k.etape = etape /\ k.reste = reste
    BY <1>2 DEF Tache
  <2> HIDE DEF t, k
  <2>8. t.echecs = 0 => VersionDans(t.strategie, index \cup Range(k.reste))
    <3> SUFFICES ASSUME t.echecs = 0 PROVE VersionDans(t.strategie, index \cup Range(k.reste))
      OBVIOUS
    <3>1. VersionDans(v.strategie, index \cup Range(w.reste)) /\ Head(w.reste) \in index
      BY <1>1, <1>3, <2>1, <2>4, <2>6 DEF Indexe
    <3>2. index \cup Range(w.reste) \subseteq index \cup Range(reste)
      BY <2>5, <3>1
    <3> QED
      BY <2>6, <2>7, <3>1, <3>2 DEF VersionDans
  <2>9. Indexe(t, k, index)
    BY <1>3, <2>4, <2>6, <2>7, <2>8 DEF Indexe
  <2> QED
    BY <1>4, <2>2, <2>3, <2>9
<1>7. CASE Finir(j)
  <2> DEFINE statut == IF v.echecs = 0 THEN "done" ELSE "done_with_errors"
             t == [v EXCEPT !.statut = statut]
             k == [w EXCEPT !.etape = "annoncer"]
  <2>1. /\ w.etape = "finir" /\ w.reste = <<>>
        /\ travaux' = [travaux EXCEPT ![j] = t] /\ tache' = [tache EXCEPT ![j] = k]
    BY <1>2, <1>7 DEF Finir, TacheEn, Passer, Suivi, Accordee
  <2>2. statut = "done" => v.echecs = 0
    OBVIOUS
  <2> HIDE DEF statut
  <2>3. t.statut = statut /\ t.strategie = v.strategie /\ k.etape = "annoncer"
    BY <1>2 DEF Travail, Tache
  <2> HIDE DEF t, k
  <2>4. v.echecs = 0 => VersionDans(v.strategie, index)
    <3>1. Range(w.reste) = {}
      BY <2>1 DEF Range
    <3>2. index \cup Range(w.reste) = index
      BY <3>1
    <3> QED
      BY <1>1, <1>3, <2>1, <3>2 DEF Indexe
  <2>5. Indexe(t, k, index)
    BY <2>2, <2>3, <2>4 DEF Indexe
  <2> QED
    BY <1>4, <2>1, <2>5
<1>8. CASE Annoncer(j)
  <2>1. tache' = [tache EXCEPT ![j] = Repos] /\ travaux' = [travaux EXCEPT ![j] = v]
    BY <1>2, <1>8 DEF Annoncer, Passer
  <2>2. Indexe(v, Repos, index)
    BY <1>3 DEF Indexe, Repos
  <2> QED
    BY <1>4, <2>1, <2>2
<1> QED
  BY <1>5, <1>6, <1>7, <1>8

\* What counts as sent is searchable.
LEMMA EnvoiIndexe ==
    ASSUME Inv, InvIndex, NEW j \in Numeros, Envoyer(j) \/ EnvoyerDocument(j) \/ Suivre(j)
    PROVE  InvIndex'
<1> DEFINE v == travaux[j]
           w == tache[j]
           c == Head(w.reste)
           compter(succes) == [w EXCEPT !.etape = "compter", !.succes = succes]
           suivre == [w EXCEPT !.etape = "suivre"]
<1>1. w.etape \in {"envoyer", "suivre"} /\ w # Repos /\ UNCHANGED travaux
  <2>1. w.etape \in {"envoyer", "suivre"}
    BY DEF Envoyer, EnvoyerDocument, Suivre, TacheEn
  <2>2. UNCHANGED travaux
    BY DEF Envoyer, EnvoyerDocument, Suivre, tables
  <2> QED
    BY <2>1, <2>2 DEF Repos
<1>2. w \in Tache /\ j \in 1 .. Len(travaux) /\ travaux' = [travaux EXCEPT ![j] = v]
  BY <1>1, TacheType DEF Inv, TypeOK
<1>3. Indexe(v, w, index) /\ LusDans(lecture, index)
  BY <1>2 DEF InvIndex
<1>4. /\ suivre.etape = "suivre" /\ suivre.reste = w.reste
      /\ \A succes \in BOOLEAN : /\ compter(succes).etape = "compter"
                                 /\ compter(succes).reste = w.reste
                                 /\ compter(succes).succes = succes
  BY <1>2 DEF Tache
<1> HIDE DEF compter, suivre
<1>5. ASSUME NEW k, Passer(j, k), k.reste = w.reste,
             k.etape = "compter" /\ k.succes => c \in index',
             index \subseteq index', LusDans(lecture', index')
      PROVE  InvIndex'
  <2>1. Indexe(v, w, index')
    BY <1>3, <1>5, IndexeCroissant
  <2>2. VersionDans(v.strategie, index' \cup Range(k.reste)) \/ v.echecs # 0
    BY <1>1, <1>5, <2>1 DEF Indexe
  <2>3. Indexe(v, k, index')
    BY <1>5, <2>1, <2>2 DEF Indexe
  <2> QED
    BY <1>2, <1>5, <2>3, TravailIndexe DEF Passer
<1>6. CASE Envoyer(j)
  <2>1. PICK recu \in BOOLEAN : \E succes \in BOOLEAN :
          /\ succes => recu
          /\ index' = IF recu THEN index \cup {c} ELSE index
          /\ Passer(j, compter(succes))
    BY <1>6 DEF Envoyer, c, compter
  <2>2. PICK succes \in BOOLEAN : (succes => recu) /\ Passer(j, compter(succes))
    BY <2>1
  <2>3. index \subseteq index' /\ LusDans(lecture', index')
    BY <1>3, <1>6, <2>1 DEF Envoyer, LusDans
  <2>4. succes => c \in index'
    BY <2>1, <2>2
  <2> QED
    BY <1>4, <1>5, <2>2, <2>3, <2>4
<1>7. CASE EnvoyerDocument(j)
  <2> DEFINE l == [travail |-> j, document |-> c, etat |-> "en_cours"]
             acceptee == (lecture \ Lectures(j, c)) \cup {l}
  <2>1. /\ UNCHANGED index /\ lecture' \in {lecture, acceptee}
        /\ \/ c \in index /\ Passer(j, compter(TRUE))
           \/ Passer(j, compter(FALSE))
           \/ Passer(j, suivre)
    BY <1>7 DEF EnvoyerDocument, c, compter, suivre
  <2>2. LusDans(lecture', index') /\ index \subseteq index'
    BY <1>3, <2>1 DEF LusDans
  <2>3. CASE c \in index /\ Passer(j, compter(TRUE))
    BY <1>4, <1>5, <2>1, <2>2, <2>3
  <2>4. CASE Passer(j, compter(FALSE))
    BY <1>4, <1>5, <2>2, <2>4
  <2>5. CASE Passer(j, suivre)
    BY <1>4, <1>5, <2>2, <2>5
  <2> QED
    BY <2>1, <2>3, <2>4, <2>5
<1>8. CASE Suivre(j)
  <2>1. PICK l \in Lectures(j, c) :
          /\ lecture' = IF l.etat = "en_cours" THEN lecture ELSE lecture \ {l}
          /\ Passer(j, compter(l.etat = "lu"))
    BY <1>8 DEF Suivre, c, compter
  <2>2. UNCHANGED index /\ LusDans(lecture', index')
    BY <1>3, <1>8, <2>1 DEF Suivre, LusDans
  <2>3. l.etat = "lu" => c \in index'
    BY <1>3, <2>1, <2>2 DEF LusDans, Lectures
  <2>4. compter(l.etat = "lu").etape = "compter" /\ compter(l.etat = "lu").reste = w.reste
        /\ (compter(l.etat = "lu").succes <=> l.etat = "lu")
    BY <1>4
  <2> QED
    BY <1>5, <2>1, <2>2, <2>3, <2>4
<1> QED
  BY <1>6, <1>7, <1>8

\* A job is resumed from the version of its file kept now.
LEMMA ReprendreIndexe ==
    ASSUME Inv, InvIndex, NEW j \in Numeros, Reprendre(j)
    PROVE  InvIndex'
<1> DEFINE v == travaux[j]
           perdue == v.fichier \notin sources \/ disque[v.fichier] = Rien
           c == disque[v.fichier]
           morceaux == Decoupe[<<c, v.strategie>>]
<1>1. /\ travaux \in Seq(Travail) /\ tache \in [Numeros -> Tache \cup {Repos}]
      /\ disque \in [Fichiers -> Contenus \cup {Rien}]
      /\ j \in 1 .. Len(travaux) /\ tache[j] = Repos /\ v \in Travail
  <2>1. j \in 1 .. Len(travaux) /\ tache[j] = Repos
    BY DEF Inv, Reprendre, Reprenables
  <2> QED
    BY <2>1, ElementOfSeq DEF Inv, TypeOK
<1>2. UNCHANGED <<index, lecture>> /\ index \subseteq index' /\ LusDans(lecture', index')
  BY DEF Reprendre, openrag, InvIndex
<1>3. CASE perdue
  <2> DEFINE t == [v EXCEPT !.statut = "interrupted"]
  <2>1. travaux' = [travaux EXCEPT ![j] = t] /\ tache' = [tache EXCEPT ![j] = Repos]
    BY <1>1, <1>3 DEF Reprendre
  <2>2. t.statut = "interrupted"
    BY <1>1 DEF Travail
  <2> HIDE DEF t
  <2>3. Indexe(t, Repos, index')
    BY <2>2 DEF Indexe, Repos
  <2> QED
    BY <1>1, <1>2, <2>1, <2>3, TravailIndexe
<1>4. CASE ~perdue
  <2> DEFINE t == [v EXCEPT !.statut = "uploading", !.total = Len(morceaux),
                            !.envoyes = 0, !.echecs = 0]
             k == NouvelleTache(morceaux, "reprise")
  <2>1. travaux' = [travaux EXCEPT ![j] = t] /\ tache' = [tache EXCEPT ![j] = k]
    BY <1>4 DEF Reprendre, Passer
  <2>2. c \in Contenus
    BY <1>1, <1>4 DEF Travail
  <2>3. t.statut = "uploading" /\ t.strategie = v.strategie
    BY <1>1 DEF Travail
  <2>4. k.etape = "demarrer" /\ k.reste = Decoupe[<<c, t.strategie>>]
    BY <2>3 DEF NouvelleTache
  <2> HIDE DEF t, k, c
  <2>5. Indexe(t, k, index')
    BY <2>2, <2>3, <2>4, IndexeNeuf
  <2> QED
    BY <1>1, <1>2, <2>1, <2>5, TravailIndexe
<1> QED
  BY <1>3, <1>4

\* What comes from outside, a stop, and the routes that touch no job.
LEMMA AutreIndexe ==
    ASSUME Inv, InvIndex,
           \/ Arreter
           \/ Dehors
           \/ \E p \in Requetes : Demander(p) \/ Sauver(p) \/ Noter(p) \/ Recreer(p)
    PROVE  InvIndex'
<1>1. CASE Arreter
  <2>1. /\ tache' = [j \in Numeros |-> Repos]
        /\ UNCHANGED <<travaux, index, lecture>>
    BY <1>1 DEF Arreter, tables, openrag
  <2>2. ASSUME NEW j \in 1 .. Len(travaux)
        PROVE  Indexe(travaux[j], tache'[j], index)
    <3>1. j \in Numeros /\ Indexe(travaux[j], tache[j], index)
      BY BornesAssumption DEF Inv, TypeOK, Numeros, InvIndex
    <3> QED
      BY <2>1, <3>1 DEF Indexe, Repos
  <2> QED
    BY <2>1, <2>2 DEF InvIndex
<1>2. ASSUME NEW l \in lecture, Lire(l)
      PROVE  InvIndex'
  <2>1. PICK etat \in {"lu", "echec"} :
          /\ lecture' = (lecture \ {l}) \cup {[l EXCEPT !.etat = etat]}
          /\ index' = IF etat = "lu" THEN index \cup {l.document} ELSE index
    BY <1>2 DEF Lire
  <2>2. [l EXCEPT !.etat = etat].etat = etat /\ [l EXCEPT !.etat = etat].document = l.document
    BY <1>2 DEF Inv, TypeOK, Lecture
  <2>3. index \subseteq index' /\ LusDans(lecture', index')
    BY <2>1, <2>2 DEF InvIndex, LusDans
  <2>4. UNCHANGED <<travaux, tache>>
    BY <1>2 DEF Lire, tables, memoire
  <2> QED
    BY <2>3, <2>4, IndexGrandi
<1>3. CASE UNCHANGED <<travaux, tache, index, lecture>>
  BY <1>3, IndexGrandi DEF InvIndex
<1>4. ASSUME NEW p \in Requetes,
             Demander(p) \/ Sauver(p) \/ Noter(p) \/ Recreer(p) \/ Abandonner(p)
      PROVE  UNCHANGED <<travaux, tache, index, lecture>>
  BY <1>4 DEF Demander, Deposer, Reindexer, Sauver, Noter, Recreer, Abandonner, tables, openrag
<1>5. ASSUME NEW f \in Fichiers, PerdreSource(f)
      PROVE  UNCHANGED <<travaux, tache, index, lecture>>
  BY <1>5 DEF PerdreSource, tables, memoire, openrag
<1> QED
  BY <1>1, <1>2, <1>3, <1>4, <1>5 DEF Dehors

LEMMA EtapeIndexe == Inv /\ InvIndex /\ [Next /\ ~Effacer]_vars => InvIndex'
<1> SUFFICES ASSUME Inv, InvIndex, [Next /\ ~Effacer]_vars PROVE InvIndex'
  OBVIOUS
<1>1. CASE UNCHANGED vars
  BY <1>1, IndexGrandi DEF vars, InvIndex
<1>2. ASSUME NEW p \in Requetes, Demander(p) \/ Continuer(p), ~Effacer
      PROVE  InvIndex'
  BY <1>2, AutreIndexe, RouteIndexe DEF Continuer, Effacer
<1>3. ASSUME NEW j \in Numeros, Travailler(j) \/ Reprendre(j)
      PROVE  InvIndex'
  BY <1>3, TacheIndexe, EnvoiIndexe, ReprendreIndexe DEF Travailler
<1>4. CASE Arreter \/ Dehors
  BY <1>4, AutreIndexe
<1> QED
  BY <1>1, <1>2, <1>3, <1>4 DEF Next

-----------------------------------------------------------------------------
\* The rows, the tasks, the routes and what OpenRAG holds keep their shapes,
\* whatever deposits, reindexings, resumptions and stops are interleaved.
THEOREM TypesGardes == Spec => []TypeOK
<1>1. Inv => TypeOK
  BY DEF Inv
<1> QED
  BY <1>1, InvGarde, PTL

\* routers/ingest.py: whatever is lost, refused or resumed from another version
\* of the file, the counts of a job stay within its total, and it is over
\* when everything was tried, "done" exactly when nothing failed.
THEOREM ComptesToujoursJustes == Spec => []ComptesJustes
<1>1. Inv => ComptesJustes
  BY DEF Inv, Suivis, Suivi, Juste, ComptesJustes
<1> QED
  BY <1>1, InvGarde, PTL

\* job_store.complete_job: however often the process stops and resumes a job,
\* its end is announced at most once, and only when it is over.
THEOREM AnnoncesUniques == Spec => []AnnonceUnique
<1>1. ASSUME Inv PROVE AnnonceUnique
  <2> SUFFICES ASSUME NEW j \in Numeros
               PROVE  annonces[j] <= 1 /\ (annonces[j] = 1 => Termine(j))
    BY DEF AnnonceUnique
  <2>1. /\ Suivis /\ Len(travaux) \in Nat /\ j \in 1 .. MaxTravaux
        /\ MaxTravaux \in Nat
    BY <1>1, BornesAssumption DEF Inv, TypeOK, Numeros
  <2>2. CASE j <= Len(travaux)
    BY <2>1, <2>2 DEF Suivis, Suivi, Termine, Cree
  <2>3. CASE j > Len(travaux)
    BY <2>1, <2>3 DEF Suivis
  <2> QED
    BY <2>1, <2>2, <2>3
<1> QED
  BY <1>1, InvGarde, PTL

\* job_store.complete_job: wherever the process stopped, whatever was lost and
\* whatever version a job was resumed from, a job that says done has one whole
\* version of its file searchable, as long as no reindexing empties the partition.
THEOREM FinisVrais == Spec /\ [][~Effacer]_vars => []FiniVrai
<1>1. Init => InvIndex
  BY DEF Init, InvIndex, LusDans
<1>2. Inv /\ InvIndex /\ [Next]_vars /\ [~Effacer]_vars => InvIndex'
  BY EtapeIndexe
<1>3. InvIndex => FiniVrai
  BY DEF InvIndex, Indexe, VersionDans, FiniVrai
<1> QED
  BY <1>1, <1>2, <1>3, InvGarde, PTL DEF Spec

-----------------------------------------------------------------------------
(* The two scenarios of MCIngestion, without what bounds them: in the first *)
(* nothing is erased, in the second nothing but an erasure is refused.      *)

NextScenarios == /\ Next
                 /\ scenario = "arrets" => ~Effacer
                 /\ scenario = "reindexation" => Reindexation
                 /\ UNCHANGED scenario

SpecScenarios == MCInit /\ [][NextScenarios]_mcvars

\* Only the bounds are left out.
LEMMA SansBorne == MCSpec => SpecScenarios
<1> DEFINE Rien_a_vider == scenario = "arrets" => \A p \in Requetes : ~Etape(p, "vider")
<1>1. MCInit => Rien_a_vider
  BY DEF MCInit, Init, Etape, Repos
<1>2. Rien_a_vider /\ [MCNext]_mcvars => Rien_a_vider'
  BY DEF MCNext, Etroit, Etape, Repos, mcvars, vars
<1>3. Rien_a_vider /\ [MCNext]_mcvars => [NextScenarios]_mcvars
  BY DEF MCNext, NextScenarios, Effacer, Vider
<1> QED
  BY <1>1, <1>2, <1>3, PTL DEF MCSpec, SpecScenarios

\* job_store.complete_job: in the first scenario, with deposits by any number
\* of routes and reindexings that stop before they erase, a job that says done
\* has one whole version of its file searchable, wherever the process stopped.
THEOREM FinisVraisSansEffacer == SpecScenarios => []FiniVraiSansEffacer
<1> DEFINE Suivie == Inv /\ (scenario = "arrets" => InvIndex)
<1>1. MCInit => Suivie
  BY InitInv DEF MCInit, Init, InvIndex, LusDans
<1>2. Suivie /\ [NextScenarios]_mcvars => Suivie'
  <2> SUFFICES ASSUME Suivie, [NextScenarios]_mcvars PROVE Suivie'
    OBVIOUS
  <2>1. [Next]_vars /\ UNCHANGED scenario
    BY DEF NextScenarios, mcvars
  <2>2. scenario = "arrets" => [Next /\ ~Effacer]_vars
    BY DEF NextScenarios, mcvars
  <2>3. Inv'
    BY <2>1, EtapeGarde
  <2>4. scenario' = "arrets" => InvIndex'
    BY <2>1, <2>2, EtapeIndexe
  <2> QED
    BY <2>3, <2>4
<1>3. Suivie => FiniVraiSansEffacer
  BY DEF InvIndex, Indexe, VersionDans, FiniVrai, FiniVraiSansEffacer
<1> QED
  BY <1>1, <1>2, <1>3, PTL DEF SpecScenarios

-----------------------------------------------------------------------------
(* The second scenario, one route at a time: what is searchable follows the *)
(* files, through tasks that still send what a reindexing has erased.       *)

UneRoute == \A p, q \in Requetes : p = q

\* The file is still to be taken in by that route, which has erased the rest.
Attend(r, f) == /\ r # Repos /\ r.etape # "vider"
                /\ \E i \in 1 .. Len(r.suite) : r.suite[i].fichier = f

Attendu(f) == \E p \in Requetes : Attend(requete[p], f)

\* The job that answers for its file.
Repondant(j) == /\ \A k \in j + 1 .. Len(travaux) : travaux[k].fichier # travaux[j].fichier
                /\ ~Attendu(travaux[j].fichier)

\* What a task has yet to send.
EnMain(k) == IF k = Repos \/ k.etape \in {"finir", "annoncer"} THEN {} ELSE Range(k.reste)

\* With what its task has in hand, the job makes the whole of d searchable.
Servie(d, t, k, x) == /\ Range(Decoupe[<<d, t.strategie>>]) \subseteq x \cup EnMain(k)
                      /\ k # Repos /\ k.etape = "compter" => Head(k.reste) \in x

LuesPour(j, o, x) == \A l \in o : l.travail = j /\ l.etat = "lu" => l.document \in x

\* What a route knows of the file it takes in.
Lucide(r) ==
    /\ r.etape \in {"noter", "creer", "lancer"} =>
          disque[Head(r.suite).fichier] = Head(r.suite).contenu
    /\ r.etape \in {"creer", "lancer"} => Head(r.suite).fichier \in sources
    /\ r.etape = "lancer" => /\ r.travail = Len(travaux)
                             /\ travaux[Len(travaux)].fichier = Head(r.suite).fichier
                             /\ \A l \in lecture : l.travail # Len(travaux)
    /\ r.etape = "vider" =>
          \A f \in sources : \E i \in 1 .. Len(r.suite) : r.suite[i].fichier = f

InvServie ==
    /\ \A j \in 1 .. Len(travaux) : travaux[j].fichier \in sources
    /\ \A l \in lecture : l.travail <= Len(travaux)
    /\ \A p \in Requetes : Lucide(requete[p])
    /\ \A j \in 1 .. Len(travaux) : Repondant(j) =>
          /\ Servie(disque[travaux[j].fichier], travaux[j], tache[j], index)
          /\ LuesPour(j, lecture, index)
    /\ \A j \in Numeros : tache[j] # Repos /\ tache[j].etape = "compter" => tache[j].succes
    /\ reprise = {}

\* Every element of a set is in the sequence made of it.
LEMMA SuiteComplete ==
    ASSUME NEW S, IsFiniteSet(S), NEW e \in S
    PROVE  \E i \in 1 .. Len(SetToSeq(S)) : SetToSeq(S)[i] = e
<1> DEFINE n == Cardinality(S)
           g == SetToSeq(S)
           T == {g[i] : i \in 1 .. n}
<1>1. n \in Nat /\ ExistsBijection(1 .. n, S)
  BY FS_CardinalityType
<1>2. \E f \in [1 .. n -> S] : IsInjective(f)
  BY <1>1 DEF ExistsBijection, Bijection, Injection, IsInjective
<1>3. g \in [1 .. n -> S] /\ IsInjective(g)
  BY <1>2 DEF SetToSeq
<1> HIDE DEF g
<1>4. g \in Bijection(1 .. n, T)
  BY <1>3 DEF IsInjective, Bijection, Injection, Surjection
<1>5. IsFiniteSet(1 .. n) /\ Cardinality(1 .. n) = n
  <2>1. IsFiniteSet(1 .. n) /\ Cardinality(1 .. n) = IF 1 > n THEN 0 ELSE n - 1 + 1
    BY <1>1, FS_Interval
  <2> QED
    BY <1>1, <2>1
<1>6. Cardinality(T) = Cardinality(S) /\ T \subseteq S
  <2> HIDE DEF T, n
  <2>1. Cardinality(T) = Cardinality(1 .. n)
    <3>1. ExistsBijection(1 .. n, T)
      BY <1>4 DEF ExistsBijection
    <3> QED
      BY <1>5, <3>1, FS_Bijection
  <2>2. T \subseteq S
    BY <1>1, <1>3 DEF T
  <2> QED
    BY <1>5, <2>1, <2>2 DEF n
<1>7. T = S
  BY <1>6, FS_Subset
<1>8. Len(g) = n
  BY <1>1, <1>3
<1> QED
  BY <1>7, <1>8 DEF g

\* The only route moves: what it does not await stays as it was.
LEMMA RouteServie ==
    ASSUME InvServie, UneRoute, NEW p \in Requetes,
           Lucide(requete[p])', sources \subseteq sources',
           UNCHANGED <<travaux, tache, lecture, reprise>>,
           \A f \in sources : ~Attend(requete'[p], f) =>
               ~Attend(requete[p], f) /\ disque'[f] = disque[f] /\ index' = index
    PROVE  InvServie'
<1>1. \A q \in Requetes : q = p
  BY DEF UneRoute
<1>2. /\ \A j \in 1 .. Len(travaux') : travaux'[j].fichier \in sources'
      /\ \A l \in lecture' : l.travail <= Len(travaux')
      /\ \A j \in Numeros : tache'[j] # Repos /\ tache'[j].etape = "compter" => tache'[j].succes
      /\ reprise' = {}
  BY DEF InvServie
<1>3. \A q \in Requetes : Lucide(requete[q])'
  BY <1>1
<1>4. ASSUME NEW j \in 1 .. Len(travaux), Repondant(j)'
      PROVE  /\ Servie(disque'[travaux[j].fichier], travaux[j], tache[j], index')
             /\ LuesPour(j, lecture, index')
  <2>1. travaux[j].fichier \in sources /\ ~Attend(requete'[p], travaux[j].fichier)
    BY <1>4 DEF InvServie, Repondant, Attendu
  <2>2. /\ ~Attend(requete[p], travaux[j].fichier) /\ index' = index
        /\ disque'[travaux[j].fichier] = disque[travaux[j].fichier]
    BY <2>1
  <2>3. Repondant(j)
    BY <1>1, <1>4, <2>2 DEF Repondant, Attendu
  <2> QED
    BY <2>2, <2>3 DEF InvServie
<1> QED
  BY <1>2, <1>3, <1>4 DEF InvServie

\* A task moves with its job, and nothing is erased.
LEMMA TacheServie ==
    ASSUME Inv, InvServie, NEW j \in 1 .. Len(travaux), NEW t, NEW k,
           \A p \in Requetes : Etape(p, "lancer") => requete[p].travail # j,
           t.fichier = travaux[j].fichier, t.strategie = travaux[j].strategie,
           travaux' = [travaux EXCEPT ![j] = t],
           tache' = [tache EXCEPT ![j] = k],
           k # Repos /\ k.etape = "compter" => k.succes,
           index \subseteq index',
           \A l \in lecture' : l \in lecture \/ (l.travail = j /\ l.etat = "en_cours"),
           UNCHANGED <<disque, sources, requete, reprise>>,
           Repondant(j) => Servie(disque[t.fichier], t, k, index')
    PROVE  InvServie'
<1>1. /\ travaux \in Seq(Travail) /\ Len(travaux) \in Nat /\ j \in Numeros
      /\ tache \in [Numeros -> Tache \cup {Repos}]
      /\ \A i \in 1 .. Len(travaux) : i \in Numeros
  BY BornesAssumption DEF Inv, TypeOK, Numeros
<1>2. /\ Len(travaux') = Len(travaux) /\ travaux'[j] = t /\ tache'[j] = k
      /\ \A i \in 1 .. Len(travaux) : i # j => travaux'[i] = travaux[i]
      /\ \A i \in Numeros : i # j => tache'[i] = tache[i]
  BY <1>1
<1>3. \A i \in 1 .. Len(travaux) : /\ travaux'[i].fichier = travaux[i].fichier
                                   /\ travaux'[i].strategie = travaux[i].strategie
  BY <1>2
<1>4. ASSUME NEW i \in 1 .. Len(travaux), Repondant(i)'
      PROVE  Repondant(i)
  <2>1. \A n \in i + 1 .. Len(travaux) : travaux[n].fichier # travaux[i].fichier
    <3> SUFFICES ASSUME NEW n \in i + 1 .. Len(travaux)
                 PROVE  travaux[n].fichier # travaux[i].fichier
      OBVIOUS
    <3>1. n \in 1 .. Len(travaux) /\ n \in i + 1 .. Len(travaux')
      BY <1>1, <1>2
    <3> QED
      BY <1>3, <1>4, <3>1 DEF Repondant
  <2>2. ~Attendu(travaux[i].fichier)
    BY <1>3, <1>4 DEF Repondant, Attendu
  <2> QED
    BY <2>1, <2>2 DEF Repondant
<1>5. /\ \A i \in 1 .. Len(travaux') : travaux'[i].fichier \in sources'
      /\ reprise' = {}
  BY <1>2, <1>3 DEF InvServie
<1>6. \A l \in lecture' : l.travail <= Len(travaux')
  BY <1>1, <1>2 DEF InvServie
<1>7. \A i \in Numeros : tache'[i] # Repos /\ tache'[i].etape = "compter" => tache'[i].succes
  BY <1>2 DEF InvServie
<1>8. ASSUME NEW p \in Requetes
      PROVE  Lucide(requete[p])'
  <2> DEFINE n == Len(travaux)
  <2>1. Lucide(requete[p])
    BY DEF InvServie
  <2>2. CASE requete[p].etape = "lancer"
    <3>1. n # j /\ n \in 1 .. Len(travaux)
      BY <1>1, <2>1, <2>2 DEF Lucide, Etape
    <3>2. travaux'[n].fichier = travaux[n].fichier
      BY <1>3, <3>1
    <3>3. \A l \in lecture' : l.travail # n
      BY <2>1, <2>2, <3>1 DEF Lucide
    <3> QED
      BY <1>2, <2>1, <2>2, <3>2, <3>3 DEF Lucide
  <2>3. CASE requete[p].etape # "lancer"
    BY <2>1, <2>3 DEF Lucide
  <2> QED
    BY <2>2, <2>3
<1>9. ASSUME NEW i \in 1 .. Len(travaux), Repondant(i)'
      PROVE  /\ Servie(disque[travaux'[i].fichier], travaux'[i], tache'[i], index')
             /\ LuesPour(i, lecture', index')
  <2>1. Repondant(i)
    BY <1>4, <1>9
  <2>2. LuesPour(i, lecture, index) /\ Servie(disque[travaux[i].fichier], travaux[i], tache[i], index)
    BY <2>1 DEF InvServie
  <2>3. LuesPour(i, lecture', index')
    BY <2>2 DEF LuesPour
  <2>4. CASE i = j
    BY <1>2, <2>1, <2>3, <2>4
  <2>5. CASE i # j
    <3>1. travaux'[i] = travaux[i] /\ tache'[i] = tache[i]
      BY <1>1, <1>2, <2>5
    <3> QED
      BY <2>2, <2>3, <3>1 DEF Servie
  <2> QED
    BY <2>4, <2>5
<1> QED
  BY <1>2, <1>5, <1>6, <1>7, <1>8, <1>9 DEF InvServie

\* A route is asked for: a reindexing takes in every file there is.
LEMMA DemanderServie ==
    ASSUME Inv, InvServie, UneRoute, NEW p \in Requetes, Demander(p)
    PROVE  InvServie'
<1>1. /\ requete[p] = Repos
      /\ UNCHANGED <<disque, sources, travaux, tache, index, lecture, reprise>>
  BY DEF Demander, Deposer, Reindexer, tables, openrag
<1>2. \A f : ~Attend(requete[p], f)
  BY <1>1 DEF Attend
<1>3. requete \in [Requetes -> Route \cup {Repos}]
  BY DEF Inv, TypeOK
<1>4. ASSUME NEW s \in Strategies, NEW f \in Fichiers, NEW c \in Contenus, Deposer(p, f, c, s)
      PROVE  Lucide(requete[p])'
  <2>1. requete'[p].etape = "sauver"
    BY <1>3, <1>4 DEF Deposer, Aller
  <2> QED
    BY <2>1 DEF Lucide
<1>5. ASSUME NEW s \in Strategies, Reindexer(p, s)
      PROVE  Lucide(requete[p])'
  <2> DEFINE piece(f) == [fichier |-> f, contenu |-> disque[f]]
             pieces == {piece(f) : f \in sources}
             suite == SetToSeq(pieces)
  <2>1. requete'[p].etape = "vider" /\ requete'[p].suite = suite
    BY <1>3, <1>5 DEF Reindexer, Aller
  <2>2. IsFiniteSet(pieces)
    <3>1. IsFiniteSet(sources)
      BY FiniAssumption, FS_Subset DEF Inv, TypeOK
    <3>2. [f \in sources |-> piece(f)] \in Surjection(sources, pieces)
      BY DEF Surjection
    <3> QED
      BY <3>1, <3>2, FS_Surjection
  <2>3. ASSUME NEW f \in sources
        PROVE  \E i \in 1 .. Len(suite) : suite[i].fichier = f
    <3>1. piece(f) \in pieces /\ piece(f).fichier = f
      OBVIOUS
    <3> HIDE DEF pieces, piece
    <3> QED
      BY <2>2, <3>1, SuiteComplete
  <2> HIDE DEF suite
  <2> QED
    BY <1>1, <2>1, <2>3 DEF Lucide
<1>6. Lucide(requete[p])'
  BY <1>4, <1>5 DEF Demander
<1> QED
  BY <1>1, <1>2, <1>6, RouteServie

\* The steps of a route that create no job: the file it replaces is awaited,
\* and so is every file once the partition is emptied.
LEMMA AvancerServie ==
    ASSUME Inv, InvServie, UneRoute, Refus \subseteq {"vider"}, NEW p \in Requetes,
           Sauver(p) \/ Noter(p) \/ Vider(p) \/ Recreer(p) \/ Abandonner(p)
    PROVE  InvServie'
<1> DEFINE w == requete[p]
<1>1. w # Repos /\ w.etape \in {"vider", "recreer", "sauver", "noter"}
  BY DEF Sauver, Noter, Vider, Recreer, Abandonner, Etape, Repos
<1>2. /\ w \in Route /\ w.suite \in Seq(Piece) /\ w.suite # <<>> /\ Len(w.suite) >= 1
      /\ Head(w.suite) \in Piece /\ Head(w.suite) = w.suite[1]
      /\ requete \in [Requetes -> Route \cup {Repos}]
      /\ disque \in [Fichiers -> Contenus \cup {Rien}]
  BY <1>1, RouteType DEF Inv, TypeOK, Courante
<1>3. Lucide(w)
  BY DEF InvServie
<1>4. ASSUME NEW e \in {"recreer", "sauver", "noter", "creer"},
             Aller(p, [requete[p] EXCEPT !.etape = e])
      PROVE  /\ requete'[p] \in Route /\ requete'[p] # Repos
             /\ requete'[p].etape = e /\ requete'[p].suite = w.suite
  BY <1>2, <1>4 DEF Aller, Route, Repos
<1>5. CASE Sauver(p)
  <2> DEFINE c == Courante(p)
  <2>1. /\ disque' = [disque EXCEPT ![c.fichier] = c.contenu] /\ w.etape = "sauver"
        /\ requete'[p] # Repos
        /\ requete'[p].etape = "noter" /\ requete'[p].suite = w.suite
        /\ UNCHANGED <<sources, travaux, tache, index, lecture, reprise>>
    BY <1>4, <1>5 DEF Sauver, Etape, tables, openrag
  <2>2. c = Head(w.suite) /\ c.fichier \in Fichiers /\ c.contenu \in Contenus
    BY <1>2 DEF Courante, Piece
  <2> HIDE DEF c
  <2>3. disque'[c.fichier] = c.contenu /\ \A f \in Fichiers : f # c.fichier => disque'[f] = disque[f]
    BY <1>2, <2>1, <2>2
  <2>4. Lucide(requete[p])'
    BY <2>1, <2>2, <2>3 DEF Lucide
  <2>5. ASSUME NEW f \in sources, ~Attend(requete'[p], f)
        PROVE  ~Attend(w, f) /\ disque'[f] = disque[f]
    <3>1. ~Attend(w, f) /\ f # c.fichier
      BY <1>1, <1>2, <2>1, <2>2, <2>5 DEF Attend
    <3>2. f \in Fichiers
      BY DEF Inv, TypeOK
    <3> QED
      BY <2>3, <3>1, <3>2
  <2> QED
    BY <2>1, <2>4, <2>5, RouteServie
<1>6. CASE Noter(p)
  <2>1. /\ sources' = sources \cup {Head(w.suite).fichier} /\ w.etape = "noter"
        /\ requete'[p] # Repos
        /\ requete'[p].etape = "creer" /\ requete'[p].suite = w.suite
        /\ UNCHANGED <<disque, travaux, tache, index, lecture, reprise>>
    BY <1>4, <1>6 DEF Noter, Etape, openrag, Courante
  <2>2. Lucide(requete[p])'
    BY <1>3, <2>1 DEF Lucide
  <2>3. \A f : Attend(w, f) => Attend(requete'[p], f)
    BY <2>1 DEF Attend
  <2> QED
    BY <2>1, <2>2, <2>3, RouteServie
<1>7. CASE Vider(p)
  <2>1. /\ w.etape = "vider" /\ requete'[p] # Repos
        /\ requete'[p].etape = "recreer" /\ requete'[p].suite = w.suite
        /\ UNCHANGED <<disque, sources, travaux, tache, lecture, reprise>>
    BY <1>4, <1>7 DEF Vider, Etape, tables
  <2>2. Lucide(requete[p])'
    BY <2>1 DEF Lucide
  <2>3. \A f \in sources : Attend(requete'[p], f)
    BY <1>3, <2>1 DEF Attend, Lucide
  <2> QED
    BY <2>1, <2>2, <2>3, RouteServie
<1>8. CASE Recreer(p)
  <2>1. /\ w.etape = "recreer" /\ requete'[p] # Repos
        /\ requete'[p].etape = "sauver" /\ requete'[p].suite = w.suite
        /\ UNCHANGED <<disque, sources, travaux, tache, index, lecture, reprise>>
    BY <1>4, <1>8 DEF Recreer, Etape, tables, openrag
  <2>2. Lucide(requete[p])'
    BY <2>1 DEF Lucide
  <2>3. \A f : Attend(w, f) => Attend(requete'[p], f)
    BY <2>1 DEF Attend
  <2> QED
    BY <2>1, <2>2, <2>3, RouteServie
<1>9. CASE Abandonner(p)
  <2>1. /\ w.etape = "vider" /\ requete'[p] = Repos
        /\ UNCHANGED <<disque, sources, travaux, tache, index, lecture, reprise>>
    BY <1>2, <1>9 DEF Abandonner, Etape, Aller, tables, openrag
  <2>2. Lucide(requete[p])'
    BY <2>1 DEF Lucide, Repos
  <2>3. \A f : ~Attend(w, f)
    BY <2>1 DEF Attend
  <2> QED
    BY <2>1, <2>2, <2>3, RouteServie
<1> QED
  BY <1>5, <1>6, <1>7, <1>8, <1>9

\* A job is created for a file that is still awaited.
LEMMA CreerServie ==
    ASSUME Inv, InvServie, UneRoute, NEW p \in Requetes, CreerTravail(p)
    PROVE  InvServie'
<1> DEFINE w == requete[p]
           f == Courante(p).fichier
           n == Len(travaux) + 1
           t == [fichier |-> f, strategie |-> StrategieDe(f, w.strategie),
                 statut |-> "chunking", total |-> 0, envoyes |-> 0, echecs |-> 0]
<1>1. /\ w.etape = "creer" /\ w # Repos /\ w \in Route /\ f = Head(w.suite).fichier
      /\ w.suite # <<>> /\ Head(w.suite) = w.suite[1] /\ Len(w.suite) >= 1
      /\ travaux \in Seq(Travail) /\ Len(travaux) \in Nat
      /\ requete \in [Requetes -> Route \cup {Repos}]
  <2>1. w.etape = "creer" /\ w # Repos
    BY DEF CreerTravail, Etape, Repos
  <2>2. w \in Route /\ w.suite \in Seq(Piece) /\ w.suite # <<>> /\ Len(w.suite) >= 1
    BY <2>1, RouteType
  <2> QED
    BY <2>1, <2>2 DEF Inv, TypeOK, Courante
<1>2. /\ travaux' = Append(travaux, t)
      /\ requete'[p] = [w EXCEPT !.etape = "lancer", !.travail = Len(travaux')]
      /\ UNCHANGED <<disque, sources, tache, index, lecture, reprise>>
  BY <1>1 DEF CreerTravail, Aller, openrag
<1>3. t.fichier = f
  OBVIOUS
<1> HIDE DEF t
<1>4. /\ Len(travaux') = n /\ travaux'[n] = t
      /\ \A j \in 1 .. Len(travaux) : travaux'[j] = travaux[j]
  BY <1>1, <1>2
<1>5. /\ requete'[p].etape = "lancer" /\ requete'[p].travail = n
      /\ requete'[p].suite = w.suite /\ requete'[p] # Repos
  BY <1>1, <1>2, <1>4 DEF Route, Repos
<1>6. Lucide(w)
  BY DEF InvServie
<1>7. f \in sources /\ \A l \in lecture : l.travail # n
  <2>1. \A l \in lecture : l.travail <= Len(travaux) /\ l.travail \in Nat
    BY DEF InvServie, Inv, TypeOK, Lecture
  <2> QED
    BY <1>1, <1>6, <2>1 DEF Lucide
<1>8. Attend(requete'[p], f)
  BY <1>1, <1>5 DEF Attend
<1>9. \A g : Attend(w, g) => Attend(requete'[p], g)
  BY <1>1, <1>5 DEF Attend
<1> HIDE DEF n, f
<1>10. Lucide(requete[p])'
  BY <1>1, <1>2, <1>3, <1>4, <1>5, <1>6, <1>7 DEF Lucide
<1>11. \A q \in Requetes : q = p
  BY DEF UneRoute
<1>12. \A j \in 1 .. n : j = n \/ j \in 1 .. Len(travaux)
  BY <1>1 DEF n
<1>13. \A j \in 1 .. Len(travaux') : travaux'[j].fichier \in sources
  BY <1>3, <1>4, <1>7, <1>12 DEF InvServie
<1>14. \A l \in lecture : l.travail <= Len(travaux')
  BY <1>1, <1>4 DEF InvServie, Inv, TypeOK, Lecture, n
<1>15. ASSUME NEW j \in 1 .. Len(travaux'), Repondant(j)'
       PROVE  /\ Servie(disque[travaux'[j].fichier], travaux'[j], tache[j], index)
              /\ LuesPour(j, lecture, index)
  <2>1. j # n
    BY <1>3, <1>4, <1>8, <1>15 DEF Repondant, Attendu
  <2>2. j \in 1 .. Len(travaux) /\ travaux'[j] = travaux[j]
    BY <1>4, <1>12, <2>1
  <2>3. ~Attendu(travaux[j].fichier)
    BY <1>9, <1>11, <1>15, <2>2 DEF Repondant, Attendu
  <2>4. \A k \in j + 1 .. Len(travaux) : travaux[k].fichier # travaux[j].fichier
    <3> SUFFICES ASSUME NEW k \in j + 1 .. Len(travaux)
                 PROVE  travaux[k].fichier # travaux[j].fichier
      OBVIOUS
    <3>1. k \in 1 .. Len(travaux) /\ k \in j + 1 .. Len(travaux')
      BY <1>1, <1>4, <2>2 DEF n
    <3> QED
      BY <1>4, <1>15, <2>2, <3>1 DEF Repondant
  <2>5. Repondant(j)
    BY <2>3, <2>4 DEF Repondant
  <2> QED
    BY <2>2, <2>5 DEF InvServie
<1> QED
  BY <1>2, <1>10, <1>11, <1>13, <1>14, <1>15 DEF InvServie

\* Its task has the whole of the file it was created for.
LEMMA LancerServie ==
    ASSUME Inv, InvServie, UneRoute, NEW p \in Requetes, Lancer(p)
    PROVE  InvServie'
<1> DEFINE w == requete[p]
           j == w.travail
           c == Head(w.suite)
           morceaux == Decoupe[<<c.contenu, travaux[j].strategie>>]
           t == [travaux[j] EXCEPT !.total = Len(morceaux)]
           k == NouvelleTache(morceaux, "depot")
           n == Len(travaux)
<1>1. /\ w.etape = "lancer" /\ w # Repos /\ w \in Route
      /\ w.suite \in Seq(Piece) /\ w.suite # <<>> /\ Len(w.suite) \in Nat /\ Len(w.suite) >= 1
      /\ requete \in [Requetes -> Route \cup {Repos}]
      /\ travaux \in Seq(Travail) /\ n \in Nat
      /\ tache \in [Numeros -> Tache \cup {Repos}]
      /\ \A i \in 1 .. n : i \in Numeros
  <2>1. w.etape = "lancer" /\ w # Repos
    BY DEF Lancer, Etape, Repos
  <2>2. w \in Route /\ w.suite \in Seq(Piece) /\ w.suite # <<>> /\ Len(w.suite) \in 1 .. MaxTravaux
    BY <2>1, RouteType
  <2> QED
    BY <2>1, <2>2, BornesAssumption DEF Inv, TypeOK, Numeros
<1>2. /\ travaux' = [travaux EXCEPT ![j] = t] /\ tache' = [tache EXCEPT ![j] = k]
      /\ requete'[p] = IF Len(w.suite) = 1 THEN Repos
                       ELSE [w EXCEPT !.etape = "sauver", !.suite = Tail(@)]
      /\ UNCHANGED <<disque, sources, index, lecture, reprise>>
  BY <1>1 DEF Lancer, Aller, Passer, Courante, openrag
<1>3. /\ j = n /\ j \in 1 .. n /\ travaux[j].fichier = c.fichier
      /\ disque[c.fichier] = c.contenu /\ c.fichier \in sources
      /\ \A l \in lecture : l.travail # j
  <2>1. Lucide(w)
    BY DEF InvServie
  <2>2. j \in 1 .. n
    BY <1>1 DEF Inv, Lancables, Etape
  <2> QED
    BY <1>1, <2>1, <2>2 DEF Lucide
<1>4. /\ k # Repos /\ k.etape = "demarrer" /\ k.reste = morceaux
      /\ EnMain(k) = Range(morceaux)
  BY DEF NouvelleTache, Repos, EnMain
<1>5. travaux[j] \in Travail
  BY <1>1, <1>3, ElementOfSeq
<1>6. t.fichier = c.fichier /\ t.strategie = travaux[j].strategie
  BY <1>3, <1>5 DEF Travail
<1>7. Servie(disque[c.fichier], t, k, index)
  BY <1>3, <1>4, <1>6 DEF Servie
<1> HIDE DEF t, k
<1>8. /\ Len(travaux') = n /\ travaux'[j] = t /\ tache'[j] = k
      /\ \A i \in 1 .. n : i # j => travaux'[i] = travaux[i]
      /\ \A i \in Numeros : i # j => tache'[i] = tache[i]
      /\ \A i \in 1 .. n : travaux'[i].fichier = travaux[i].fichier
  BY <1>1, <1>2, <1>3, <1>6
<1>9. /\ Lucide(requete[p])'
      /\ \A f : Attend(w, f) => Attend(requete'[p], f) \/ f = c.fichier
  <2>1. CASE Len(w.suite) = 1
    <3>1. requete'[p] = Repos
      BY <1>2, <2>1
    <3>2. \A f : Attend(w, f) => f = c.fichier
      BY <1>1, <2>1 DEF Attend
    <3> QED
      BY <3>1, <3>2 DEF Lucide, Repos
  <2>2. CASE Len(w.suite) # 1
    <3> DEFINE r == [w EXCEPT !.etape = "sauver", !.suite = Tail(@)]
    <3>1. /\ requete'[p] = r /\ r.etape = "sauver" /\ r.suite = Tail(w.suite) /\ r # Repos
      BY <1>1, <1>2, <2>2 DEF Route, Repos
    <3> HIDE DEF r
    <3>2. /\ Len(Tail(w.suite)) = Len(w.suite) - 1
          /\ \A i \in 1 .. Len(w.suite) - 1 : Tail(w.suite)[i] = w.suite[i + 1]
      BY <1>1
    <3>3. ASSUME NEW f, Attend(w, f), f # c.fichier
          PROVE  Attend(r, f)
      <4>1. PICK i \in 1 .. Len(w.suite) : w.suite[i].fichier = f
        BY <3>3 DEF Attend
      <4>2. i # 1
        BY <1>1, <3>3, <4>1
      <4>3. i - 1 \in 1 .. Len(w.suite) - 1 /\ i - 1 + 1 = i
        BY <1>1, <4>1, <4>2
      <4>4. Tail(w.suite)[i - 1].fichier = f
        BY <3>2, <4>1, <4>3
      <4> QED
        BY <3>1, <3>2, <4>3, <4>4 DEF Attend
    <3> QED
      BY <3>1, <3>3 DEF Lucide
  <2> QED
    BY <2>1, <2>2
<1>10. \A q \in Requetes : q = p
  BY DEF UneRoute
<1>11. ASSUME NEW i \in 1 .. n, Repondant(i)'
       PROVE  /\ Servie(disque[travaux'[i].fichier], travaux'[i], tache'[i], index)
              /\ LuesPour(i, lecture, index)
  <2>1. CASE i = j
    <3>1. LuesPour(j, lecture, index)
      BY <1>3 DEF LuesPour
    <3> QED
      BY <1>6, <1>7, <1>8, <2>1, <3>1
  <2>2. CASE i # j
    <3>1. j \in i + 1 .. n
      BY <1>1, <1>3, <2>2
    <3>2. travaux[j].fichier # travaux[i].fichier
      BY <1>3, <1>8, <1>11, <3>1 DEF Repondant
    <3>3. ~Attendu(travaux[i].fichier)
      BY <1>3, <1>8, <1>9, <1>10, <1>11, <3>2 DEF Repondant, Attendu
    <3>4. \A m \in i + 1 .. n : travaux[m].fichier # travaux[i].fichier
      <4> SUFFICES ASSUME NEW m \in i + 1 .. n PROVE travaux[m].fichier # travaux[i].fichier
        OBVIOUS
      <4>1. m \in 1 .. n /\ m \in i + 1 .. Len(travaux')
        BY <1>1, <1>8
      <4> QED
        BY <1>8, <1>11, <4>1 DEF Repondant
    <3>5. Repondant(i)
      BY <3>3, <3>4 DEF Repondant
    <3>6. travaux'[i] = travaux[i] /\ tache'[i] = tache[i]
      BY <1>1, <1>8, <2>2
    <3> QED
      BY <3>5, <3>6 DEF InvServie
  <2> QED
    BY <2>1, <2>2
<1>12. \A i \in 1 .. n : travaux'[i].fichier \in sources
  BY <1>8 DEF InvServie
<1>13. \A i \in Numeros : tache'[i] # Repos /\ tache'[i].etape = "compter" => tache'[i].succes
  BY <1>4, <1>8 DEF InvServie
<1>14. \A q \in Requetes : Lucide(requete[q])'
  BY <1>9, <1>10
<1> HIDE DEF n, j
<1> QED
  BY <1>2, <1>8, <1>11, <1>12, <1>13, <1>14 DEF InvServie, n

\* What a task has sent is searchable, as long as its job answers for its file.
LEMMA TravaillerServie ==
    ASSUME Inv, InvServie, NEW j \in Numeros, Travailler(j),
           tache'[j].etape = "compter" => tache'[j].succes
    PROVE  InvServie'
<1> DEFINE v == travaux[j]
           w == tache[j]
           d == disque[v.fichier]
           compter(succes) == [w EXCEPT !.etape = "compter", !.succes = succes]
<1>1. w # Repos /\ UNCHANGED <<disque, sources, requete, reprise>>
  <2>1. CASE Demarrer(j) \/ Compter(j) \/ Finir(j) \/ Annoncer(j)
    BY <2>1 DEF Demarrer, Compter, Finir, Annoncer, TacheEn, Repos
  <2>2. CASE Envoyer(j) \/ EnvoyerDocument(j) \/ Suivre(j)
    <3>1. w.etape \in {"envoyer", "suivre"}
      BY <2>2 DEF Envoyer, EnvoyerDocument, Suivre, TacheEn
    <3>2. UNCHANGED <<disque, tables, requete, reprise>>
      BY <2>2 DEF Envoyer, EnvoyerDocument, Suivre
    <3> QED
      BY <3>1, <3>2 DEF Repos, tables
  <2> QED
    BY <2>1, <2>2 DEF Travailler
<1>2. /\ v \in Travail /\ w \in Tache /\ w.reste \in Seq(Morceaux)
      /\ Accordee(v, w) /\ j \in 1 .. Len(travaux)
      /\ \A p \in Requetes : Etape(p, "lancer") => requete[p].travail # j
      /\ travaux \in Seq(Travail) /\ tache \in [Numeros -> Tache \cup {Repos}]
      /\ travaux = [travaux EXCEPT ![j] = v]
  BY <1>1, TacheType DEF Inv, TypeOK, Suivi
<1>3. /\ Repondant(j) => Servie(d, v, w, index) /\ LuesPour(j, lecture, index)
      /\ w.etape = "compter" => w.succes
  BY <1>1, <1>2 DEF InvServie
<1>4. ASSUME NEW t, NEW k, t.fichier = v.fichier, t.strategie = v.strategie,
             travaux' = [travaux EXCEPT ![j] = t], tache' = [tache EXCEPT ![j] = k],
             k # Repos /\ k.etape = "compter" => k.succes,
             UNCHANGED <<index, lecture>>,
             Servie(d, v, w, index) => Servie(d, t, k, index)
      PROVE  InvServie'
  BY <1>1, <1>2, <1>3, <1>4, TacheServie
<1>5. ASSUME NEW k, Passer(j, k), k.reste = w.reste, k # Repos, k.etape \in {"compter", "suivre"},
             w.etape \in {"envoyer", "suivre"},
             UNCHANGED travaux, index \subseteq index',
             \A l \in lecture' : l \in lecture \/ (l.travail = j /\ l.etat = "en_cours"),
             Repondant(j) /\ k.etape = "compter" => Head(w.reste) \in index'
      PROVE  InvServie'
  <2>1. tache' = [tache EXCEPT ![j] = k] /\ tache'[j] = k
    BY <1>2, <1>5 DEF Passer
  <2>2. EnMain(w) = Range(w.reste) /\ EnMain(k) = Range(w.reste)
    BY <1>1, <1>5 DEF EnMain
  <2>3. Repondant(j) => Servie(d, v, k, index')
    BY <1>3, <1>5, <2>2 DEF Servie
  <2>4. travaux' = [travaux EXCEPT ![j] = v]
    BY <1>2, <1>5
  <2> QED
    BY <1>1, <1>2, <1>5, <2>1, <2>3, <2>4, TacheServie
<1>6. \A succes \in BOOLEAN : /\ compter(succes).etape = "compter"
                              /\ compter(succes).reste = w.reste
                              /\ compter(succes).succes = succes
                              /\ compter(succes) # Repos
  BY <1>2 DEF Tache, Repos
<1>7. CASE Demarrer(j)
  <2> DEFINE t == [v EXCEPT !.statut = "uploading"]
             etape == IF w.reste = <<>> THEN "finir" ELSE "envoyer"
             k == [w EXCEPT !.etape = etape]
  <2>1. travaux' = [travaux EXCEPT ![j] = t] /\ tache' = [tache EXCEPT ![j] = k]
        /\ w.etape = "demarrer" /\ UNCHANGED <<index, lecture>>
    BY <1>7 DEF Demarrer, Passer, TacheEn, openrag
  <2>2. t.strategie = v.strategie /\ t.fichier = v.fichier
    BY <1>2 DEF Travail
  <2>3. k.etape = etape /\ k.reste = w.reste /\ k # Repos
    BY <1>2 DEF Tache, Repos
  <2>4. /\ etape \in {"finir", "envoyer"}
        /\ etape = "finir" => Range(w.reste) = {}
    BY DEF Range
  <2> HIDE DEF t, k, etape
  <2>5. EnMain(w) = EnMain(k)
    BY <1>1, <2>1, <2>3, <2>4 DEF EnMain
  <2>6. Servie(d, v, w, index) => Servie(d, t, k, index)
    BY <2>2, <2>3, <2>4, <2>5 DEF Servie
  <2> QED
    BY <1>4, <2>1, <2>2, <2>3, <2>4, <2>6
<1>8. CASE Envoyer(j)
  <2>1. PICK recu, succes \in BOOLEAN :
          /\ succes => recu
          /\ index' = IF recu THEN index \cup {Head(w.reste)} ELSE index
          /\ Passer(j, compter(succes))
    BY <1>8 DEF Envoyer, compter
  <2> HIDE DEF compter
  <2>2. succes
    BY <1>2, <1>6, <2>1 DEF Passer
  <2>3. index \subseteq index' /\ Head(w.reste) \in index'
    BY <2>1, <2>2
  <2>4. UNCHANGED <<travaux, lecture>> /\ w.etape = "envoyer"
    BY <1>8 DEF Envoyer, tables, TacheEn
  <2> QED
    BY <1>5, <1>6, <2>1, <2>3, <2>4
<1>9. CASE EnvoyerDocument(j)
  <2> DEFINE c == Head(w.reste)
             suivre == [w EXCEPT !.etape = "suivre"]
             acceptee == (lecture \ Lectures(j, c)) \cup
                           {[travail |-> j, document |-> c, etat |-> "en_cours"]}
  <2>1. /\ UNCHANGED <<travaux, index>> /\ w.etape = "envoyer"
        /\ lecture' \in {lecture, acceptee}
        /\ \/ c \in index /\ Passer(j, compter(TRUE))
           \/ Passer(j, compter(FALSE))
           \/ Passer(j, suivre)
    BY <1>9 DEF EnvoyerDocument, tables, TacheEn, compter
  <2>2. suivre.etape = "suivre" /\ suivre.reste = w.reste /\ suivre # Repos
    BY <1>2 DEF Tache, Repos
  <2> HIDE DEF compter, suivre, c
  <2>3. \A l \in lecture' : l \in lecture \/ (l.travail = j /\ l.etat = "en_cours")
    BY <2>1
  <2>4. ~Passer(j, compter(FALSE))
    BY <1>2, <1>6 DEF Passer
  <2>5. CASE c \in index /\ Passer(j, compter(TRUE))
    BY <1>5, <1>6, <2>1, <2>3, <2>5 DEF c
  <2>6. CASE Passer(j, suivre)
    BY <1>5, <2>1, <2>2, <2>3, <2>6
  <2> QED
    BY <2>1, <2>4, <2>5, <2>6
<1>10. CASE Suivre(j)
  <2> DEFINE c == Head(w.reste)
  <2>1. PICK l \in Lectures(j, c) :
          /\ lecture' = IF l.etat = "en_cours" THEN lecture ELSE lecture \ {l}
          /\ Passer(j, compter(l.etat = "lu"))
    BY <1>10 DEF Suivre, compter
  <2>2. UNCHANGED <<travaux, index>> /\ w.etape = "suivre"
    BY <1>10 DEF Suivre, tables, TacheEn
  <2> DEFINE lu == l.etat = "lu"
  <2>3. lu \in BOOLEAN
    OBVIOUS
  <2> HIDE DEF compter
  <2>4. Passer(j, compter(lu))
    BY <2>1
  <2>5. lu
    <3> HIDE DEF lu
    <3>1. tache'[j] = compter(lu)
      BY <1>2, <2>4 DEF Passer
    <3> QED
      BY <1>6, <2>3, <3>1
  <2>6. Repondant(j) => c \in index'
    BY <1>3, <2>1, <2>2, <2>5 DEF LuesPour, Lectures
  <2>7. \A m \in lecture' : m \in lecture
    BY <2>1
  <2> HIDE DEF lu
  <2> QED
    BY <1>5, <1>6, <2>2, <2>3, <2>4, <2>5, <2>6, <2>7
<1>11. CASE Compter(j)
  <2> DEFINE echecs == IF w.succes THEN v.echecs ELSE v.echecs + 1
             envoyes == v.envoyes + 1
             etape == IF Len(w.reste) = 1 THEN "finir" ELSE "envoyer"
             reste == Tail(w.reste)
             t == [v EXCEPT !.envoyes = envoyes, !.echecs = echecs]
             k == [w EXCEPT !.reste = reste, !.etape = etape]
  <2>1. w.etape = "compter" /\ w.reste # <<>> /\ UNCHANGED <<index, lecture>>
    BY <1>2, <1>11 DEF Compter, TacheEn, Accordee, openrag
  <2>2. travaux' = [travaux EXCEPT ![j] = t]
    BY <1>2, <1>11 DEF Compter, Travail
  <2>3. tache' = [tache EXCEPT ![j] = k]
    BY <1>2, <1>11 DEF Compter, Passer, Tache
  <2>4. /\ etape \in {"finir", "envoyer"}
        /\ etape = "finir" => Range(reste) = {}
    <3>1. Len(reste) = Len(w.reste) - 1 /\ reste \in Seq(Morceaux)
      BY <1>2, <2>1
    <3>2. etape = "finir" => Len(reste) = 0
      BY <1>2, <3>1
    <3>3. etape \in {"finir", "envoyer"}
      OBVIOUS
    <3> HIDE DEF etape, reste
    <3>4. DOMAIN reste = 1 .. Len(reste)
      BY <3>1
    <3>5. etape = "finir" => DOMAIN reste = {}
      BY <3>2, <3>4
    <3> QED
      BY <3>3, <3>5 DEF Range
  <2>5. Range(w.reste) \subseteq {Head(w.reste)} \cup Range(reste)
    BY <1>2, <2>1, RangeTail
  <2> HIDE DEF echecs, envoyes, etape, reste
  <2>6. t.fichier = v.fichier /\ t.strategie = v.strategie
    BY <1>2 DEF Travail
  <2>7. k.etape = etape /\ k.reste = reste /\ k # Repos
    BY <1>2 DEF Tache, Repos
  <2> HIDE DEF t, k
  <2>8. EnMain(k) = Range(reste) /\ EnMain(w) = Range(w.reste)
    BY <1>1, <2>1, <2>4, <2>7 DEF EnMain
  <2>9. Servie(d, v, w, index) => Servie(d, t, k, index)
    BY <1>1, <2>1, <2>4, <2>5, <2>6, <2>7, <2>8 DEF Servie
  <2> QED
    BY <1>4, <2>1, <2>2, <2>3, <2>4, <2>6, <2>7, <2>9
<1>12. CASE Finir(j)
  <2> DEFINE statut == IF v.echecs = 0 THEN "done" ELSE "done_with_errors"
             t == [v EXCEPT !.statut = statut]
             k == [w EXCEPT !.etape = "annoncer"]
  <2>1. /\ w.etape = "finir" /\ UNCHANGED <<index, lecture>>
        /\ travaux' = [travaux EXCEPT ![j] = t] /\ tache' = [tache EXCEPT ![j] = k]
    BY <1>12 DEF Finir, TacheEn, Passer, openrag
  <2> HIDE DEF statut
  <2>2. t.fichier = v.fichier /\ t.strategie = v.strategie /\ k.etape = "annoncer"
    BY <1>2 DEF Travail, Tache
  <2> HIDE DEF t, k
  <2>3. EnMain(k) = {} /\ EnMain(w) = {}
    BY <2>1, <2>2 DEF EnMain
  <2>4. Servie(d, v, w, index) => Servie(d, t, k, index)
    BY <2>2, <2>3 DEF Servie
  <2> QED
    BY <1>4, <2>1, <2>2, <2>4
<1>13. CASE Annoncer(j)
  <2>1. /\ w.etape = "annoncer" /\ UNCHANGED <<index, lecture>>
        /\ tache' = [tache EXCEPT ![j] = Repos] /\ travaux' = [travaux EXCEPT ![j] = v]
    BY <1>2, <1>13 DEF Annoncer, TacheEn, Passer, openrag
  <2>2. EnMain(w) = {} /\ EnMain(Repos) = {}
    BY <2>1 DEF EnMain
  <2>3. Servie(d, v, w, index) => Servie(d, v, Repos, index)
    BY <2>2 DEF Servie
  <2> QED
    BY <1>4, <2>1, <2>3
<1> QED
  BY <1>7, <1>8, <1>9, <1>10, <1>11, <1>12, <1>13 DEF Travailler

\* OpenRAG ends a reading.
LEMMA LireServie ==
    ASSUME Inv, InvServie, NEW o \in lecture, Lire(o), \A l \in lecture' : l.etat # "echec"
    PROVE  InvServie'
<1> DEFINE lue == [o EXCEPT !.etat = "lu"]
<1>1. /\ o \in Lecture /\ lecture \subseteq Lecture
  BY DEF Inv, TypeOK
<1>2. /\ lecture' = (lecture \ {o}) \cup {lue} /\ index' = index \cup {o.document}
      /\ UNCHANGED <<disque, sources, travaux, tache, requete, reprise>>
  <2>1. PICK etat \in {"lu", "echec"} :
          /\ lecture' = (lecture \ {o}) \cup {[o EXCEPT !.etat = etat]}
          /\ index' = IF etat = "lu" THEN index \cup {o.document} ELSE index
    BY DEF Lire
  <2>2. etat = "lu"
    <3>1. [o EXCEPT !.etat = etat] \in lecture' /\ [o EXCEPT !.etat = etat].etat = etat
      BY <1>1, <2>1 DEF Lecture
    <3> QED
      BY <3>1
  <2> QED
    BY <2>1, <2>2 DEF Lire, tables, memoire
<1>3. lue.travail = o.travail /\ lue.document = o.document
  BY <1>1 DEF Lecture
<1> HIDE DEF lue
<1>4. ASSUME NEW j, LuesPour(j, lecture, index)
      PROVE  LuesPour(j, lecture', index')
  BY <1>2, <1>3, <1>4 DEF LuesPour
<1>5. \A j : Repondant(j)' => Repondant(j)
  BY <1>2 DEF Repondant, Attendu
<1>6. ASSUME NEW j \in 1 .. Len(travaux), Repondant(j)'
      PROVE  /\ Servie(disque[travaux[j].fichier], travaux[j], tache[j], index')
             /\ LuesPour(j, lecture', index')
  <2>1. /\ Servie(disque[travaux[j].fichier], travaux[j], tache[j], index)
        /\ LuesPour(j, lecture, index)
    BY <1>5, <1>6 DEF InvServie
  <2>2. Servie(disque[travaux[j].fichier], travaux[j], tache[j], index')
    BY <1>2, <2>1 DEF Servie
  <2> QED
    BY <1>4, <2>1, <2>2
<1>7. ASSUME NEW p \in Requetes PROVE Lucide(requete[p])'
  <2>1. Lucide(requete[p])
    BY DEF InvServie
  <2> QED
    BY <1>2, <1>3, <2>1 DEF Lucide
<1>8. \A l \in lecture' : l.travail <= Len(travaux)
  BY <1>2, <1>3 DEF InvServie
<1> QED
  BY <1>2, <1>6, <1>7, <1>8 DEF InvServie

LEMMA EtapeServie ==
    ASSUME Inv, InvServie, UneRoute, Refus \subseteq {"vider"}, Next, Reindexation
    PROVE  InvServie'
<1>1. ASSUME NEW p \in Requetes, Demander(p) \/ Continuer(p)
      PROVE  InvServie'
  BY <1>1, DemanderServie, AvancerServie, CreerServie, LancerServie DEF Continuer
<1>2. ASSUME NEW j \in Numeros, Travailler(j)
      PROVE  InvServie'
  BY <1>2, TravaillerServie DEF Reindexation
<1>3. ASSUME NEW j \in Numeros PROVE ~Reprendre(j)
  BY DEF InvServie, Reprendre
<1>4. ~Arreter
  BY DEF Arreter, Reindexation, Inv, TypeOK
<1>5. ASSUME NEW l \in lecture, Lire(l)
      PROVE  InvServie'
  BY <1>5, LireServie DEF Reindexation
<1>6. ASSUME NEW f \in Fichiers PROVE ~PerdreSource(f)
  <2>1. disque \in [Fichiers -> Contenus \cup {Rien}]
    BY DEF Inv, TypeOK
  <2> QED
    BY <2>1 DEF PerdreSource, Reindexation
<1>7. ASSUME NEW p \in Requetes, Abandonner(p)
      PROVE  InvServie'
  BY <1>7, AvancerServie
<1> QED
  BY <1>1, <1>2, <1>3, <1>4, <1>5, <1>6, <1>7 DEF Next, Dehors

\* reindex_collection: in the second scenario, with one route at a time and an
\* erasure that may be refused, each file is searchable whole when all is
\* quiet, as it was last deposited and as its last job cuts it, whatever
\* tasks were still sending when the partition was emptied.
THEOREM SourcesServiesSansPanne ==
    ASSUME UneRoute, Refus \subseteq {"vider"}
    PROVE  SpecScenarios => []SourceServieSansPanne
<1> DEFINE Suivie == Inv /\ (scenario = "reindexation" => InvServie)
<1>1. MCInit => Suivie
  <2> SUFFICES ASSUME MCInit PROVE Inv /\ InvServie
    OBVIOUS
  <2>1. Inv
    BY InitInv DEF MCInit
  <2>2. Len(travaux) = 0 /\ 1 .. Len(travaux) = {}
    BY DEF MCInit, Init
  <2>3. \A p \in Requetes : requete[p] = Repos
    BY DEF MCInit, Init
  <2>4. \A p \in Requetes : Lucide(requete[p])
    BY <2>3 DEF Lucide, Repos
  <2>5. InvServie
    BY <2>2, <2>4 DEF MCInit, Init, InvServie
  <2> QED
    BY <2>1, <2>5
<1>2. Suivie /\ [NextScenarios]_mcvars => Suivie'
  <2> SUFFICES ASSUME Suivie, [NextScenarios]_mcvars PROVE Suivie'
    OBVIOUS
  <2>1. [Next]_vars /\ UNCHANGED scenario
    BY DEF NextScenarios, mcvars
  <2>2. Inv'
    BY <2>1, EtapeGarde
  <2>3. ASSUME scenario = "reindexation", NextScenarios PROVE InvServie'
    BY <2>3, EtapeServie DEF NextScenarios
  <2>4. ASSUME scenario = "reindexation", UNCHANGED mcvars PROVE InvServie'
    <3>1. UNCHANGED <<disque, sources, travaux, tache, index, lecture, requete, reprise>>
      BY <2>4 DEF mcvars, vars
    <3> QED
      BY <2>4, <3>1 DEF InvServie, Lucide, Repondant, Attendu, LuesPour
  <2> QED
    BY <2>1, <2>2, <2>3, <2>4
<1>3. Suivie => SourceServieSansPanne
  <2> SUFFICES ASSUME InvServie, AuRepos, NEW j \in 1 .. Len(travaux),
                      \A k \in j + 1 .. Len(travaux) : travaux[k].fichier # travaux[j].fichier,
                      Inv
               PROVE  Range(Decoupe[<<disque[travaux[j].fichier], travaux[j].strategie>>]) \subseteq index
    BY DEF SourceServieSansPanne, SourceServie
  <2>1. Repondant(j)
    BY DEF Repondant, Attendu, Attend, AuRepos
  <2>2. j \in Numeros
    BY BornesAssumption DEF Inv, TypeOK, Numeros
  <2>3. EnMain(tache[j]) = {}
    BY <2>2 DEF AuRepos, EnMain
  <2> QED
    BY <2>1, <2>3 DEF InvServie, Servie
<1> QED
  BY <1>1, <1>2, <1>3, PTL DEF SpecScenarios
=============================================================================
