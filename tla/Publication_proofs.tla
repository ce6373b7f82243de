------------------------- MODULE Publication_proofs -------------------------
(***************************************************************************)
(* What the publication of a collection promises of the socle, of the      *)
(* mirror assistant and of the row, proved of any sequence of requests,    *)
(* controls, archivings, restarts and failures in which one route runs at  *)
(* a time (UneRoute): routes that overlap are kept to by nothing in the    *)
(* code.  Then the same for the run that checks the publication, the       *)
(* amorces and the assistants together.                                    *)
(*                                                                         *)
(* The argument is in what a route in flight may still rely on (Sure): the *)
(* step it has reached, what it knew of the collection, what it wrote      *)
(* of the row and what it is about to do of the mirror and of the fiche.   *)
(* What the rows say is then true of the services as long as none has      *)
(* failed, except where a publication or an archiving has not yet come to  *)
(* the step that makes it so (Accordes).                                   *)
(***************************************************************************)
EXTENDS MCAmorces, TLAPS

\* One route at a time.
UneRoute == \A p, q \in Requetes : p = q

\* A route goes through the steps of its function only.
Prevue(r) ==
    \/ r.geste = "publier" /\ r.etape \in {"lire", "ecrire", "miroir", "assurer", "voulue", "poser"}
    \/ r.geste = "depublier" /\ r.etape \in {"ecrire", "miroir", "assurer", "retirer"}
    \/ r.geste = "archiver" /\ r.etape \in {"lire", "ecrire", "retirer"}
    \/ r.geste = "desarchiver" /\ r.etape \in {"lire", "ecrire"}
    \/ r.geste = "purger" /\ r.etape \in {"effacer", "purger_miroir", "retirer"}
    \/ r.geste = "resynchroniser" /\ r.etape \in {"voulue", "existante", "poser"}
    \/ r.geste = "demarrer" /\ r.etape \in {"miroir", "assurer"}

\* What it knows of the collection is still so.
Fondee(r) ==
    /\ r.geste # "purger" => col.existe
    /\ r.geste = "purger" => ~Publiee
    /\ r.geste = "publier" /\ ~r.form.brouillon => ~col.archivee
    /\ r.geste = "publier" /\ r.etape # "lire" /\ ~r.form.brouillon /\ r.form.visibilite = "all"
          => col.verifiee
    /\ r.geste = "archiver" => col.archivee
    /\ r.geste = "desarchiver" => ~col.archivee
    /\ r.geste = "depublier" /\ r.etape # "ecrire" => ~Publiee

\* What it is about to write, or has written, of the row.
Ecrite(r) ==
    /\ r.etape = "ecrire" => r.lu = pub
    /\ r.geste = "publier" /\ r.etape = "ecrire" =>
          r.voulu = [state |-> IF r.form.brouillon THEN "draft" ELSE "published",
                     alias |-> r.form.alias, visibilite |-> r.form.visibilite]
    /\ r.geste = "publier" /\ r.etape \in {"miroir", "assurer", "voulue", "poser"} =>
          pub = [state |-> IF r.form.brouillon THEN "draft" ELSE "published",
                 alias |-> r.form.alias, visibilite |-> r.form.visibilite]
    /\ r.geste = "publier" /\ r.etape \in {"voulue", "poser"} => ~r.form.brouillon
    /\ r.geste # "publier" /\ r.etape = "ecrire" =>
          r.voulu.state # "published" \/ (r.geste = "desarchiver" /\ r.voulu = pub)

\* What it is about to do of the mirror assistant and of the fiche.
Juste(r) ==
    /\ r.etape = "assurer" =>
          IF Publiee THEN /\ r.suite = IF miroir = "absent" THEN "creer" ELSE "reveiller"
                          /\ miroir # "eveille"
          ELSE r.suite = "endormir" /\ miroir = "eveille"
    /\ r.etape = "poser" => r.portee = IF r.geste = "publier" THEN pub.visibilite ELSE socle

Sure(r) == Prevue(r) /\ Fondee(r) /\ Ecrite(r) /\ Juste(r)

Tenue == \A p \in Requetes : requete[p] # Repos => Sure(requete[p])

SansCollection == ~col.existe => pub = SansLigne /\ ~col.archivee

\* A publication has written the row and will look at the mirror, at the fiche.
MiroirSuit == \E p \in Requetes : requete[p].etape \in {"miroir", "assurer"}
                                  /\ requete[p].geste = "publier"
FicheSuit == \E p \in Requetes : requete[p].etape \in {"miroir", "assurer", "voulue", "poser"}
                                 /\ requete[p].geste = "publier"
LigneSuit == \E p \in Requetes : requete[p].etape \in {"lire", "ecrire"}
                                 /\ requete[p].geste = "archiver"

Accordes ==
    calme => /\ col.archivee /\ pub.state = "published" => LigneSuit
             /\ Publiee => miroir = "eveille" \/ MiroirSuit
             /\ Servie => socle = pub.visibilite \/ FicheSuit

Suivi == SansCollection /\ Tenue /\ Accordes

Inv == TypeOK /\ Suivi

-----------------------------------------------------------------------------
(* Types, however many routes are in flight.                               *)

LEMMA RouteEtape ==
    ASSUME TypeOK, NEW p \in Requetes, requete[p] # Repos
    PROVE  requete[p] \in Route /\ requete[p].etape \in Etapes
BY DEF TypeOK, Route

LEMMA ReposEtape == Repos.etape = "repos" /\ "repos" \notin Etapes
BY DEF Repos, Etapes

LEMMA DebutRoute ==
    ASSUME NEW geste \in Gestes, NEW etape \in Etapes
    PROVE  Debut(geste, etape) \in Route
BY DEF Debut, Route, Formulaire, Ligne, SansLigne, Visibilites, Etats, Suites

LEMMA LignesVides == Inexistante \in Collection /\ SansLigne \in Ligne
BY DEF Inexistante, Collection, SansLigne, Ligne, Etats, Visibilites

\* A route in flight goes on, or is over.
LEMMA SuiteRoute ==
    ASSUME NEW r \in Route
    PROVE  /\ ApresEcriture(r) \in Route \cup {Repos}
           /\ ApresMiroir(r) \in Route \cup {Repos}
<1>1. \A e \in Etapes : [r EXCEPT !.etape = e] \in Route
  BY DEF Route
<1> QED
  BY <1>1 DEF ApresEcriture, ApresMiroir, Etapes

\* An UPDATE leaves a row, and what was wanted when nobody wrote meanwhile.
LEMMA ColonnesLigne ==
    ASSUME pub \in Ligne, NEW lu \in Ligne, NEW voulu \in Ligne
    PROVE  Colonnes(lu, voulu) \in Ligne /\ (lu = pub => Colonnes(lu, voulu) = voulu)
<1> DEFINE l == Colonnes(lu, voulu)
<1>1. DOMAIN pub = {"state", "alias", "visibilite"}
  BY DEF Ligne
<1>2. l = [k \in {"state", "alias", "visibilite"} |->
              IF voulu[k] = lu[k] THEN pub[k] ELSE voulu[k]]
  BY <1>1 DEF Colonnes
<1> HIDE DEF l
<1>3. l = [state |-> l.state, alias |-> l.alias, visibilite |-> l.visibilite]
  BY <1>2
<1>4. l.state \in Etats /\ l.alias \in BOOLEAN /\ l.visibilite \in Visibilites
  BY <1>2 DEF Ligne
<1>5. l \in Ligne
  BY <1>3, <1>4 DEF Ligne
<1>6. ASSUME lu = pub PROVE l = voulu
  BY <1>2, <1>6 DEF Ligne
<1> QED
  BY <1>5, <1>6 DEF l

\* The routes in flight, after p has moved.
LEMMA AllerType ==
    ASSUME TypeOK, NEW p \in Requetes, NEW r \in Route \cup {Repos}, Aller(p, r)
    PROVE  /\ requete' \in [Requetes -> Route \cup {Repos}] /\ requete'[p] = r
           /\ \A q \in Requetes \ {p} : requete'[q] = requete[q]
BY DEF TypeOK, Aller

LEMMA TypePublier ==
    ASSUME TypeOK, NEW p \in Requetes,
           (\E f \in Formulaires : Publier(p, f)) \/ PublierLire(p) \/ EcrireLigne(p)
    PROVE  TypeOK'
<1>1. ASSUME NEW f \in Formulaires, Publier(p, f)
      PROVE  TypeOK'
  <2> DEFINE r == [Debut("publier", "lire") EXCEPT !.form = f]
  <2>1. r \in Route
    BY FormulairesAssumption, DebutRoute DEF Gestes, Etapes, Route
  <2>2. Aller(p, r) /\ col' = [col EXCEPT !.existe = TRUE] /\ UNCHANGED <<pub, miroir, socle>>
    BY <1>1 DEF Publier
  <2> HIDE DEF r
  <2> QED
    BY <2>1, <2>2, AllerType DEF TypeOK, Collection
<1>2. CASE PublierLire(p)
  <2>1. requete[p] \in Route
    BY <1>2, RouteEtape, ReposEtape DEF PublierLire, En
  <2> DEFINE f == requete[p].form
             voulu == [state |-> IF f.brouillon THEN "draft" ELSE "published",
                       alias |-> f.alias, visibilite |-> f.visibilite]
             r == [requete[p] EXCEPT !.etape = "ecrire", !.lu = pub, !.voulu = voulu]
  <2>2. voulu \in Ligne
    BY <2>1 DEF Route, Formulaire, Ligne, Etats
  <2>3. \/ Aller(p, Repos)
        \/ Aller(p, r)
    BY <1>2 DEF PublierLire
  <2> HIDE DEF voulu
  <2>4. r \in Route
    BY <2>1, <2>2 DEF Route, Etapes, TypeOK
  <2> HIDE DEF r
  <2>5. requete' \in [Requetes -> Route \cup {Repos}]
    BY <2>3, <2>4, AllerType
  <2> QED
    BY <1>2, <2>5 DEF PublierLire, TypeOK
<1>3. CASE EcrireLigne(p)
  <2>1. requete[p] \in Route
    BY <1>3, RouteEtape, ReposEtape DEF EcrireLigne
  <2>2. requete[p].lu \in Ligne /\ requete[p].voulu \in Ligne
    BY <2>1 DEF Route
  <2>3. pub' \in Ligne
    BY <1>3, <2>2, ColonnesLigne DEF EcrireLigne, TypeOK
  <2>4. requete' \in [Requetes -> Route \cup {Repos}]
    BY <1>3, <2>1, SuiteRoute, AllerType DEF EcrireLigne
  <2> QED
    BY <1>3, <2>3, <2>4 DEF EcrireLigne, TypeOK
<1> QED
  BY <1>1, <1>2, <1>3

LEMMA TypeRetrait ==
    ASSUME TypeOK, NEW p \in Requetes,
           \/ Depublier(p) \/ Archiver(p) \/ ArchiverLire(p)
           \/ Desarchiver(p) \/ DesarchiverLire(p)
    PROVE  TypeOK'
<1> DEFINE Ecrit(r, voulu) == [r EXCEPT !.etape = "ecrire", !.lu = pub, !.voulu = voulu]
<1>1. ASSUME NEW r \in Route, NEW voulu \in Ligne
      PROVE  Ecrit(r, voulu) \in Route
  BY DEF TypeOK, Route, Etapes
<1>2. /\ pub \in Ligne
      /\ \A e \in Etats : [pub EXCEPT !.state = e] \in Ligne
  BY DEF TypeOK, Ligne
<1>3. CASE Depublier(p)
  <2> DEFINE voulu == [pub EXCEPT !.state = "disabled"]
             d == Debut("depublier", "ecrire")
  <2>1. voulu \in Ligne /\ d \in Route
    BY <1>2, DebutRoute DEF Etats, Gestes, Etapes
  <2>2. Aller(p, [d EXCEPT !.lu = pub, !.voulu = voulu])
    BY <1>3 DEF Depublier
  <2> HIDE DEF voulu, d
  <2>3. [d EXCEPT !.lu = pub, !.voulu = voulu] \in Route
    BY <1>2, <2>1 DEF Route
  <2>4. requete' \in [Requetes -> Route \cup {Repos}]
    BY <2>2, <2>3, AllerType
  <2> QED
    BY <1>3, <2>4 DEF Depublier, TypeOK
<1>4. CASE Archiver(p) \/ Desarchiver(p)
  <2>1. requete' \in [Requetes -> Route \cup {Repos}]
    BY <1>4, DebutRoute, AllerType DEF Archiver, Desarchiver, Gestes, Etapes
  <2> QED
    BY <1>4, <2>1 DEF Archiver, Desarchiver, TypeOK, Collection
<1>5. CASE ArchiverLire(p) \/ DesarchiverLire(p)
  <2>1. requete[p] \in Route
    BY <1>5, RouteEtape, ReposEtape DEF ArchiverLire, DesarchiverLire, En
  <2>2. PICK voulu \in Ligne : Aller(p, Ecrit(requete[p], voulu))
    BY <1>2, <1>5 DEF ArchiverLire, DesarchiverLire, Etats
  <2> HIDE DEF Ecrit
  <2>3. requete' \in [Requetes -> Route \cup {Repos}]
    BY <1>1, <2>1, <2>2, AllerType
  <2> QED
    BY <1>5, <2>3 DEF ArchiverLire, DesarchiverLire, TypeOK
<1> QED
  BY <1>3, <1>4, <1>5

LEMMA TypeSuite ==
    ASSUME TypeOK, NEW p \in Requetes,
           \/ Purger(p) \/ Effacer(p) \/ PurgerMiroir(p) \/ MiroirLire(p) \/ MiroirEcrire(p)
           \/ Resynchroniser(p) \/ VoulueLire(p) \/ ExistanteLire(p) \/ Poser(p) \/ Retirer(p)
    PROVE  TypeOK'
<1>1. /\ \A r \in Route : \A e \in Etapes : [r EXCEPT !.etape = e] \in Route
      /\ \A r \in Route : \A e \in Etapes : \A v \in Visibilites :
            [r EXCEPT !.etape = e, !.portee = v] \in Route
      /\ \A r \in Route : \A s \in Suites : [r EXCEPT !.suite = s] \in Route
  BY DEF Route
<1>2. CASE Purger(p) \/ Resynchroniser(p)
  <2>1. requete' \in [Requetes -> Route \cup {Repos}]
    BY <1>2, DebutRoute, AllerType DEF Purger, Resynchroniser, Gestes, Etapes
  <2> QED
    BY <1>2, <2>1 DEF Purger, Resynchroniser, TypeOK
<1>3. CASE Effacer(p) \/ PurgerMiroir(p)
  <2>1. requete[p] \in Route
    BY <1>3, RouteEtape, ReposEtape DEF Effacer, PurgerMiroir
  <2>2. requete' \in [Requetes -> Route \cup {Repos}]
    BY <1>1, <1>3, <2>1, AllerType DEF Effacer, PurgerMiroir, Etapes
  <2> QED
    BY <1>3, <2>2, LignesVides DEF Effacer, PurgerMiroir, TypeOK
<1>4. CASE MiroirLire(p)
  <2>1. requete[p] \in Route
    BY <1>4, RouteEtape, ReposEtape DEF MiroirLire
  <2>2. PICK suite \in Suites :
          \/ Aller(p, ApresMiroir([requete[p] EXCEPT !.suite = suite]))
          \/ Aller(p, [[requete[p] EXCEPT !.suite = suite] EXCEPT !.etape = "assurer"])
    BY <1>4 DEF MiroirLire, Suites, TypeOK
  <2> DEFINE r == [requete[p] EXCEPT !.suite = suite]
  <2>3. r \in Route
    BY <1>1, <2>1
  <2>4. Aller(p, ApresMiroir(r)) \/ Aller(p, [r EXCEPT !.etape = "assurer"])
    BY <2>2
  <2> HIDE DEF r
  <2>5. requete' \in [Requetes -> Route \cup {Repos}]
    BY <1>1, <2>3, <2>4, SuiteRoute, AllerType DEF Etapes
  <2> QED
    BY <1>4, <2>5 DEF MiroirLire, TypeOK
<1>5. CASE MiroirEcrire(p)
  <2>1. requete[p] \in Route
    BY <1>5, RouteEtape, ReposEtape DEF MiroirEcrire
  <2>2. requete' \in [Requetes -> Route \cup {Repos}]
    BY <1>5, <2>1, SuiteRoute, AllerType DEF MiroirEcrire
  <2> QED
    BY <1>5, <2>2 DEF MiroirEcrire, TypeOK
<1>6. CASE VoulueLire(p) \/ ExistanteLire(p)
  <2>1. requete[p] \in Route
    BY <1>6, RouteEtape, ReposEtape DEF VoulueLire, ExistanteLire
  <2>2. \/ Aller(p, Repos)
        \/ \E e \in Etapes : \E v \in Visibilites :
              Aller(p, [requete[p] EXCEPT !.etape = e, !.portee = v])
    BY <1>6 DEF VoulueLire, ExistanteLire, Etapes, TypeOK, Ligne
  <2>3. requete' \in [Requetes -> Route \cup {Repos}]
    BY <1>1, <2>1, <2>2, AllerType
  <2> QED
    BY <1>6, <2>3 DEF VoulueLire, ExistanteLire, TypeOK
<1>7. CASE Poser(p) \/ Retirer(p)
  <2>1. requete[p] \in Route
    BY <1>7, RouteEtape, ReposEtape DEF Poser, Retirer
  <2>2. requete' \in [Requetes -> Route \cup {Repos}]
    BY <1>7, AllerType DEF Poser, Retirer
  <2> QED
    BY <1>7, <2>1, <2>2 DEF Poser, Retirer, TypeOK, Route
<1> QED
  BY <1>2, <1>3, <1>4, <1>5, <1>6, <1>7

LEMMA TypePanne ==
    ASSUME TypeOK, CreerCollection \/ ChangerEtat \/ ReveillerMiroir \/ ReglerAilleurs \/ Panne
    PROVE  TypeOK'
<1>1. CASE CreerCollection \/ ChangerEtat \/ ReveillerMiroir \/ ReglerAilleurs
  BY <1>1 DEF CreerCollection, ChangerEtat, ReveillerMiroir, ReglerAilleurs, TypeOK,
              Collection, Inexistante
<1>2. ASSUME NEW p \in Requetes, MiroirEchoue(p) \/ Abandonner(p)
      PROVE  TypeOK'
  <2>1. requete[p] \in Route
    BY <1>2, RouteEtape, ReposEtape DEF MiroirEchoue, Abandonner
  <2>2. requete' \in [Requetes -> Route \cup {Repos}]
    BY <1>2, <2>1, SuiteRoute, AllerType DEF MiroirEchoue, Abandonner
  <2> QED
    BY <1>2, <2>2 DEF MiroirEchoue, Abandonner, TypeOK
<1>3. ASSUME NEW p \in Requetes, Redemarrer(p)
      PROVE  TypeOK'
  <2>1. Debut("demarrer", "miroir") \in Route
    BY DebutRoute DEF Gestes, Etapes
  <2>2. requete' \in [Requetes -> Route \cup {Repos}]
    BY <1>3, <2>1 DEF Redemarrer
  <2> QED
    BY <1>3, <2>2 DEF Redemarrer, TypeOK
<1> QED
  BY <1>1, <1>2, <1>3 DEF Panne

LEMMA TypeEtape == ASSUME TypeOK, [Next]_vars PROVE TypeOK'
<1>1. CASE Next
  BY <1>1, TypePublier, TypeRetrait, TypeSuite, TypePanne
     DEF Next, Marche, Publication, Retrait, Purge, Suite, Assistant
<1>2. CASE UNCHANGED vars
  BY <1>2 DEF vars, TypeOK
<1> QED
  BY <1>1, <1>2

LEMMA TypeInit == Init => TypeOK
BY LignesVides DEF Init, TypeOK

-----------------------------------------------------------------------------
(* One route at a time: what it read is still so when it writes.           *)

\* A route in flight is at a step of its function, and knows what it does.
LEMMA EnCours ==
    ASSUME Inv, NEW p \in Requetes, requete[p] # Repos
    PROVE  /\ requete[p] \in Route /\ Prevue(requete[p]) /\ Fondee(requete[p])
           /\ Ecrite(requete[p]) /\ Juste(requete[p])
BY RouteEtape DEF Inv, Suivi, Tenue, Sure

\* A route that has moved is the only one.
LEMMA SeuleRoute ==
    ASSUME UneRoute, TypeOK, NEW p \in Requetes, NEW r \in Route \cup {Repos}, Aller(p, r)
    PROVE  \A q \in Requetes : q = p /\ requete'[q] = r
BY AllerType DEF UneRoute

\* Route r, after q, still does what is waited for: it writes the archiving,
\* has the mirror follow, has the fiche follow.
Reprend(q, r) ==
    /\ q.geste = "archiver" /\ q.etape \in {"lire", "ecrire"}
          => r.geste = "archiver" /\ r.etape \in {"lire", "ecrire"}
    /\ q.geste = "publier" /\ q.etape \in {"miroir", "assurer"} /\ Publiee
          => \/ r.geste = "publier" /\ r.etape \in {"miroir", "assurer"}
             \/ miroir = "eveille"
    /\ q.geste = "publier" /\ q.etape \in {"miroir", "assurer", "voulue", "poser"} /\ Servie
          => r.geste = "publier" /\ r.etape \in {"miroir", "assurer", "voulue", "poser"}

\* A step that changes nothing but the route.
LEMMA SansEcriture ==
    ASSUME UneRoute, Inv, NEW p \in Requetes, NEW r \in Route \cup {Repos}, Aller(p, r),
           UNCHANGED <<col, pub, miroir, socle>>, calme' => calme,
           r # Repos => Sure(r), calme' => Reprend(requete[p], r)
    PROVE  Suivi'
<1>1. \A q \in Requetes : q = p /\ requete'[q] = r
  BY SeuleRoute DEF Inv
<1>2. UNCHANGED <<Publiee, Servie>>
  BY DEF Publiee, Servie
<1>3. SansCollection'
  BY DEF Inv, Suivi, SansCollection
<1>4. r # Repos => Sure(r)'
  BY <1>2 DEF Sure, Prevue, Fondee, Ecrite, Juste
<1>5. Tenue'
  BY <1>1, <1>4 DEF Tenue
<1>6. Accordes'
  BY <1>1, <1>2 DEF Reprend, Inv, Suivi, Accordes, LigneSuit, MiroirSuit, FicheSuit
<1> QED
  BY <1>3, <1>5, <1>6 DEF Suivi

\* A step between two routes.
LEMMA EntreRoutes ==
    ASSUME Inv, AuRepos, UNCHANGED requete, SansCollection',
           calme' => /\ ~(col.archivee /\ pub.state = "published")'
                     /\ Publiee' => miroir' = "eveille"
                     /\ Servie' => socle' = pub'.visibilite
    PROVE  Suivi'
BY DEF AuRepos, Suivi, Tenue, Accordes

\* What a route knows does not depend on its step alone.
LEMMA SuiteTenue ==
    ASSUME Inv, NEW r \in Route, Prevue(r), Fondee(r), Ecrite(r), r.etape \in {"miroir", "assurer"}
    PROVE  \/ /\ ApresMiroir(r) = Repos
              /\ r.geste = "publier" => ~Servie
           \/ /\ ApresMiroir(r) \in Route /\ ApresMiroir(r) # Repos /\ Prevue(ApresMiroir(r))
              /\ Fondee(ApresMiroir(r)) /\ Ecrite(ApresMiroir(r))
              /\ ApresMiroir(r).geste = r.geste
              /\ ApresMiroir(r).etape = IF r.geste = "publier" THEN "voulue" ELSE "retirer"
<1>1. CASE r.geste = "depublier" \/ (r.geste = "publier" /\ r.form.alias /\ ~r.form.brouillon)
  <2> DEFINE e == IF r.geste = "publier" THEN "voulue" ELSE "retirer"
             s == [r EXCEPT !.etape = e]
  <2>1. ApresMiroir(r) = s
    BY <1>1 DEF ApresMiroir
  <2>2. e \in {"voulue", "retirer"} /\ (e = "voulue" <=> r.geste = "publier")
    OBVIOUS
  <2> HIDE DEF e
  <2>3. /\ s \in Route /\ s.etape = e /\ s.geste = r.geste /\ s.form = r.form /\ s.lu = r.lu
        /\ s.voulu = r.voulu
    BY <2>2 DEF Route, Etapes
  <2>4. s # Repos
    BY <2>2, <2>3, ReposEtape DEF Etapes
  <2> HIDE DEF s
  <2>5. Prevue(s) /\ Fondee(s) /\ Ecrite(s)
    BY <1>1, <2>2, <2>3 DEF Prevue, Fondee, Ecrite
  <2> QED
    BY <2>1, <2>3, <2>4, <2>5 DEF e
<1>2. CASE r.geste = "demarrer"
  BY <1>2 DEF ApresMiroir
<1>3. CASE r.geste = "publier" /\ ~(r.form.alias /\ ~r.form.brouillon)
  <2>1. ApresMiroir(r) = Repos
    BY <1>3 DEF ApresMiroir
  <2>2. ~Servie
    BY <1>3 DEF Ecrite, Servie, Publiee, Route, Formulaire
  <2> QED
    BY <2>1, <2>2
<1> QED
  BY <1>1, <1>2, <1>3 DEF Prevue

\* The routes that begin and change nothing.
LEMMA DebutSuivi ==
    ASSUME UneRoute, Inv, NEW p \in Requetes, calme' => calme,
           Depublier(p) \/ Purger(p) \/ Resynchroniser(p)
    PROVE  Suivi'
<1>1. requete[p] = Repos /\ UNCHANGED <<col, pub, miroir, socle>>
  BY DEF Depublier, Purger, Resynchroniser
<1>2. requete[p].etape = "repos" /\ pub \in Ligne
  BY <1>1, ReposEtape DEF Inv, TypeOK
<1>3. ASSUME NEW r \in Route, Aller(p, r), Sure(r)
      PROVE  Suivi'
  <2>1. Reprend(requete[p], r)
    BY <1>2 DEF Reprend
  <2> QED
    BY <1>1, <1>3, <2>1, SansEcriture
<1>4. CASE Depublier(p)
  <2> DEFINE voulu == [pub EXCEPT !.state = "disabled"]
             d == Debut("depublier", "ecrire")
             r == [d EXCEPT !.lu = pub, !.voulu = voulu]
  <2>1. voulu \in Ligne /\ voulu.state = "disabled" /\ d \in Route /\ d.geste = "depublier"
        /\ d.etape = "ecrire"
    BY <1>2, DebutRoute DEF Ligne, Etats, Gestes, Etapes, Debut
  <2>2. Aller(p, r) /\ pub.state # "aucune"
    BY <1>4 DEF Depublier
  <2> HIDE DEF voulu, d
  <2>3. /\ r \in Route /\ r.geste = "depublier" /\ r.etape = "ecrire" /\ r.lu = pub
        /\ r.voulu = voulu
    BY <1>2, <2>1 DEF Route
  <2>4. PICK x \in Route : /\ Aller(p, x) /\ x.geste = "depublier" /\ x.etape = "ecrire"
                           /\ x.lu = pub /\ x.voulu = voulu
    BY <2>2, <2>3
  <2> HIDE DEF r
  <2>5. col.existe
    BY <2>2 DEF Inv, Suivi, SansCollection, SansLigne
  <2>6. Sure(x)
    BY <2>1, <2>4, <2>5 DEF Sure, Prevue, Fondee, Ecrite, Juste
  <2> QED
    BY <1>3, <2>4, <2>6
<1>5. CASE Purger(p)
  <2>1. PICK r \in Route : Aller(p, r) /\ r.geste = "purger" /\ r.etape = "effacer"
    BY <1>5, DebutRoute DEF Purger, Gestes, Etapes, Debut
  <2>2. Sure(r)
    BY <1>5, <2>1 DEF Purger, Sure, Prevue, Fondee, Ecrite, Juste, Publiee
  <2> QED
    BY <1>3, <2>1, <2>2
<1>6. CASE Resynchroniser(p)
  <2>1. PICK r \in Route : Aller(p, r) /\ r.geste = "resynchroniser" /\ r.etape = "voulue"
    BY <1>6, DebutRoute DEF Resynchroniser, Gestes, Etapes, Debut
  <2>2. Sure(r)
    BY <1>6, <2>1 DEF Resynchroniser, Sure, Prevue, Fondee, Ecrite, Juste, Publiee, Servie
  <2> QED
    BY <1>3, <2>1, <2>2
<1> QED
  BY <1>4, <1>5, <1>6

\* The routes that begin and change the collection.
LEMMA DebutCollection ==
    ASSUME UneRoute, Inv, NEW p \in Requetes, calme' => calme,
           (\E f \in Formulaires : Publier(p, f)) \/ Archiver(p) \/ Desarchiver(p)
    PROVE  Suivi'
<1>1. requete[p] = Repos /\ UNCHANGED <<pub, miroir, socle>> /\ requete[p].etape = "repos"
  BY ReposEtape DEF Publier, Archiver, Desarchiver
<1>2. \A q \in Requetes : q = p
  BY DEF UneRoute
<1>3. col \in Collection
  BY DEF Inv, TypeOK
<1>4. /\ calme => /\ ~(col.archivee /\ pub.state = "published")
                  /\ Publiee => miroir = "eveille"
                  /\ Servie => socle = pub.visibilite
      /\ SansCollection
  BY <1>1, <1>2 DEF Inv, Suivi, Accordes, LigneSuit, MiroirSuit, FicheSuit
<1>5. ASSUME NEW r \in Route, Aller(p, r), Sure(r)', SansCollection', Accordes'
      PROVE  Suivi'
  <2>1. \A q \in Requetes : q = p /\ requete'[q] = r
    BY <1>5, SeuleRoute DEF Inv
  <2> QED
    BY <1>5, <2>1 DEF Suivi, Tenue
<1>6. ASSUME NEW f \in Formulaires, Publier(p, f)
      PROVE  Suivi'
  <2> DEFINE d == Debut("publier", "lire")
             r == [d EXCEPT !.form = f]
  <2>1. d \in Route /\ d.geste = "publier" /\ d.etape = "lire" /\ f \in Formulaire
    BY FormulairesAssumption, DebutRoute DEF Gestes, Etapes, Debut
  <2>2. Aller(p, r)
    BY <1>6 DEF Publier
  <2> HIDE DEF d
  <2>3. r \in Route /\ r.geste = "publier" /\ r.etape = "lire" /\ r.form = f
    BY <2>1 DEF Route
  <2>4. PICK x \in Route : Aller(p, x) /\ x.geste = "publier" /\ x.etape = "lire" /\ x.form = f
    BY <2>2, <2>3
  <2> HIDE DEF r
  <2>5. /\ col'.existe /\ col'.archivee = col.archivee /\ col'.verifiee = col.verifiee
        /\ f.brouillon \/ ~col.archivee
    BY <1>3, <1>6 DEF Publier, Collection
  <2>6. Sure(x)'
    BY <2>4, <2>5 DEF Sure, Prevue, Fondee, Ecrite, Juste
  <2>7. SansCollection'
    BY <2>5 DEF SansCollection
  <2>8. (Publiee' => Publiee) /\ (Servie' => Servie)
    BY <1>1, <1>4, <2>5 DEF Publiee, Servie, SansCollection, SansLigne
  <2>9. Accordes'
    BY <1>1, <1>4, <2>5, <2>8 DEF Accordes
  <2> QED
    BY <1>5, <2>4, <2>6, <2>7, <2>9
<1>7. CASE Archiver(p)
  <2>1. PICK r \in Route : Aller(p, r) /\ r.geste = "archiver" /\ r.etape = "lire"
    BY <1>7, DebutRoute DEF Archiver, Gestes, Etapes, Debut
  <2>2. col'.existe /\ col'.archivee
    BY <1>3, <1>7 DEF Archiver, Collection
  <2>3. Sure(r)'
    BY <2>1, <2>2 DEF Sure, Prevue, Fondee, Ecrite, Juste
  <2>4. requete'[p] = r
    BY <2>1, SeuleRoute DEF Inv
  <2>5. Accordes' /\ SansCollection'
    BY <2>1, <2>2, <2>4 DEF Accordes, LigneSuit, Publiee, Servie, SansCollection
  <2> QED
    BY <1>5, <2>1, <2>3, <2>5
<1>8. CASE Desarchiver(p)
  <2>1. PICK r \in Route : Aller(p, r) /\ r.geste = "desarchiver" /\ r.etape = "lire"
    BY <1>8, DebutRoute DEF Desarchiver, Gestes, Etapes, Debut
  <2>2. col'.existe /\ ~col'.archivee /\ col.existe
    BY <1>3, <1>8 DEF Desarchiver, Collection
  <2>3. Sure(r)'
    BY <2>1, <2>2 DEF Sure, Prevue, Fondee, Ecrite, Juste
  <2>4. calme => (Publiee' => Publiee) /\ (Servie' => Servie)
    BY <1>1, <1>4, <2>2 DEF Publiee, Servie
  <2>5. Accordes' /\ SansCollection'
    BY <1>1, <1>4, <2>2, <2>4 DEF Accordes, SansCollection
  <2> QED
    BY <1>5, <2>1, <2>3, <2>5
<1> QED
  BY <1>6, <1>7, <1>8

\* The reads of a route.
LEMMA LectureSuivi ==
    ASSUME UneRoute, Inv, NEW p \in Requetes, calme' => calme,
           \/ PublierLire(p) \/ ArchiverLire(p) \/ DesarchiverLire(p)
           \/ VoulueLire(p) \/ ExistanteLire(p)
    PROVE  Suivi'
<1>1. requete[p] # Repos /\ UNCHANGED <<col, pub, miroir, socle>>
  BY ReposEtape DEF PublierLire, ArchiverLire, DesarchiverLire, VoulueLire, ExistanteLire, En, Etapes
<1>2. /\ requete[p] \in Route /\ Prevue(requete[p]) /\ Fondee(requete[p])
      /\ Ecrite(requete[p]) /\ Juste(requete[p]) /\ pub \in Ligne
      /\ socle \in Visibilites \cup {Absente}
  BY <1>1, EnCours DEF Inv, TypeOK
<1>3. ASSUME Aller(p, Repos), requete[p].etape \in {"lire", "existante"} \/ ~Servie,
             requete[p].geste = "archiver" => requete[p].etape \notin {"lire", "ecrire"},
             requete[p].etape \notin {"miroir", "assurer"}
      PROVE  Suivi'
  <2> DEFINE r == Repos
  <2>1. r \in Route \cup {Repos} /\ r = Repos /\ Aller(p, r)
    BY <1>3
  <2>2. Reprend(requete[p], r)
    BY <1>3 DEF Reprend
  <2> HIDE DEF r
  <2> QED
    BY <1>1, <2>1, <2>2, SansEcriture
<1>4. CASE PublierLire(p)
  <2> DEFINE f == requete[p].form
             voulu == [state |-> IF f.brouillon THEN "draft" ELSE "published",
                       alias |-> f.alias, visibilite |-> f.visibilite]
             r == [requete[p] EXCEPT !.etape = "ecrire", !.lu = pub, !.voulu = voulu]
  <2>1. requete[p].geste = "publier" /\ requete[p].etape = "lire"
    BY <1>4 DEF PublierLire, En
  <2>2. \/ Aller(p, Repos)
        \/ /\ Aller(p, r)
           /\ ~f.brouillon /\ f.visibilite = "all" => col.verifiee
    BY <1>4 DEF PublierLire
  <2>3. voulu \in Ligne /\ f \in Formulaire
    BY <1>2 DEF Route, Formulaire, Ligne, Etats
  <2>4. voulu = [state |-> IF f.brouillon THEN "draft" ELSE "published",
                 alias |-> f.alias, visibilite |-> f.visibilite]
    OBVIOUS
  <2> HIDE DEF voulu
  <2>5. /\ r \in Route /\ r.geste = "publier" /\ r.etape = "ecrire" /\ r.form = f
        /\ r.lu = pub /\ r.voulu = voulu
    BY <1>2, <2>1, <2>3 DEF Route, Etapes
  <2> HIDE DEF r
  <2>6. CASE Aller(p, Repos)
    BY <1>3, <2>1, <2>6
  <2>7. CASE /\ Aller(p, r)
             /\ ~f.brouillon /\ f.visibilite = "all" => col.verifiee
    <3>1. PICK x \in Route : /\ Aller(p, x) /\ x.geste = "publier" /\ x.etape = "ecrire"
                             /\ x.form = f /\ x.lu = pub /\ x.voulu = voulu
      BY <2>5, <2>7
    <3>2. Sure(x)
      BY <1>2, <2>1, <2>4, <2>7, <3>1 DEF Sure, Prevue, Fondee, Ecrite, Juste
    <3>5. Reprend(requete[p], x)
      BY <1>1, <2>1, <3>1 DEF Reprend
    <3> QED
      BY <1>1, <2>1, <3>1, <3>2, <3>5, SansEcriture
  <2> QED
    BY <2>2, <2>6, <2>7
<1>5. CASE ArchiverLire(p) \/ DesarchiverLire(p)
  <2> DEFINE Ecrit(v) == [requete[p] EXCEPT !.etape = "ecrire", !.lu = pub, !.voulu = v]
  <2>1. requete[p].geste \in {"archiver", "desarchiver"} /\ requete[p].etape = "lire"
    BY <1>5 DEF ArchiverLire, DesarchiverLire, En
  <2>2. /\ \A e \in Etats : [pub EXCEPT !.state = e] \in Ligne
        /\ [pub EXCEPT !.state = "archived"].state = "archived"
        /\ [pub EXCEPT !.state = "disabled"].state = "disabled"
    BY <1>2 DEF Ligne
  <2>3. PICK v \in Ligne :
          /\ Aller(p, Ecrit(v))
          /\ v.state # "published" \/ (requete[p].geste = "desarchiver" /\ v = pub)
    <3>1. CASE ArchiverLire(p)
      <4> DEFINE w == IF pub = SansLigne THEN pub ELSE [pub EXCEPT !.state = "archived"]
      <4>1. Aller(p, Ecrit(w))
        BY <3>1 DEF ArchiverLire
      <4>2. w \in Ligne /\ w.state # "published"
        BY <1>2, <2>2 DEF SansLigne, Etats
      <4> HIDE DEF w, Ecrit
      <4> QED
        BY <4>1, <4>2
    <3>2. CASE DesarchiverLire(p)
      <4> DEFINE w == IF pub.state = "archived" THEN [pub EXCEPT !.state = "disabled"] ELSE pub
      <4>1. Aller(p, Ecrit(w)) /\ requete[p].geste = "desarchiver"
        BY <3>2 DEF DesarchiverLire, En
      <4>2. w \in Ligne /\ (w.state # "published" \/ w = pub)
        BY <1>2, <2>2 DEF Etats
      <4> HIDE DEF w, Ecrit
      <4> QED
        BY <4>1, <4>2
    <3> QED
      BY <1>5, <3>1, <3>2
  <2> DEFINE r == Ecrit(v)
  <2>4. /\ r \in Route /\ r.geste = requete[p].geste /\ r.etape = "ecrire"
        /\ r.lu = pub /\ r.voulu = v /\ r.form = requete[p].form
    BY <1>2 DEF Route, Etapes
  <2>5. PICK x \in Route : /\ Aller(p, x) /\ x.geste = requete[p].geste /\ x.etape = "ecrire"
                           /\ x.lu = pub /\ x.voulu = v
    BY <2>3, <2>4
  <2> HIDE DEF r, Ecrit
  <2>6. Sure(x)
    BY <1>2, <2>1, <2>3, <2>5 DEF Sure, Prevue, Fondee, Ecrite, Juste
  <2>8. Reprend(requete[p], x)
    BY <1>1, <2>1, <2>5 DEF Reprend
  <2> QED
    BY <1>1, <2>1, <2>5, <2>6, <2>8, SansEcriture
<1>6. CASE VoulueLire(p)
  <2>1. requete[p].etape = "voulue" /\ requete[p].geste \in {"publier", "resynchroniser"}
    BY <1>2, <1>6 DEF VoulueLire, Prevue
  <2> DEFINE suite == IF requete[p].geste = "resynchroniser" THEN "existante" ELSE "poser"
             r == [requete[p] EXCEPT !.etape = suite, !.portee = pub.visibilite]
  <2>2. IF Servie THEN Aller(p, r) ELSE Aller(p, Repos)
    BY <1>6 DEF VoulueLire
  <2>3. suite \in Etapes /\ pub.visibilite \in Visibilites
    BY <1>2 DEF Etapes, Ligne
  <2>4. suite = IF requete[p].geste = "resynchroniser" THEN "existante" ELSE "poser"
    OBVIOUS
  <2> HIDE DEF suite
  <2>5. /\ r \in Route /\ r.geste = requete[p].geste /\ r.etape = suite
        /\ r.portee = pub.visibilite /\ r.form = requete[p].form
        /\ r.lu = requete[p].lu /\ r.voulu = requete[p].voulu
    BY <1>2, <2>3 DEF Route
  <2> HIDE DEF r
  <2>6. CASE Servie
    <3>1. PICK x \in Route : /\ Aller(p, x) /\ x.geste = requete[p].geste /\ x.etape = suite
                             /\ x.portee = pub.visibilite /\ x.form = requete[p].form
      BY <2>2, <2>5, <2>6
    <3>2. Sure(x)
      BY <1>2, <2>1, <2>4, <3>1 DEF Sure, Prevue, Fondee, Ecrite, Juste
    <3>5. Reprend(requete[p], x)
      BY <1>1, <2>1, <2>4, <3>1 DEF Reprend
    <3> QED
      BY <1>1, <2>1, <2>4, <3>1, <3>2, <3>5, SansEcriture
  <2> QED
    BY <1>3, <2>1, <2>2, <2>6
<1>7. CASE ExistanteLire(p)
  <2>1. requete[p].etape = "existante" /\ requete[p].geste = "resynchroniser"
    BY <1>2, <1>7 DEF ExistanteLire, Prevue
  <2> DEFINE r == [requete[p] EXCEPT !.etape = "poser", !.portee = socle]
  <2>2. IF socle = Absente THEN Aller(p, Repos) ELSE Aller(p, r)
    BY <1>7 DEF ExistanteLire
  <2>3. CASE socle # Absente
    <3>1. /\ r \in Route /\ r.geste = "resynchroniser" /\ r.etape = "poser"
          /\ r.portee = socle
      BY <1>2, <2>1, <2>3 DEF Route, Etapes
    <3>2. PICK x \in Route : /\ Aller(p, x) /\ x.geste = "resynchroniser" /\ x.etape = "poser"
                             /\ x.portee = socle
      BY <2>2, <2>3, <3>1
    <3> HIDE DEF r
    <3>3. Sure(x)
      BY <1>2, <2>1, <3>2 DEF Sure, Prevue, Fondee, Ecrite, Juste
    <3>5. Reprend(requete[p], x)
      BY <1>1, <2>1, <3>2 DEF Reprend
    <3> QED
      BY <1>1, <2>1, <3>2, <3>3, <3>5, SansEcriture
  <2> QED
    BY <1>3, <2>1, <2>2, <2>3
<1> QED
  BY <1>4, <1>5, <1>6, <1>7

\* The row is written: what was read is still there, so what is wanted is.
LEMMA EcritureSuivie ==
    ASSUME UneRoute, Inv, NEW p \in Requetes, calme' => calme, EcrireLigne(p)
    PROVE  Suivi'
<1>1. /\ requete[p].etape = "ecrire" /\ requete[p] # Repos /\ UNCHANGED <<col, miroir, socle>>
      /\ Aller(p, ApresEcriture(requete[p]))
      /\ pub' = Colonnes(requete[p].lu, requete[p].voulu)
  BY ReposEtape DEF EcrireLigne, Etapes
<1>2. /\ requete[p] \in Route /\ Prevue(requete[p]) /\ Fondee(requete[p])
      /\ Ecrite(requete[p]) /\ pub \in Ligne
  BY <1>1, EnCours DEF Inv, TypeOK
<1>3. pub' = requete[p].voulu /\ pub' \in Ligne
  BY <1>1, <1>2, ColonnesLigne DEF Ecrite, Route
<1>4. \A q \in Requetes : q = p
  BY DEF UneRoute
<1>5. SansCollection'
  BY <1>1, <1>2 DEF SansCollection, Fondee, Prevue
<1>6. ASSUME NEW r \in Route \cup {Repos}, Aller(p, r), r # Repos => Sure(r)', Accordes'
      PROVE  Suivi'
  <2>1. \A q \in Requetes : q = p /\ requete'[q] = r
    BY <1>6, SeuleRoute DEF Inv
  <2> QED
    BY <1>5, <1>6, <2>1 DEF Suivi, Tenue
<1>7. CASE requete[p].geste \in {"publier", "depublier"}
  <2> DEFINE r == [requete[p] EXCEPT !.etape = "miroir"]
  <2>1. Aller(p, r)
    BY <1>1, <1>7 DEF ApresEcriture
  <2>2. /\ r \in Route /\ r.etape = "miroir" /\ r.geste = requete[p].geste
        /\ r.form = requete[p].form
    BY <1>2 DEF Route, Etapes
  <2>3. PICK x \in Route : /\ Aller(p, x) /\ x.etape = "miroir" /\ x.geste = requete[p].geste
                           /\ x.form = requete[p].form
    BY <2>1, <2>2
  <2> HIDE DEF r
  <2>4. Sure(x)'
    BY <1>1, <1>2, <1>3, <1>7, <2>3
       DEF Sure, Prevue, Fondee, Ecrite, Juste, Publiee
  <2>5. requete'[p] = x
    BY <2>3, SeuleRoute DEF Inv
  <2>6. requete[p].geste = "depublier" => ~Publiee' /\ pub'.state # "published"
    BY <1>2, <1>1, <1>3 DEF Ecrite, Publiee
  <2>7. requete[p].geste = "publier" => ~(col'.archivee /\ pub'.state = "published")
    BY <1>1, <1>2, <1>3 DEF Ecrite, Fondee
  <2>8. Accordes'
    BY <1>7, <2>3, <2>5, <2>6, <2>7 DEF Accordes, MiroirSuit, FicheSuit, Servie
  <2> QED
    BY <1>6, <2>3, <2>4, <2>8
<1>8. CASE requete[p].geste = "archiver"
  <2>1. PICK r \in Route \cup {Repos} :
          /\ Aller(p, r)
          /\ r # Repos => r.etape = "retirer" /\ r.geste = "archiver"
    <3>1. CASE requete[p].lu.state = "published" /\ requete[p].lu.alias
      <4>1. Aller(p, [requete[p] EXCEPT !.etape = "retirer"])
        BY <1>1, <1>8, <3>1 DEF ApresEcriture
      <4>2. [requete[p] EXCEPT !.etape = "retirer"] \in Route
            /\ [requete[p] EXCEPT !.etape = "retirer"].etape = "retirer"
            /\ [requete[p] EXCEPT !.etape = "retirer"].geste = "archiver"
        BY <1>2, <1>8 DEF Route, Etapes
      <4> QED
        BY <4>1, <4>2
    <3>2. CASE ~(requete[p].lu.state = "published" /\ requete[p].lu.alias)
      BY <1>1, <1>8, <3>2 DEF ApresEcriture
    <3> QED
      BY <3>1, <3>2
  <2>2. r # Repos => Sure(r)'
    BY <1>1, <1>2, <1>3, <1>8, <2>1 DEF Sure, Prevue, Fondee, Ecrite, Juste
  <2>3. pub'.state # "published"
    BY <1>1, <1>2, <1>3, <1>8 DEF Ecrite
  <2>4. Accordes'
    BY <2>3 DEF Accordes, Publiee, Servie
  <2> QED
    BY <1>6, <2>1, <2>2, <2>4
<1>9. CASE requete[p].geste = "desarchiver"
  <2>1. PICK r \in Route \cup {Repos} : Aller(p, r) /\ r = Repos
    BY <1>1, <1>9 DEF ApresEcriture
  <2>2. ~col'.archivee /\ (pub'.state # "published" \/ pub' = pub)
    BY <1>1, <1>2, <1>3, <1>9 DEF Fondee, Ecrite
  <2>3. ~MiroirSuit /\ ~FicheSuit
    BY <1>1, <1>4 DEF MiroirSuit, FicheSuit
  <2>4. Accordes'
    BY <1>1, <2>2, <2>3 DEF Inv, Suivi, Accordes, Publiee, Servie
  <2> QED
    BY <1>6, <2>1, <2>4
<1> QED
  BY <1>1, <1>2, <1>7, <1>8, <1>9 DEF Prevue

\* The mirror assistant follows: read, then written.
LEMMA MiroirSuivi ==
    ASSUME UneRoute, Inv, NEW p \in Requetes, calme' => calme, MiroirLire(p) \/ MiroirEcrire(p)
    PROVE  Suivi'
<1>1. /\ requete[p].etape \in {"miroir", "assurer"} /\ requete[p] # Repos
      /\ UNCHANGED <<col, pub, socle>>
  BY ReposEtape DEF MiroirLire, MiroirEcrire, Etapes
<1>2. /\ requete[p] \in Route /\ Prevue(requete[p]) /\ Fondee(requete[p])
      /\ Ecrite(requete[p]) /\ Juste(requete[p]) /\ miroir \in {"absent", "eveille", "sommeil"}
  BY <1>1, EnCours DEF Inv, TypeOK
<1>3. \A q \in Requetes : q = p
  BY DEF UneRoute
<1>4. CASE MiroirLire(p)
  <2> DEFINE suite == IF Publiee
                      THEN CASE miroir = "absent"  -> "creer"
                             [] miroir = "sommeil" -> "reveiller"
                             [] miroir = "eveille" -> "rien"
                      ELSE IF miroir = "eveille" THEN "endormir" ELSE "rien"
             r == [requete[p] EXCEPT !.suite = suite]
  <2>1. /\ requete[p].etape = "miroir" /\ UNCHANGED <<col, pub, miroir, socle>>
        /\ Aller(p, IF suite = "rien" THEN ApresMiroir(r) ELSE [r EXCEPT !.etape = "assurer"])
    BY <1>4 DEF MiroirLire
  <2>2. /\ suite \in Suites
        /\ suite = "rien" => (Publiee <=> miroir = "eveille")
        /\ suite # "rien" =>
              IF Publiee THEN /\ suite = IF miroir = "absent" THEN "creer" ELSE "reveiller"
                              /\ miroir # "eveille"
              ELSE suite = "endormir" /\ miroir = "eveille"
    BY <1>2 DEF Suites
  <2> HIDE DEF suite
  <2>3. /\ r \in Route /\ r.etape = "miroir" /\ r.geste = requete[p].geste
        /\ r.form = requete[p].form /\ r.lu = requete[p].lu /\ r.voulu = requete[p].voulu
        /\ r.suite = suite
    BY <1>2, <2>1, <2>2 DEF Route
  <2>4. /\ [r EXCEPT !.etape = "assurer"] \in Route
        /\ [r EXCEPT !.etape = "assurer"].etape = "assurer"
        /\ [r EXCEPT !.etape = "assurer"].geste = r.geste
        /\ [r EXCEPT !.etape = "assurer"].form = r.form
        /\ [r EXCEPT !.etape = "assurer"].suite = r.suite
    BY <2>3 DEF Route, Etapes
  <2> HIDE DEF r
  <2>5. Prevue(r) /\ Fondee(r) /\ Ecrite(r)
    BY <1>2, <2>1, <2>3 DEF Prevue, Fondee, Ecrite
  <2>6. CASE suite = "rien"
    <3>1. Aller(p, ApresMiroir(r))
      BY <2>1, <2>6
    <3>2. CASE ApresMiroir(r) = Repos /\ (r.geste = "publier" => ~Servie)
      <4>1. PICK x \in Route \cup {Repos} : Aller(p, x) /\ x = Repos
        BY <3>1, <3>2
      <4>2. Reprend(requete[p], x)
        BY <2>1, <2>2, <2>3, <2>6, <3>2 DEF Reprend
      <4> QED
        BY <2>1, <4>1, <4>2, SansEcriture
    <3>3. CASE /\ ApresMiroir(r) \in Route /\ Prevue(ApresMiroir(r))
               /\ Fondee(ApresMiroir(r)) /\ Ecrite(ApresMiroir(r))
               /\ ApresMiroir(r).geste = r.geste
               /\ ApresMiroir(r).etape = IF r.geste = "publier" THEN "voulue" ELSE "retirer"
      <4>1. PICK x \in Route : /\ Aller(p, x) /\ Prevue(x) /\ Fondee(x) /\ Ecrite(x)
                               /\ x.geste = r.geste
                               /\ x.etape = IF r.geste = "publier" THEN "voulue" ELSE "retirer"
        BY <3>1, <3>3
      <4>2. Sure(x)
        BY <4>1 DEF Sure, Juste
      <4>3. Reprend(requete[p], x)
        BY <2>1, <2>2, <2>3, <2>6, <4>1 DEF Reprend
      <4> QED
        BY <2>1, <4>1, <4>2, <4>3, SansEcriture
    <3> QED
      BY <2>3, <2>5, <3>2, <3>3, SuiteTenue
  <2>7. CASE suite # "rien"
    <3>1. PICK x \in Route : /\ Aller(p, x) /\ x.etape = "assurer" /\ x.geste = r.geste
                             /\ x.form = r.form /\ x.suite = suite
      BY <2>1, <2>3, <2>4, <2>7
    <3>2. Sure(x)
      BY <2>2, <2>3, <2>5, <2>7, <3>1 DEF Sure, Prevue, Fondee, Ecrite, Juste
    <3>3. Reprend(requete[p], x)
      BY <2>1, <2>3, <3>1 DEF Reprend
    <3> QED
      BY <2>1, <3>1, <3>2, <3>3, SansEcriture
  <2> QED
    BY <2>6, <2>7
<1>5. CASE MiroirEcrire(p)
  <2>1. /\ requete[p].etape = "assurer" /\ Aller(p, ApresMiroir(requete[p]))
        /\ miroir' = IF requete[p].suite = "creer"
                     THEN IF miroir = "absent" THEN "eveille" ELSE miroir
                     ELSE IF miroir = "absent" THEN miroir
                     ELSE IF requete[p].suite = "reveiller" THEN "eveille" ELSE "sommeil"
    BY <1>5 DEF MiroirEcrire
  <2>2. Publiee => miroir' = "eveille"
    BY <1>2, <2>1 DEF Juste
  <2>3. UNCHANGED <<Publiee, Servie>> /\ SansCollection'
    BY <1>1 DEF Publiee, Servie, Inv, Suivi, SansCollection
  <2>4. ASSUME NEW r \in Route \cup {Repos}, Aller(p, r), r # Repos => Sure(r)',
               requete[p].geste = "publier" /\ Servie => r.geste = "publier" /\ r.etape = "voulue"
        PROVE  Suivi'
    <3>1. \A q \in Requetes : q = p /\ requete'[q] = r
      BY <2>4, SeuleRoute DEF Inv
    <3>2. Tenue'
      BY <2>4, <3>1 DEF Tenue
    <3>3. ~LigneSuit
      BY <1>3, <2>1 DEF LigneSuit
    <3>4. FicheSuit /\ Servie => FicheSuit'
      BY <1>3, <2>1, <2>4, <3>1 DEF FicheSuit
    <3>5. Accordes'
      BY <1>1, <2>2, <2>3, <3>3, <3>4 DEF Inv, Suivi, Accordes
    <3> QED
      BY <2>3, <3>2, <3>5 DEF Suivi
  <2>5. CASE ApresMiroir(requete[p]) = Repos /\ (requete[p].geste = "publier" => ~Servie)
    <3>1. PICK r \in Route \cup {Repos} : Aller(p, r) /\ r = Repos
      BY <2>1, <2>5
    <3> QED
      BY <2>4, <2>5, <3>1
  <2>6. CASE /\ ApresMiroir(requete[p]) \in Route /\ Prevue(ApresMiroir(requete[p]))
             /\ Fondee(ApresMiroir(requete[p])) /\ Ecrite(ApresMiroir(requete[p]))
             /\ ApresMiroir(requete[p]).geste = requete[p].geste
             /\ ApresMiroir(requete[p]).etape =
                   IF requete[p].geste = "publier" THEN "voulue" ELSE "retirer"
    <3>1. PICK r \in Route : /\ Aller(p, r) /\ Prevue(r) /\ Fondee(r) /\ Ecrite(r)
                             /\ r.geste = requete[p].geste
                             /\ r.etape = IF requete[p].geste = "publier" THEN "voulue"
                                          ELSE "retirer"
      BY <2>1, <2>6
    <3>2. Sure(r)'
      BY <1>1, <2>3, <3>1 DEF Sure, Prevue, Fondee, Ecrite, Juste
    <3> QED
      BY <2>4, <3>1, <3>2
  <2> QED
    BY <1>1, <1>2, <2>5, <2>6, SuiteTenue
<1> QED
  BY <1>4, <1>5

\* The fiche is posed or withdrawn, and the route is over.
LEMMA FicheSuivie ==
    ASSUME UneRoute, Inv, NEW p \in Requetes, calme' => calme, Poser(p) \/ Retirer(p)
    PROVE  Suivi'
<1>1. /\ requete[p] # Repos /\ Aller(p, Repos) /\ UNCHANGED <<col, pub, miroir>>
      /\ requete[p].etape \in {"poser", "retirer"}
  BY ReposEtape DEF Poser, Retirer, Etapes
<1>2. /\ Prevue(requete[p]) /\ Fondee(requete[p]) /\ Ecrite(requete[p]) /\ Juste(requete[p])
  BY <1>1, EnCours
<1>3. \A q \in Requetes : q = p /\ requete'[q] = Repos
  BY <1>1, SeuleRoute DEF Inv
<1>4. UNCHANGED <<Publiee, Servie>> /\ SansCollection'
  BY <1>1 DEF Publiee, Servie, Inv, Suivi, SansCollection
<1>5. ~LigneSuit /\ ~MiroirSuit
  BY <1>1, <1>3 DEF LigneSuit, MiroirSuit
<1>6. calme /\ Servie => socle' = pub.visibilite
  <2>1. CASE Poser(p) /\ requete[p].geste = "publier"
    BY <1>2, <2>1 DEF Poser, Juste
  <2>2. CASE Poser(p) /\ requete[p].geste # "publier"
    <3>1. socle' = socle /\ ~FicheSuit
      BY <1>2, <1>3, <2>2 DEF Poser, Juste, FicheSuit
    <3> QED
      BY <3>1 DEF Inv, Suivi, Accordes
  <2>3. CASE Retirer(p)
    BY <1>2, <2>3 DEF Retirer, Prevue, Fondee, Servie, Publiee
  <2> QED
    BY <2>1, <2>2, <2>3
<1>7. Accordes'
  BY <1>1, <1>4, <1>5, <1>6 DEF Inv, Suivi, Accordes
<1> QED
  BY <1>3, <1>4, <1>7 DEF Suivi, Tenue

\* A purge: the rows at once, then the mirror assistant.
LEMMA PurgeSuivie ==
    ASSUME UneRoute, Inv, NEW p \in Requetes, calme' => calme, Effacer(p) \/ PurgerMiroir(p)
    PROVE  Suivi'
<1>1. requete[p] # Repos /\ requete[p].etape \in {"effacer", "purger_miroir"}
  BY ReposEtape DEF Effacer, PurgerMiroir, Etapes
<1>2. /\ requete[p] \in Route /\ Prevue(requete[p]) /\ Fondee(requete[p])
      /\ requete[p].geste = "purger"
  BY <1>1, EnCours DEF Prevue
<1>3. PICK r \in Route : /\ Aller(p, r) /\ r.geste = "purger"
                         /\ r.etape \in {"purger_miroir", "retirer"}
  <2>1. \A e \in Etapes : /\ [requete[p] EXCEPT !.etape = e] \in Route
                          /\ [requete[p] EXCEPT !.etape = e].etape = e
                          /\ [requete[p] EXCEPT !.etape = e].geste = "purger"
    BY <1>2 DEF Route
  <2> QED
    BY <2>1 DEF Effacer, PurgerMiroir, Etapes
<1>4. /\ ~Publiee' /\ SansCollection'
      /\ calme' => ~(col'.archivee /\ pub'.state = "published")
  <2>1. CASE Effacer(p)
    BY <2>1 DEF Effacer, Inexistante, SansLigne, Publiee, SansCollection
  <2>2. CASE PurgerMiroir(p)
    <3>1. UNCHANGED <<col, pub>> /\ ~Publiee /\ SansCollection /\ ~LigneSuit
      BY <1>1, <1>2, <2>2 DEF PurgerMiroir, Fondee, Inv, Suivi, LigneSuit, UneRoute
    <3> QED
      BY <3>1 DEF Publiee, SansCollection, Inv, Suivi, Accordes
  <2> QED
    BY <2>1, <2>2
<1>5. \A q \in Requetes : q = p /\ requete'[q] = r
  BY <1>3, SeuleRoute DEF Inv
<1>6. Sure(r)'
  BY <1>3, <1>4 DEF Sure, Prevue, Fondee, Ecrite, Juste
<1>7. Accordes'
  BY <1>4 DEF Accordes, Servie
<1> QED
  BY <1>4, <1>5, <1>6, <1>7 DEF Suivi, Tenue

\* Between two routes: the collection, the mirror assistant, the rights set in
\* the assistant.
LEMMA EntreSuivi ==
    ASSUME UneRoute, Inv,
           \/ (CreerCollection \/ ChangerEtat \/ ReveillerMiroir) /\ (calme' => calme)
           \/ ReglerAilleurs /\ ~calme'
    PROVE  Suivi'
<1>1. AuRepos /\ UNCHANGED <<requete, pub>>
  BY DEF CreerCollection, ChangerEtat, ReveillerMiroir, ReglerAilleurs, Libre, AuRepos, UneRoute
<1>2. col \in Collection
  BY DEF Inv, TypeOK
<1>3. /\ calme => /\ ~(col.archivee /\ pub.state = "published")
                  /\ Publiee => miroir = "eveille"
                  /\ Servie => socle = pub.visibilite
      /\ SansCollection
  BY <1>1, ReposEtape DEF Inv, Suivi, Accordes, LigneSuit, MiroirSuit, FicheSuit, AuRepos
<1>4. CASE CreerCollection /\ (calme' => calme)
  <2>1. pub = SansLigne /\ col'.existe /\ ~col'.archivee
    BY <1>3, <1>4 DEF CreerCollection, SansCollection, Inexistante
  <2> QED
    BY <1>1, <2>1, EntreRoutes DEF SansCollection, SansLigne, Publiee, Servie
<1>5. CASE ChangerEtat /\ (calme' => calme)
  <2>1. UNCHANGED <<Publiee, Servie, miroir, socle>> /\ col'.archivee = col.archivee
        /\ col'.existe = col.existe
    BY <1>2, <1>5 DEF ChangerEtat, Collection, Publiee, Servie
  <2> QED
    BY <1>1, <1>3, <2>1, EntreRoutes DEF SansCollection
<1>6. CASE \/ ReveillerMiroir /\ (calme' => calme)
           \/ ReglerAilleurs /\ ~calme'
  <2>1. UNCHANGED <<Publiee, Servie, col>> /\ (ReveillerMiroir => miroir' = "eveille" /\ socle' = socle)
    BY <1>1, <1>6 DEF ReveillerMiroir, ReglerAilleurs, Publiee, Servie
  <2> QED
    BY <1>1, <1>3, <1>6, <2>1, EntreRoutes DEF SansCollection
<1> QED
  BY <1>4, <1>5, <1>6

\* What fails: what was read and is not done is lost, nothing else.
LEMMA PanneSuivie ==
    ASSUME UneRoute, Inv, Panne, ~calme'
    PROVE  Suivi'
<1>1. ASSUME NEW p \in Requetes, MiroirEchoue(p)
      PROVE  Suivi'
  <2>1. /\ requete[p] # Repos /\ requete[p].etape \in {"miroir", "assurer"}
        /\ UNCHANGED <<col, pub, miroir, socle>> /\ Aller(p, ApresMiroir(requete[p]))
    BY <1>1, ReposEtape DEF MiroirEchoue, Etapes
  <2>2. /\ requete[p] \in Route /\ Prevue(requete[p]) /\ Fondee(requete[p]) /\ Ecrite(requete[p])
    BY <2>1, EnCours
  <2>3. PICK r \in Route \cup {Repos} :
          /\ Aller(p, r)
          /\ r # Repos => /\ Prevue(r) /\ Fondee(r) /\ Ecrite(r)
                          /\ r.etape \in {"voulue", "retirer"}
    BY <2>1, <2>2, SuiteTenue
  <2>4. r # Repos => Sure(r)
    BY <2>3 DEF Sure, Juste
  <2> QED
    BY <2>1, <2>3, <2>4, SansEcriture
<1>2. ASSUME NEW p \in Requetes, Abandonner(p)
      PROVE  Suivi'
  <2>1. PICK r \in Route \cup {Repos} : Aller(p, r) /\ r = Repos
    BY <1>2 DEF Abandonner
  <2> QED
    BY <1>2, <2>1, SansEcriture DEF Abandonner
<1>3. ASSUME NEW p \in Requetes, Redemarrer(p)
      PROVE  Suivi'
  <2>1. UNCHANGED <<col, pub, miroir, socle>>
        /\ requete' = [q \in Requetes |-> IF q = p /\ col.existe
                                          THEN Debut("demarrer", "miroir") ELSE Repos]
    BY <1>3 DEF Redemarrer
  <2> DEFINE d == Debut("demarrer", "miroir")
  <2>2. d \in Route /\ d.geste = "demarrer" /\ d.etape = "miroir"
    BY DebutRoute DEF Debut, Gestes, Etapes
  <2> HIDE DEF d
  <2>3. col.existe => Sure(d)
    BY <2>2 DEF Sure, Prevue, Fondee, Ecrite, Juste
  <2>4. PICK x : x = IF col.existe THEN d ELSE Repos
    OBVIOUS
  <2>5. /\ x \in Route \cup {Repos} /\ (x # Repos => Sure(x))
        /\ \A q \in Requetes : q = p /\ requete'[q] = x
    BY <2>1, <2>2, <2>3, <2>4 DEF UneRoute, d
  <2>6. requete' = [requete EXCEPT ![p] = x]
    BY <2>1, <2>5 DEF Inv, TypeOK
  <2> QED
    BY <2>1, <2>5, <2>6, SansEcriture DEF Aller
<1> QED
  BY <1>1, <1>2, <1>3 DEF Panne

-----------------------------------------------------------------------------
(* The invariant.                                                          *)

LEMMA InvInit == MCInit => Inv
<1>1. ASSUME MCInit PROVE Suivi
  <2>1. pub.state = "aucune" /\ ~col.archivee /\ pub = SansLigne
        /\ \A p \in Requetes : requete[p] = Repos
    BY <1>1 DEF MCInit, Init, SansLigne, Inexistante
  <2> QED
    BY <2>1 DEF Suivi, SansCollection, Tenue, Accordes, Publiee, Servie
<1> QED
  BY <1>1, TypeInit DEF Inv, MCInit

LEMMA InvEtape ==
    ASSUME UneRoute, Inv, [MCNext]_<<vars, calme>>
    PROVE  Inv'
<1>1. TypeOK'
  <2>1. [Next]_vars
    BY DEF MCNext, Next, vars
  <2> QED
    BY <2>1, TypeEtape DEF Inv
<1> SUFFICES Suivi'
  BY <1>1 DEF Inv
<1>2. CASE Marche /\ UNCHANGED calme
  <2>0. calme' => calme
    BY <1>2
  <2>1. CASE CreerCollection \/ ChangerEtat \/ ReveillerMiroir
    BY <2>0, <2>1, EntreSuivi
  <2>2. CASE Publication \/ Retrait \/ Purge
    BY <2>0, <2>2, DebutSuivi, DebutCollection, LectureSuivi, PurgeSuivie
       DEF Publication, Retrait, Purge
  <2>3. CASE Suite \/ Assistant
    BY <2>0, <2>3, EcritureSuivie, MiroirSuivi, DebutSuivi, LectureSuivi, FicheSuivie
       DEF Suite, Assistant
  <2> QED
    BY <1>2, <2>1, <2>2, <2>3 DEF Marche
<1>3. CASE (ReglerAilleurs \/ Panne) /\ calme' = FALSE
  BY <1>3, EntreSuivi, PanneSuivie
<1>4. CASE UNCHANGED <<vars, calme>>
  <2>1. UNCHANGED <<Publiee, Servie>>
    BY <1>4 DEF vars, Publiee, Servie
  <2>2. SansCollection' /\ Accordes'
    BY <1>4, <2>1 DEF vars, Inv, Suivi, SansCollection, Accordes, LigneSuit, MiroirSuit, FicheSuit
  <2>3. Tenue'
    BY <1>4, <2>1 DEF vars, Inv, Suivi, Tenue, Sure, Prevue, Fondee, Ecrite, Juste
  <2> QED
    BY <2>2, <2>3 DEF Suivi
<1> QED
  BY <1>2, <1>3, <1>4 DEF MCNext

\* A mirror or a fiche that waits for a publication has a route in flight.
LEMMA ReposSansAttente == AuRepos => ~LigneSuit /\ ~MiroirSuit /\ ~FicheSuit
BY ReposEtape DEF AuRepos, LigneSuit, MiroirSuit, FicheSuit

\* Who changes the fiche.
LEMMA FicheChangee ==
    ASSUME [MCNext]_<<vars, calme>>, socle' # socle
    PROVE  (\E p \in Requetes : Poser(p) \/ Retirer(p)) \/ ReglerAilleurs
<1>1. MCNext
  BY DEF vars
<1>2. ~(CreerCollection \/ ChangerEtat \/ ReveillerMiroir \/ Panne)
  BY DEF CreerCollection, ChangerEtat, ReveillerMiroir, Panne, MiroirEchoue, Abandonner, Redemarrer
<1>3. ~(Publication \/ Retrait \/ Purge)
  BY DEF Publication, Publier, PublierLire, Retrait, Depublier, Archiver, ArchiverLire,
         Desarchiver, DesarchiverLire, Purge, Purger, Effacer, PurgerMiroir
<1>4. ~Suite
  BY DEF Suite, EcrireLigne, MiroirLire, MiroirEcrire
<1>5. Assistant => \E p \in Requetes : Poser(p) \/ Retirer(p)
  BY DEF Assistant, Resynchroniser, VoulueLire, ExistanteLire
<1> QED
  BY <1>1, <1>2, <1>3, <1>4, <1>5 DEF MCNext, Marche

\* A resynchronisation poses the rights it found; a publication poses those of
\* the row, and for all only when the collection is verified.
LEMMA PoserJuste ==
    ASSUME Inv, NEW p \in Requetes, Poser(p)
    PROVE  /\ requete[p].geste = "resynchroniser" => socle' = socle
           /\ socle' # socle /\ socle' = "all" => col.verifiee
<1>1. requete[p] # Repos /\ requete[p].etape = "poser" /\ socle' = requete[p].portee
  BY ReposEtape DEF Poser, Etapes
<1>2. /\ Prevue(requete[p]) /\ Fondee(requete[p]) /\ Ecrite(requete[p]) /\ Juste(requete[p])
  BY <1>1, EnCours
<1>3. requete[p].geste \in {"publier", "resynchroniser"}
  BY <1>1, <1>2 DEF Prevue
<1>4. requete[p].geste = "resynchroniser" => socle' = socle
  BY <1>1, <1>2 DEF Juste
<1>5. ASSUME requete[p].geste = "publier", socle' = "all"
      PROVE  col.verifiee
  <2>1. ~requete[p].form.brouillon /\ pub.visibilite = requete[p].form.visibilite
    BY <1>1, <1>2, <1>5 DEF Ecrite
  <2>2. pub.visibilite = "all"
    BY <1>1, <1>2, <1>5 DEF Juste
  <2> QED
    BY <1>1, <1>2, <1>5, <2>1, <2>2 DEF Fondee
<1> QED
  BY <1>3, <1>4, <1>5

\* A mirror assistant that was assured to the end is as the tables say.
LEMMA MiroirJuste ==
    ASSUME Inv, NEW p \in Requetes, MiroirLire(p) \/ MiroirEcrire(p),
           requete'[p].etape # "assurer"
    PROVE  miroir' = "eveille" <=> Publiee
<1>1. /\ requete[p].etape \in {"miroir", "assurer"} /\ requete[p] # Repos
  BY ReposEtape DEF MiroirLire, MiroirEcrire, Etapes
<1>2. /\ requete[p] \in Route /\ Juste(requete[p]) /\ miroir \in {"absent", "eveille", "sommeil"}
      /\ requete \in [Requetes -> Route \cup {Repos}]
  BY <1>1, EnCours DEF Inv, TypeOK
<1>3. CASE MiroirLire(p)
  <2> DEFINE suite == IF Publiee
                      THEN CASE miroir = "absent"  -> "creer"
                             [] miroir = "sommeil" -> "reveiller"
                             [] miroir = "eveille" -> "rien"
                      ELSE IF miroir = "eveille" THEN "endormir" ELSE "rien"
             r == [requete[p] EXCEPT !.suite = suite]
  <2>1. /\ UNCHANGED miroir
        /\ Aller(p, IF suite = "rien" THEN ApresMiroir(r) ELSE [r EXCEPT !.etape = "assurer"])
    BY <1>3 DEF MiroirLire
  <2>2. suite \in Suites /\ (suite = "rien" => (Publiee <=> miroir = "eveille"))
    BY <1>2 DEF Suites
  <2> HIDE DEF suite
  <2>3. r \in Route
    BY <1>2, <2>2 DEF Route
  <2> HIDE DEF r
  <2>4. [r EXCEPT !.etape = "assurer"].etape = "assurer"
    BY <2>3 DEF Route
  <2>5. suite = "rien"
    BY <1>2, <2>1, <2>4 DEF Aller
  <2> QED
    BY <2>1, <2>2, <2>5
<1>4. CASE MiroirEcrire(p)
  BY <1>2, <1>4 DEF MiroirEcrire, Juste
<1> QED
  BY <1>3, <1>4

\* What publishes a collection, when nothing fails.
LEMMA ReouvertureJuste ==
    ASSUME UneRoute, Inv, Marche, calme, ~Publiee, Publiee'
    PROVE  \E p \in Requetes : En(p, "publier", "ecrire")
<1>1. ~UNCHANGED <<col, pub>> /\ col \in Collection
  BY DEF Publiee, Inv, TypeOK
<1>2. ASSUME NEW p \in Requetes, EcrireLigne(p)
      PROVE  En(p, "publier", "ecrire")
  <2>1. requete[p] # Repos /\ requete[p].etape = "ecrire" /\ UNCHANGED col
    BY <1>2, ReposEtape DEF EcrireLigne, Etapes
  <2>2. requete[p] \in Route /\ Ecrite(requete[p]) /\ pub \in Ligne
    BY <2>1, EnCours DEF Inv, TypeOK
  <2>3. pub' = requete[p].voulu
    BY <1>2, <2>1, <2>2, ColonnesLigne DEF EcrireLigne, Ecrite, Route
  <2> QED
    BY <1>1, <2>1, <2>2, <2>3 DEF Ecrite, En, Publiee
<1>3. ASSUME NEW p \in Requetes, requete[p] = Repos
      PROVE  ~(col.archivee /\ pub.state = "published")
  BY <1>3, ReposEtape DEF UneRoute, Inv, Suivi, Accordes, LigneSuit, Etapes
<1>4. \A p \in Requetes : ~(\E f \in Formulaires : Publier(p, f))
  <2> SUFFICES ASSUME NEW p \in Requetes, NEW f \in Formulaires, Publier(p, f) PROVE FALSE
    OBVIOUS
  <2>1. col'.archivee = col.archivee /\ UNCHANGED pub
    BY <1>1 DEF Publier, Collection
  <2> QED
    BY <2>1 DEF Inv, Suivi, SansCollection, SansLigne, Publiee
<1>5. \A p \in Requetes : ~Desarchiver(p)
  BY <1>1, <1>3 DEF Desarchiver, Collection, Publiee
<1>6. \A p \in Requetes : ~Archiver(p) /\ ~Effacer(p)
  BY <1>1 DEF Archiver, Effacer, Collection, Inexistante, Publiee
<1>7. ~CreerCollection /\ ~ChangerEtat
  <2>1. ~CreerCollection
    BY DEF CreerCollection, Inv, Suivi, SansCollection, SansLigne, Publiee
  <2>2. ~ChangerEtat
    BY <1>1 DEF ChangerEtat, Collection, Publiee
  <2> QED
    BY <2>1, <2>2
<1>8. ~(ReveillerMiroir \/ Assistant)
  BY <1>1 DEF ReveillerMiroir, Assistant, Resynchroniser, VoulueLire, ExistanteLire, Poser, Retirer
<1>9. \A p \in Requetes : ~(\/ PublierLire(p) \/ Depublier(p) \/ ArchiverLire(p) \/ DesarchiverLire(p)
                            \/ Purger(p) \/ PurgerMiroir(p) \/ MiroirLire(p) \/ MiroirEcrire(p))
  BY <1>1 DEF PublierLire, Depublier, ArchiverLire, DesarchiverLire, Purger, PurgerMiroir,
              MiroirLire, MiroirEcrire
<1> QED
  BY <1>2, <1>4, <1>5, <1>6, <1>7, <1>8, <1>9
     DEF Marche, Publication, Retrait, Purge, Suite

-----------------------------------------------------------------------------
(* Theorems.                                                               *)

\* The rows, the fiche and the routes in flight keep the shapes of
\* models/db.py, however many routes are in flight and whatever fails.
THEOREM TypesGardes == Spec => []TypeOK
BY TypeInit, TypeEtape, PTL DEF Spec

\* publish_collection, then fiche_socle: when nothing fails and routes do not
\* overlap, the fiche of a served collection is there for those its row says.
THEOREM ServieToujours == ASSUME UneRoute PROVE MCSpec => []ServieCommeVoulu
<1>1. Inv => ServieCommeVoulu
  BY ReposSansAttente DEF Inv, Suivi, Accordes, ServieCommeVoulu, FicheConforme
<1> QED
  BY <1>1, InvInit, InvEtape, PTL DEF MCSpec

\* assistant_store.assurer_miroir: a published collection has its mirror
\* assistant awake, whichever of the routes published it, in whatever order.
THEOREM MiroirToujoursEveille == ASSUME UneRoute PROVE MCSpec => []MiroirEveille
<1>1. Inv => MiroirEveille
  BY ReposSansAttente DEF Inv, Suivi, Accordes, MiroirEveille, MiroirPret
<1> QED
  BY <1>1, InvInit, InvEtape, PTL DEF MCSpec

\* publish_collection, "Regle 3": calls that fail, processes that die and
\* rights set in the assistant do not open a fiche to all by our hand.
THEOREM OuvertureToujoursControlee == ASSUME UneRoute PROVE MCSpec => OuvertureControlee
<1>1. ASSUME Inv, [MCNext]_<<vars, calme>>
      PROVE  [socle # "all" /\ socle' = "all" => col.verifiee \/ ReglerAilleurs]_vars
  <2> SUFFICES ASSUME socle # "all", socle' = "all", ~ReglerAilleurs PROVE col.verifiee
    OBVIOUS
  <2>1. PICK p \in Requetes : Poser(p) \/ Retirer(p)
    BY <1>1, FicheChangee
  <2>2. Poser(p)
    BY <2>1 DEF Retirer, Absente
  <2> QED
    BY <1>1, <2>2, PoserJuste
<1> QED
  BY <1>1, InvInit, InvEtape, PTL DEF MCSpec, OuvertureControlee

\* fiche_socle.resynchroniser_toutes, "JAMAIS les droits": what it poses has
\* the rights the fiche had, also where they are not those of the row.
THEOREM DroitsToujoursReconduits == ASSUME UneRoute PROVE MCSpec => DroitsReconduits
<1>1. ASSUME Inv, [MCNext]_<<vars, calme>>
      PROVE  [\A p \in Requetes : En(p, "resynchroniser", "poser") => socle' = socle]_vars
  <2> SUFFICES ASSUME NEW p \in Requetes, En(p, "resynchroniser", "poser"), socle' # socle
               PROVE  FALSE
    OBVIOUS
  <2>1. \A q \in Requetes : q = p
    BY DEF UneRoute
  <2>2. ~ReglerAilleurs
    BY <2>1, ReposEtape DEF ReglerAilleurs, Libre, En, Etapes
  <2>3. Poser(p)
    BY <1>1, <2>1, <2>2, FicheChangee DEF Retirer, En
  <2> QED
    BY <1>1, <2>3, PoserJuste DEF En
<1> QED
  BY <1>1, InvInit, InvEtape, PTL DEF MCSpec, DroitsReconduits

\* assistant_store.assurer_miroir, "Idempotent": whatever was left half done, a
\* call that ends well leaves the mirror awake exactly when it must be.
THEOREM MiroirToujoursAccorde == ASSUME UneRoute PROVE MCSpec => MiroirAccorde
<1>1. ASSUME Inv
      PROVE  [\A p \in Requetes :
                 (MiroirLire(p) \/ MiroirEcrire(p)) /\ requete'[p].etape # "assurer"
                    => (miroir' = "eveille" <=> Publiee)]_vars
  BY <1>1, MiroirJuste
<1> QED
  BY <1>1, InvInit, InvEtape, PTL DEF MCSpec, MiroirAccorde

\* unarchive, "Publication state is NOT auto-restored": as long as nothing has
\* failed, only the write of a publication publishes a collection.
THEOREM ReouvertureToujoursExplicite == ASSUME UneRoute PROVE MCSpec => ReouvertureExplicite
<1>1. ASSUME Inv, [MCNext]_<<vars, calme>>
      PROVE  [calme' => RouverteParPublication]_<<vars, calme>>
  <2> SUFFICES ASSUME MCNext, calme', ~Publiee, Publiee'
               PROVE  \E p \in Requetes : En(p, "publier", "ecrire")
    BY <1>1 DEF RouverteParPublication
  <2>1. Marche /\ calme
    BY DEF MCNext
  <2> QED
    BY <1>1, <2>1, ReouvertureJuste
<1> QED
  BY <1>1, InvInit, InvEtape, PTL DEF MCSpec, ReouvertureExplicite

-----------------------------------------------------------------------------
(* The run that checks the three parts together.  They share no state, so a *)
(* step of one is a stutter of the others, and each keeps what was proved   *)
(* of it.                                                                   *)

\* The proofs of the two other parts, and the joint run's state.
AP == INSTANCE Amorces_proofs

CP == INSTANCE Assistants_proofs WITH Requetes <- Fonctions

tout == <<vars, calme, varsAmorce, varsAssistant, scenario>>

LEMMA AmorceInit == SortInit => AP!Init
BY DEF SortInit, Amorcage!Init, AP!Init, Amorcage!Repos, AP!Repos

LEMMA AmorceNext == Amorcage!Next => AP!Next
<1> USE DEF Amorcage!Va, AP!Va, Amorcage!Repos, AP!Repos, Amorcage!EnVol, AP!EnVol,
            Amorcage!Accroc, AP!Accroc
<1>1. ASSUME NEW i \in Imports, Amorcage!Demande(i)
      PROVE  AP!Demande(i)
  BY <1>1 DEF Amorcage!Demande, Amorcage!Importer, Amorcage!Jouer, Amorcage!Commencer,
              AP!Demande, AP!Importer, AP!Jouer, AP!Commencer
<1>2. ASSUME NEW i \in Imports,
             \/ Amorcage!Marquer(i) \/ Amorcage!Vider(i) \/ Amorcage!Oublier(i)
             \/ Amorcage!Lancer(i) \/ Amorcage!Noter(i)
             \/ Amorcage!Echouer(i) \/ Amorcage!Couvrir(i) \/ Amorcage!Terminer(i)
      PROVE  AP!Execution(i)
  BY <1>2 DEF Amorcage!Marquer, Amorcage!Vider, Amorcage!Oublier, Amorcage!Lancer,
              Amorcage!Noter, Amorcage!Echouer, Amorcage!Couvrir, Amorcage!Terminer,
              Amorcage!Resultat, AP!Execution, AP!Marquer, AP!Vider, AP!Oublier, AP!Lancer,
              AP!Noter, AP!Echouer, AP!Couvrir, AP!Terminer, AP!Resultat
<1>3. ASSUME NEW i \in Imports, Amorcage!Telecharger(i)
      PROVE  AP!Execution(i)
  <2>1. \A S, n : Amorcage!Premiers(S, n) = AP!Premiers(S, n)
    BY Zenon DEF Amorcage!Premiers, AP!Premiers, Amorcage!Cardinality, AP!Cardinality
  <2>2. AP!Telecharger(i)
    BY <1>3, <2>1 DEF Amorcage!Telecharger, AP!Telecharger
  <2> QED
    BY <2>2 DEF AP!Execution
<1>4. ASSUME NEW i \in Imports, Amorcage!Envoyer(i)
      PROVE  AP!Execution(i)
  BY <1>4 DEF Amorcage!Envoyer, Amorcage!Premier, AP!Execution, AP!Envoyer, AP!Premier
<1>5. ASSUME NEW i \in Imports, Amorcage!Rompre(i) \/ Amorcage!Lever(i)
      PROVE  AP!Rompre(i) \/ AP!Lever(i)
  BY <1>5 DEF Amorcage!Rompre, Amorcage!Lever, AP!Rompre, AP!Lever
<1>6. ASSUME NEW m \in Mois, Amorcage!Paraitre(m)
      PROVE  AP!Paraitre(m)
  BY <1>6 DEF Amorcage!Paraitre, AP!Paraitre
<1>7. Amorcage!Redemarrer => AP!Redemarrer
  BY DEF Amorcage!Redemarrer, AP!Redemarrer
<1> QED
  BY <1>1, <1>2, <1>3, <1>4, <1>5, <1>6, <1>7 DEF Amorcage!Next, Amorcage!Execution, AP!Next

LEMMA AmorceEtape == [SortNext]_tout => [AP!Next]_AP!vars
<1>1. CASE scenario = "publication" /\ Immobile(<<varsAmorce, varsAssistant>>)
  BY <1>1 DEF Immobile, varsAmorce, AP!vars
<1>2. CASE scenario = "assistant" /\ Immobile(<<vars, calme, varsAmorce>>)
  BY <1>2 DEF Immobile, varsAmorce, AP!vars
<1>3. CASE UNCHANGED tout
  BY <1>3 DEF tout, varsAmorce, AP!vars
<1> QED
  BY <1>1, <1>2, <1>3, AmorceNext DEF SortNext

LEMMA CarnetInit == SortInit => CP!Init
BY DEF SortInit, Carnet!Init, CP!Init, Carnet!Repos, CP!Repos

LEMMA CarnetNext == Carnet!Next => CP!Next
<1> USE DEF Carnet!Passer, CP!Passer, Carnet!Repos, CP!Repos, Carnet!Brouillon, CP!Brouillon,
            Carnet!Coherente, CP!Coherente, Carnet!Lecture, CP!Lecture
<1>1. Carnet!Archiver \/ Carnet!Suivre => CP!Archiver \/ CP!Suivre
  BY DEF Carnet!Archiver, Carnet!Suivre, CP!Archiver, CP!Suivre
<1>2. ASSUME NEW p \in Fonctions
      PROVE  /\ \A f \in Fiches : Carnet!Enregistrer(p, f) => CP!Enregistrer(p, f)
             /\ \A s \in Sources : Carnet!Deriver(p, s) => CP!Deriver(p, s)
             /\ Carnet!Lire(p) => CP!Lire(p)
             /\ Carnet!Ecrire(p) => CP!Ecrire(p)
             /\ Carnet!Abandonner(p) => CP!Abandonner(p)
  BY DEF Carnet!Enregistrer, Carnet!Deriver, Carnet!Lire, Carnet!Ecrire, Carnet!Abandonner,
         CP!Enregistrer, CP!Deriver, CP!Lire, CP!Ecrire, CP!Abandonner
<1>3. ASSUME NEW p \in Fonctions
      PROVE  /\ Carnet!Publier(p) => CP!Publier(p)
             /\ Carnet!LireLigne(p) => CP!LireLigne(p)
             /\ Carnet!LireConsignes(p) => CP!LireConsignes(p)
             /\ Carnet!LireDerniere(p) => CP!LireDerniere(p)
             /\ Carnet!Figer(p) => CP!Figer(p)
  BY DEF Carnet!Publier, Carnet!LireLigne, Carnet!LireConsignes, Carnet!LireDerniere,
         Carnet!Figer, Carnet!FigerSelon, CP!Publier, CP!LireLigne, CP!LireConsignes,
         CP!LireDerniere, CP!Figer, CP!FigerSelon
<1> QED
  BY <1>1, <1>2, <1>3 DEF Carnet!Next, CP!Next

LEMMA CarnetEtape == [SortNext]_tout => [CP!Next]_CP!vars
<1>1. CASE scenario = "publication" /\ Immobile(<<varsAmorce, varsAssistant>>)
  BY <1>1 DEF Immobile, varsAssistant, CP!vars
<1>2. CASE scenario = "amorce" /\ Immobile(<<vars, calme, varsAssistant>>)
  BY <1>2 DEF Immobile, varsAssistant, CP!vars
<1>3. CASE UNCHANGED tout
  BY <1>3 DEF tout, varsAssistant, CP!vars
<1>4. CASE Bloque
  BY <1>4 DEF Bloque, varsAssistant, CP!vars
<1> QED
  BY <1>1, <1>2, <1>3, <1>4, CarnetNext DEF SortNext

LEMMA AmorceImplante == SortSpec => AP!Spec
BY AmorceInit, AmorceEtape, PTL DEF SortSpec, AP!Spec, tout

LEMMA CarnetImplante == SortSpec => CP!Spec
BY CarnetInit, CarnetEtape, PTL DEF SortSpec, CP!Spec, tout

LEMMA PublicationImplantee == SortSpec => Spec
<1>1. SortInit => Init
  BY DEF SortInit, MCInit
<1>2. [SortNext]_tout => [Next]_vars
  <2>1. CASE scenario = "publication" /\ MCNext
    BY <2>1 DEF MCNext, Next
  <2>2. CASE Immobile(<<vars, calme, varsAssistant>>) \/ Immobile(<<vars, calme, varsAmorce>>)
    BY <2>2 DEF Immobile
  <2>3. CASE UNCHANGED tout
    BY <2>3 DEF tout
  <2> QED
    BY <2>1, <2>2, <2>3 DEF SortNext
<1> QED
  BY <1>1, <1>2, PTL DEF SortSpec, Spec, tout

\* The rows and the functions in flight of the three parts keep their shapes.
THEOREM TypesEnsemble ==
    ASSUME MaxVersion \in Nat \ {0}, Fiches \subseteq Carnet!Contenu
    PROVE  SortSpec => []TypesOK
<1>1. SortSpec => []TypeOK
  BY PublicationImplantee, TypesGardes, PTL
<1>2. SortSpec => []AP!TypeOK
  BY AmorceImplante, AP!TypesGardes, PTL
<1>3. SortSpec => []CP!TypeOK
  <2>1. Fiches \subseteq CP!Contenu
    BY DEF CP!Contenu, Carnet!Contenu
  <2>2. CP!Spec => []CP!TypeOK
    BY <2>1, CP!TypesGardes
  <2> QED
    BY <2>2, CarnetImplante, PTL
<1>4. AP!TypeOK => Amorcage!TypeOK
  BY DEF AP!TypeOK, Amorcage!TypeOK, AP!Versions, Amorcage!Versions,
         AP!ETATS_IMPORT_AMORCE, Amorcage!ETATS_IMPORT_AMORCE,
         AP!ImportEnVol, Amorcage!ImportEnVol, AP!Etapes, Amorcage!Etapes
<1>5. CP!TypeOK => Carnet!TypeOK
  BY DEF CP!TypeOK, Carnet!TypeOK, CP!Ligne, Carnet!Ligne,
         CP!Contenu, Carnet!Contenu, CP!Etapes, Carnet!Etapes,
         CP!Lu, Carnet!Lu
<1> QED
  BY <1>1, <1>2, <1>3, <1>4, <1>5, PTL DEF TypesOK

\* ingerer: what the rows say known was sent, in the runs of the three parts.
THEOREM ConnusServis ==
    ASSUME MaxVersion \in Nat \ {0}
    PROVE  SortSpec => []ConnuServi
<1>1. AP!Spec => []AP!ConnuServi
  BY AP!ConnusServis
<1>2. AP!ConnuServi => ConnuServi
  BY DEF ConnuServi, Amorcage!ConnuServi, AP!ConnuServi
<1> QED
  BY <1>1, <1>2, AmorceImplante, PTL

\* _executer: a month said imported has its document known, when every purge
\* was followed by an import that ended well.
THEOREM MoisToujoursServis ==
    ASSUME MaxVersion \in Nat \ {0}
    PROVE  SortSpec => []MoisServis
<1>1. AP!Spec => []AP!MoisServis
  BY AP!MoisToujoursServis
<1>2. AP!MoisServis => MoisServis
  BY DEF MoisServis, Amorcage!MoisServis, AP!MoisServis, Amorcage!EnVol,
         AP!EnVol, Amorcage!Repos, AP!Repos
<1> QED
  BY <1>1, <1>2, AmorceImplante, PTL

\* VERSION_DECOUPAGE: an import that downloads everything leaves no document
\* that an older release had cut.
THEOREM SansMemoireToutRepasse ==
    ASSUME MaxVersion \in Nat \ {0}
    PROVE  SortSpec => []ToutRepasseSansMemoire
<1>1. AP!Spec => []AP!ToutRepasseSansMemoire
  BY AP!SansMemoireToutRepasse
<1>2. AP!ToutRepasseSansMemoire => ToutRepasseSansMemoire
  BY DEF ToutRepasseSansMemoire, Amorcage!ToutRepasseSansMemoire,
         AP!ToutRepasseSansMemoire, Amorcage!SansAncienDecoupage,
         AP!SansAncienDecoupage
<1> QED
  BY <1>1, <1>2, AmorceImplante, PTL

\* assistant_store.publier: however saves and publications overlap, a version
\* never repeats the one before it.
THEOREM VersionsToujoursDistinctes ==
    ASSUME Fiches \subseteq Carnet!Contenu
    PROVE  SortSpec => []VersionsDistinctes
<1>1. Fiches \subseteq CP!Contenu
  BY DEF CP!Contenu, Carnet!Contenu
<1>2. CP!Spec => []CP!VersionsDistinctes
  BY <1>1, CP!VersionsToujoursDistinctes
<1>3. CP!VersionsDistinctes => VersionsDistinctes
  BY DEF VersionsDistinctes, Carnet!VersionsDistinctes, CP!VersionsDistinctes
<1> QED
  BY <1>2, <1>3, CarnetImplante, PTL

\* assistant_store.version_publiee: the version the row says published is there
\* and can be read.
THEOREM VersionsToujoursServables ==
    ASSUME Fiches \subseteq Carnet!Contenu
    PROVE  SortSpec => []VersionsServables
<1>1. Fiches \subseteq CP!Contenu
  BY DEF CP!Contenu, Carnet!Contenu
<1>2. CP!Spec => []CP!VersionsServables
  BY <1>1, CP!VersionsToujoursServables
<1>3. CP!VersionsServables => VersionsServables
  BY DEF VersionsServables, Carnet!VersionsServables, CP!VersionsServables,
         Carnet!Coherente, CP!Coherente
<1> QED
  BY <1>2, <1>3, CarnetImplante, PTL

=============================================================================
