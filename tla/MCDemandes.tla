----------------------------- MODULE MCDemandes -----------------------------
(* Small instances of Demandes.  `scenario` says whether the store functions *)
(* follow one another, or overlap; it never changes.                        *)
EXTENDS Demandes, TLC

VARIABLE scenario

EnVolAuPlus(n) == Cardinality({p \in Requetes : requete[p] # Repos}) <= n

\* One function in flight at most, and a commit of its own only when none is.
Suivie == /\ EnVolAuPlus(1)'
          /\ requete' = requete => EnVolAuPlus(0) \/ \E d \in Dem : DelaiPasse(d)

\* Bound: where functions overlap nobody supports the demande (the theorems of
\* Demandes_proofs have no such bound).
SansSoutien == soutien' = soutien /\ \A p \in Requetes : requete'[p].etape # "poser"

MCInit == Init /\ scenario \in {"serie", "chevauchees"}

MCNext == /\ Next
          /\ CASE scenario = "serie"       -> Suivie
               [] scenario = "chevauchees" -> SansSoutien
          /\ UNCHANGED scenario

MCSpec == MCInit /\ [][MCNext]_<<vars, scenario>> /\ Fairness

\* The functions that follow one another, seen through the promise; the
\* others are seen as a demande that never comes.
EnSerie(vu, sinon) == IF scenario = "serie" THEN vu ELSE sinon

Promis == INSTANCE CycleDemande WITH
            etat     <- [d \in Dem |-> EnSerie(demande[d].etat, "absente")],
            appui    <- [d \in Dem |-> EnSerie(AtteintLeChantier(soutien[d]), FALSE)],
            courriel <- [d \in Dem |-> EnSerie(demande[d].contact, FALSE)]

\* One request at a time, the tables implement the life cycle that
\* docs/collectif.md promises: every commit is one of its steps or none.
CyclePromisEnSerie == Promis!Spec

\* docs/collectif.md: "409 si second garant", one request at a time.
UnSeulGarantEnSerie == scenario = "serie" => UnSeulGarant

\* The journal tells the life of a demande without a gap, one request at a
\* time: each event goes from the state the row had to the one it gets.
JournalFideleEnSerie == [][scenario = "serie" => EvenementJuste]_<<vars, scenario>>
=============================================================================
