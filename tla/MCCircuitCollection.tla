------------------------ MODULE MCCircuitCollection ------------------------
(* Small instances of CircuitCollection.  The sessions are interchangeable; *)
(* the people are not, for one of them is an administrator.  `serie` is     *)
(* history: what only holds of sessions that follow one another is asked of *)
(* them alone, in the same run as the rest.                                 *)
EXTENDS CircuitCollection, TLC

VARIABLE serie  \* no session has overlapped another, none has failed

Symetrie == Permutations(Requetes)

\* One session in flight at most, and a commit of its own only when none is.
Suivie == /\ Cardinality({p \in Requetes : requete'[p] # Repos}) <= 1
          /\ requete' = requete => AuRepos

MCInit == Init /\ serie = TRUE

\* Bound: a behaviour has a proposition or a report, which read nothing of
\* each other.
UnDepot == Aucun \in {base.proposition, base.signalement}

MCNext == /\ \/ Marche /\ serie' = (serie /\ Suivie)
             \/ \E p \in Requetes : Abandonner(p) /\ serie' = FALSE
          /\ UnDepot'

MCSpec == MCInit /\ [][MCNext]_<<vars, serie>>

\* collectif_store.changer_etat: each event "collection.etat" leaves the state
\* the one before arrived at, so that the journal tells one history.
FilContinu == [][serie' => FilRepris]_<<vars, serie>>

\* routers/collections.py:365, "la collection nait amorcee, son createur en
\* est le garant": a collection created by someone has that person for
\* guarantor, and its grid, once the two sessions of the creation are over,
\* also when the name has been used before.
NaitAvecGarant == serie => CreationEntiere
=============================================================================
