---------------------------- MODULE MCIngestion ----------------------------
(* Small instances of Ingestion: how contents are cut.  Two versions share  *)
(* a chunk; one strategy makes nothing of the second, which is no document. *)
(* A behaviour plays one of two scenarios: the process stops, OpenRAG fails *)
(* and files are lost, but nothing is reindexed; or a collection is         *)
(* reindexed, with one job more, and OpenRAG only refuses to erase.         *)
EXTENDS Ingestion

CONSTANTS v1, v2

VARIABLE scenario  \* history: which of the two is played

mcvars == <<vars, scenario>>

MCDecoupe ==
    [d \in Decoupages |->
        CASE d = <<v1, STRATEGIE_DOCUMENT>> -> << v1 >>
          [] d = <<v2, STRATEGIE_DOCUMENT>> -> <<>>
          [] d = <<v1, "titre">>   -> <<"commun", "fin1">>
          [] d = <<v2, "titre">>   -> <<"fin2", "commun">>
          [] d = <<v1, "section">> -> <<"tout1">>
          [] d = <<v2, "section">> -> <<>>]

\* The jobs of the first scenario.
Premiers == 1 .. 2

\* Two jobs, one strategy.  Only the demands are restricted.
Etroit == /\ \A p \in Requetes : requete[p] # Repos =>
                requete[p].strategie = "titre" /\ requete[p].etape # "vider"
          /\ Len(travaux) + Attendus <= Cardinality(Premiers)

\* Every call succeeds and nothing is lost, but for the refusals to erase.
Reindexation ==
    /\ arrets' = arrets
    /\ \A j \in Numeros : tache'[j].etape = "compter" => tache'[j].succes
    /\ \A l \in lecture' : l.etat # "echec"
    /\ \A f \in Fichiers : disque[f] # Rien => disque'[f] # Rien

MCInit == Init /\ scenario \in {"arrets", "reindexation"}

MCNext == /\ Next
          /\ scenario = "arrets" => Etroit'
          /\ scenario = "reindexation" => Reindexation
          /\ UNCHANGED scenario

MCSpec == MCInit /\ [][MCNext]_mcvars

\* The fairness of Ingestion, for the jobs of the first scenario.
MCFairSpec == /\ MCSpec
              /\ \A p \in Requetes : WF_vars(Continuer(p))
              /\ \A j \in Premiers : WF_vars(Travailler(j)) /\ WF_vars(Reprendre(j))

\* TravailAboutit, where the process stops and OpenRAG fails.
TravailAboutitMalgreTout ==
    \A j \in Premiers : scenario = "arrets" /\ Cree(j) ~> Termine(j)

\* FiniVrai, where nothing is erased.
FiniVraiSansEffacer == scenario = "arrets" => FiniVrai

\* SourceServie, where nothing but an erasure fails.
SourceServieSansPanne == scenario = "reindexation" => SourceServie
=============================================================================
