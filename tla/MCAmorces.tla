----------------------------- MODULE MCAmorces -----------------------------
(* Three parts in one run, which share no state: `scenario` says whether a  *)
(* collection is published and withdrawn, as MCPublication has it, filled   *)
(* by the imports of an amorce, or an assistant saved and published.        *)
EXTENDS MCPublication, FiniteSets, Naturals, TLC

CONSTANTS Mois, MaxParRun, Imports, MaxVersion,
          Sources, Fiches, Fonctions, MaxVersions

VARIABLES scenario,
          memoire, paru, decoupage, amorce, couverture, connus, index, import,
          refuses, accrocs,
          ligne, consignes, versions, demandes

Amorcage == INSTANCE Amorces

Carnet == INSTANCE Assistants WITH Requetes <- Fonctions

varsAmorce == <<memoire, paru, decoupage, amorce, couverture, connus, index,
                import, refuses, accrocs>>

varsAssistant == <<ligne, consignes, versions, demandes>>

\* Bound: two imports are in flight together when all is published, under one
\* cutting of the texts, and as long as no purge was cut or left without its
\* import.
Etroit == \/ Cardinality(Amorcage!EnVol) <= 1
          \/ /\ decoupage = 1 /\ paru = Mois
             /\ accrocs \subseteq {"chevauchee"}

\* Two contents of an assistant: one source that no instruction names; both,
\* and an instruction that searches the second.
DeuxFiches == {[sources |-> {"s1"}, consignes |-> {}],
               [sources |-> {"s1", "s2"}, consignes |-> {"s2"}]}

\* An assistant whose draft is not coherent is refused by every route.
Bloque == /\ ~Carnet!Coherente(Carnet!Brouillon)
          /\ UNCHANGED varsAssistant

\* The imports are interchangeable, and the functions on an assistant too; no
\* property is a liveness one.
Symetrie == Permutations(Imports) \cup Permutations(Fonctions)

SortInit == /\ MCInit /\ Amorcage!Init /\ Carnet!Init
            /\ scenario \in {"publication", "amorce", "assistant"}
            /\ scenario # "amorce" => ~memoire /\ paru = {}

Immobile(v) == UNCHANGED <<v, scenario>>

SortNext == \/ /\ scenario = "publication"
               /\ Immobile(<<varsAmorce, varsAssistant>>)
               /\ MCNext
            \/ /\ scenario = "amorce"
               /\ Immobile(<<vars, calme, varsAssistant>>)
               /\ Amorcage!Next
               /\ Etroit'
            \/ /\ scenario = "assistant"
               /\ Immobile(<<vars, calme, varsAmorce>>)
               /\ Carnet!Next \/ Bloque

SortSpec == SortInit /\
            [][SortNext]_<<vars, calme, varsAmorce, varsAssistant, scenario>>

\* The rows and the functions in flight of the three keep their shapes.
TypesOK == TypeOK /\ Amorcage!TypeOK /\ Carnet!TypeOK

\* What Amorces says of them.
ConnuServi == Amorcage!ConnuServi
MoisServis == Amorcage!MoisServis
ToutRepasseSansMemoire == Amorcage!ToutRepasseSansMemoire

\* What Assistants says of its versions.
VersionsDistinctes == Carnet!VersionsDistinctes
VersionsServables == Carnet!VersionsServables
=============================================================================
