\* One route at a time; calls fail, processes die, rights are set in the
\* assistant.  Two imports of an amorce, of two months.  Two functions in
\* flight on one assistant.
SPECIFICATION SortSpec
CONSTANTS
    Requetes = {p1}
    Formulaires <- TousFormulaires
    Pannes = TRUE
    Reglages = TRUE
    Mois = {1, 2}
    MaxParRun = 1
    Imports = {i1, i2}
    MaxVersion = 2
    Sources = {"s1", "s2"}
    Fiches <- DeuxFiches
    Fonctions = {f1, f2}
    MaxVersions = 2
SYMMETRY Symetrie
INVARIANTS TypesOK ServieCommeVoulu MiroirEveille ConnuServi MoisServis ToutRepasseSansMemoire VersionsDistinctes VersionsServables
PROPERTIES ReouvertureExplicite   MiroirAccorde
