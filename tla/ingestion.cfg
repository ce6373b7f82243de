\* Stops, failures and losses over two jobs; reindexings, refused or not, over three.
SPECIFICATION MCFairSpec
CONSTANTS
    v1 = v1
    v2 = v2
    Fichiers = {"note.md", "acte.pdf"}
    Documents = {"acte.pdf"}
    Contenus = {v1, v2}
    Strategies = {"titre", "section"}
    Decoupe <- MCDecoupe
    Requetes = {p1}
    Reindexations = TRUE
    Pannes = TRUE
    Refus = {"vider"}
    MaxTravaux = 3
    MaxArrets = 2
    Rien = Rien
INVARIANTS TypeOK ComptesJustes  AnnonceUnique 
PROPERTIES TravailAboutitMalgreTout
CHECK_DEADLOCK FALSE
