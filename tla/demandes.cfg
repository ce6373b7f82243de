\* One demande: two people who support it, one function at a time; or two
\* store functions in flight.
SPECIFICATION MCSpec
CONSTANTS
    Dem = {d1}
    Personnes = {x1, x2}
    Collections = {c1}
    Requetes = {p1, p2}
    Roles = {"soutien", "garant"}
    Seuil = 2
    Aucun = Aucun
INVARIANTS TypeOK ContactEfface AConfirmerDatee UnSeulGarantEnSerie
PROPERTIES ChangementTrace CyclePromisEnSerie JournalFideleEnSerie ConfirmationAboutit
