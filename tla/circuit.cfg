\* Two sessions in flight, which may fail; a proposition and a report.
SPECIFICATION MCSpec
CONSTANTS
    Personnes = {x1, x2}
    Admins = {x1}
    Requetes = {p1, p2}
    Depots = {"proposition", "signalement"}
    Pannes = TRUE
    Aucun = Aucun
SYMMETRY Symetrie
INVARIANTS TypeOK CompteRelectures FilAJour NaitAvecGarant
PROPERTIES FilContinu
