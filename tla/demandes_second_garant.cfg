\* Two people ask at once to be the guarantor of a demande.
SPECIFICATION Spec
CONSTANTS
    Dem = {d1}
    Personnes = {x1, x2}
    Collections = {c1}
    Requetes = {p1, p2}
    Roles = {"soutien", "garant"}
    Seuil = 2
    Aucun = Aucun
INVARIANTS UnSeulGarant
