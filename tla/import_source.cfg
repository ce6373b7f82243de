\* No pass is cut short on its way, and everything else goes wrong.
SPECIFICATION Spec
CONSTANTS
    Docs = {d1, d2}
    Contenus = {x, y, z}
    Irrecevables = {z}
    Illisibles = {}
    Defaillances = {"vide", "droits", "coupure", "refus", "retard", "qualites", "exception", "arret"}
    MaxVersion = 2
    MaxPasses = 0
    Aucun = Aucun
SYMMETRY Symetrie
INVARIANTS TypeOK RienNeSePerd 
