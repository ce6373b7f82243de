\* The first pass after one that was cut short: the document that replaces its
\* original is not read again.
SPECIFICATION Spec
CONSTANTS
    Docs = {d1, d2}
    Contenus = {x, y}
    Irrecevables = {}
    Illisibles = {}
    Defaillances = {"coupure"}
    MaxVersion = 2
    MaxPasses = 1
    Aucun = Aucun
SYMMETRY Symetrie
INVARIANT Relais
