\* Two functions in flight on one assistant, of two sources and two contents.
SPECIFICATION Spec
CONSTANTS
    Sources = {"s1", "s2"}
    Fiches <- DeuxFiches
    Requetes = {p1, p2}
    MaxVersions = 2
SYMMETRY Symetrie
INVARIANTS PublieeRepond
\* A draft left incoherent stops every route: the assistant may be stuck.
CHECK_DEADLOCK FALSE
