\* A question is edited while a measurement asks it.
SPECIFICATION MCSpec
CONSTANTS
    Questions = {q1, q2}
    q1 = q1
    q2 = q2
    r1 = r1
    r2 = r2
    m1 = m1
    m2 = m2
    t1 = t1
    t2 = t2
    Textes = {t1, t2}
    Runs = {r1, r2}
    Mesures = {m1, m2}
    Requetes = {p1, p2}
    Corps <- MCCorps
    Pannes = TRUE
    MaxArrets = 1
    Rien = Rien
    Effacee = Effacee
INVARIANTS VerdictDuTexte
CHECK_DEADLOCK FALSE
