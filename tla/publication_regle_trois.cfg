\* One route at a time, nothing fails: the state of the collection goes back.
SPECIFICATION MCSpec
CONSTANTS
    Requetes = {p1}
    Formulaires <- TousFormulaires
    Pannes = FALSE
    Reglages = FALSE
INVARIANTS RegleTrois
