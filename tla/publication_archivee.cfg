\* One route at a time, nothing fails: what archiving leaves in the assistant.
SPECIFICATION MCSpec
CONSTANTS
    Requetes = {p1}
    Formulaires <- TousFormulaires
    Pannes = FALSE
    Reglages = FALSE
INVARIANTS ArchiveeRetiree
