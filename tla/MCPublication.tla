--------------------------- MODULE MCPublication ---------------------------
(* Small instances of Publication: which bodies a publication is sent with. *)
(* `calme` is history: what only holds when nothing fails is asked of the   *)
(* behaviours where nothing has failed, in the same run as the rest.        *)
EXTENDS Publication

VARIABLE calme  \* no call has failed, nobody has set rights in the assistant

\* Every body the form can send.
TousFormulaires == Formulaire

MCInit == Init /\ calme = TRUE

MCNext == \/ Marche /\ UNCHANGED calme
          \/ (ReglerAilleurs \/ Panne) /\ calme' = FALSE

MCSpec == MCInit /\ [][MCNext]_<<vars, calme>>

\* routers/publication.py, publish_collection: the local state first, "then
\* best-effort-sync to OWUI".  When nothing fails and every route is over, a
\* collection that the tables say is served has its fiche in the assistant,
\* for exactly those its row says: no withdrawal, archiving, draft or
\* resynchronisation leaves the row served and the fiche gone or other.
ServieCommeVoulu == calme => FicheConforme

\* assistant_store.assurer_miroir, over the routes that call it and those
\* that do not: once every route is over, a published collection has its
\* mirror assistant awake, be it the first publication, one after a
\* withdrawal, an archiving or a purge.
MiroirEveille == calme => MiroirPret

\* routers/publication.py, unarchive: "Publication state is NOT
\* auto-restored".  Whatever a collection went through, it becomes published
\* by the write of a publication and by nothing else.
ReouvertureExplicite == [][calme' => RouverteParPublication]_<<vars, calme>>
=============================================================================
