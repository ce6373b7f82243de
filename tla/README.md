# Mes collections: a verification development

TLA+ modules for the parts of *Mes collections* (the backend under `src/myrag/app`) whose correctness depends on
the order of things: transactions that overlap, calls to other services that fail, a process that stops. TLC checks
each module on small instances; TLAPS proves the theorems listed below for every value of the constants.

1. [The system](#the-system): components, state, operations, interactions, what is hard, what must hold
2. [Modules](#modules): how each one corresponds to the code
3. [Runs](#runs): what each one checks, its bounds, its fairness
4. [Disagreements](#disagreements-with-the-documents) found between the code and what is written about it
5. [Proofs](#proofs)
6. [What is not modelled](#what-is-not-modelled) and [the plan](#plan)

## The system

One FastAPI process (the chart deploys one, with the `Recreate` strategy), one asyncio event loop, PostgreSQL
through SQLAlchemy async sessions, and three services reached by HTTP: OpenRAG (indexes and answers), Open WebUI
("le socle", the assistant people use) and the bell of the common bar. There is no scheduler and no queue:
what must happen later happens in an asyncio task of the process, or when some request reads.

| component | state | operations | interacts with |
|---|---|---|---|
| **demandes** (`collectif_store`, `etats`, `routers/demandes`) | tables demande, soutien | create, support, withdraw, confirm, close, expire at reading | a collection that is published asks the author; purge unlinks |
| **circuit of a collection** (`collectif_store`, `etats`, `routers/collectif`) | `etat_collab`, guarantor, grid, reviewers, propositions, reports | change of state, grid, review, decide, handle | its state allows or forbids a publication to all; demandes |
| **journal, subscriptions, bell** (`journal`, `relais`) | events, subscribers | written in the transaction of the change; relayed after it, best effort | demandes, circuit, ingestion |
| **publication** (`routers/publication`, `fiche_socle`, `owui_client`) | row `publications`, the fiche in Open WebUI | publish, withdraw, archive, unarchive, resynchronise | circuit, mirror assistant, Open WebUI |
| **assistants** (`assistant_store`, `migration_assistants`) | assistants, drafts, numbered versions; one mirror per collection | edit, publish, mirror follows its collection, assured at start | publication |
| **collections** (`collection_store`, `access`, `keycloak_client`) | the row of each collection, its groups | create, archive, purge, rights | everything: purge erases what the others keep |
| **ingestion** (`routers/ingest`, `job_store`, `indexeur`, `openrag_client`) | source files, their rows, jobs, tasks in memory | deposit, background sending, resume at start, reindex | OpenRAG, journal |
| **sources Résana, Fichiers** (`sources_resana`, `synchro_profil`, …) | the import configuration (one JSON: documents, identities, discarded ones), one task per collection | start, pass, verify, withdraw | ingestion's indexer |
| **amorces** | one row per amorce, the coverage, the files of the collection | import (route or command line), purge | circuit, OpenRAG, an open-data source |
| **generation, measurement, questions** (`generation_store`, `mesure_store`, `questions_store`, `execution`) | runs, results, verdicts of the questions; one task per run | launch, run, delete, edit a question, mark as interrupted at start | OpenRAG, a model |
| **feedback synchronisation** | feedbacks, a watermark | periodic import | Open WebUI |
| **search harness, MCP, compatible APIs** | none (plans, ranks and passages of one question) | plan, search, fuse, write | OpenRAG, rights |
| **mutual aid** | calls, answers, links | publish, answer, link | demandes |
| **rate limits** | a count per person and minute, in memory | count | routes |

What is hard, and tested little because a test runs one request at a time:

- **Overlapping transactions.** Every store function opens its own session, reads, decides and commits. READ
  COMMITTED takes no lock on a read, and no function asks for one: what was read may be stale at the commit. An UPDATE
  names only the columns whose value changed.
- **Several commits, several services.** A route commits, calls Open WebUI, commits again; any of these may fail.
- **Stops.** A task disappears with the process. The start runs migrations and resumes the jobs.
- **No clock.** The expiry of a demande is computed by whoever reads.
- **Long legal sequences.** Publish, draft, archive, unarchive, purge and create again under the same name.

What makes each component correct is stated as the properties of its module; every hazard is in `PROJECT.json` with the
line where it bites and the properties that watch over it, or the reason why none does yet.

## Modules

| module | code | is |
|---|---|---|
| `CycleDemande` | what `docs/collectif.md` and `etats.py` promise of a demande | abstract specification |
| `Demandes` | `collectif_store` (demandes), `etats` | detailed specification, refines `CycleDemande` |
| `CircuitCollection` | `collectif_store` (collections, grid, propositions, reports), `etats` | specification |
| `Publication` | `routers/publication`, `fiche_socle`, `owui_client`, mirror part of `assistant_store` | specification |
| `Assistants` | `assistant_store`, `contrat`, `assistant_recherche` (who is served what) | specification |
| `Ingestion` | `routers/ingest`, `job_store`, `indexeur`, parts of `openrag_client`, start in `main` | specification |
| `ImportSource` | `routers/sources_resana`, `synchro_profil`, `resana_store`, `indexeur` | specification |
| `Amorces` | `routers/amorces`, `services/amorces` | specification |
| `Qualite` | `questions_store`, `generation_store`, `mesure_store`, the two `execution`, their routes, start in `main` | specification |
| `MC…` | — | finite instances for TLC; `MCAmorces` runs three components in one run |
| `…_proofs`, one for each of the eight specifications | — | theorems about the module of that name, and its MC module |

Definitions keep the names of the source (in TLA+ case: `changer_etat` is `ChangerEtat`). A definition under a comment
"Plausible bug, in no specification" is a variant of the next action with a mistake a maintainer might make; no
specification uses it. Put in the place of the action, it must break the property it is paired with in `PROJECT.json`:
this is how each property is known to be able to fail.

Variables that are no state of the program are commented as history. `depuis` (`ImportSource`), `refuses` and `accrocs`
(`Amorces`) remember what the past of a behaviour was; in the MC modules `serie` says whether requests have followed one
another, `calme` whether nothing has failed, and `sujet` or `scenario`, chosen once, what a behaviour is about.

**Demandes.** `demande` is the table (state, whether an e-mail is kept, the date of the request to the author against
the clock, satisfaction, collection, doublon), `soutien` the role of each person, `journal` the last "demande.etat"
event, `requete` what each store function in flight has read and wants to write. A store function is two actions: one
reads, checks and computes the row it wants; `Valider` commits the columns it changed with their events. `soutenir`
has a third in the middle, because it flushes the supporter, which takes the row lock (`Verrou`), and only then
recounts. `DelaiPasse` is the clock. `_echeances`, which every listing runs, is one action on all the demandes whose
delay is over.

**CircuitCollection.** `base` is one record with the columns of the four rows (collection, grid, proposition, report);
`Session` computes which columns a function changes and whether each row is to be inserted or updated, `Valider` commits
them, and `Conflit` is the integrity error of two insertions or of the update of a row that is gone. `fil` is the
last "collection.etat" of the journal. `CreerCollection` is followed by `Initialiser`, a second session, as in
`routers/collections.py`. `Abandonner` loses a session (`Pannes`) or ends one that conflicts.

**Publication.** A route is a process that goes through steps (`etape`): each database session and each HTTP call is an
action. `col`, `pub` and `miroir` are rows; `socle` is who reads the model in Open WebUI. `MiroirLire`/`MiroirEcrire` are
the two sessions of `assurer_miroir`, shared by the routes that call it and by the start of the process;
`VoulueLire`, `ExistanteLire`, `Poser` are `synchroniser_fiche` and `upsert_model`. `ReveillerMiroir` is the route that
unarchives an assistant: it looks at the assistant and not at its collection, so the mirror of a withdrawn one may wake.
`ReglerAilleurs` is somebody who sets the rights in Open WebUI itself. Abstractions: a visibility is "all" or "group" (a
group list that is empty or unknown poses a fiche for nobody or leaves the old one, and is not told apart);
`changer_etat` is one toggle of "verified"; the other channels of a publication are columns that nothing modelled here reads.

**Assistants.** One assistant. Its draft is in two tables: `ligne` has the columns of the assistant row (sources, state,
published version), `consignes` the rows of its instructions, each of which may search in one source. `versions` are the
numbered fiches, `demandes` what each function in flight has read. `Enregistrer` → `Lire` → `Ecrire` is the route of a
save, which reads the draft before the session that deletes and inserts every instruction and updates only the columns
it finds changed; `Publier` → `LireLigne` → `LireConsignes` → `LireDerniere` → `Figer` is a publication; `Deriver` is the derivation
of a mirror, `Archiver` the two routes that archive and unarchive, `Suivre` a mirror that sleeps and wakes with its
collection, `Abandonner` a function that is refused or fails. A content is a pair of
sets of sources: what a fiche lists and what its instructions name (`Coherente` is the validation of `contrat`). Left out:
the purge, the channels, the YAML file, the rights, the search itself.

**Ingestion.** One collection. `disque` and `sources` are the kept files and their rows, `travaux` the table of jobs in
order of creation, `tache` the background task of each job, `index` what is searchable, `lecture` the documents OpenRAG
reads. Every `await` that other coroutines can see is a step; a job's task sends one chunk, counts it, and so on. `Arreter`
stops the process and starts it again: tasks and routes disappear, the jobs in progress are selected, and `Reprendre`
takes them one after the other *from the source as it is then*. Assumptions on OpenRAG, read from the comments and tests
of the callers: a chunk already present is answered 409 and nothing changes; a document already searchable is answered
409 and one still being read is accepted again. The database is taken to answer: a task that loses it dies and its job
waits for the next start. The selection of the interrupted jobs is taken to be over before the first deposit of the new
process, which `main.py` makes likely and does not enforce (listed as a hazard). How a content is cut is a constant. `Refus` says
which calls of a reindexing OpenRAG may refuse: `SourceServie` holds when the erasure is (`"vider"`), and not when the
creation that follows it is (`"recreer"`, or an erasure whose answer is lost): nothing is served until somebody
reindexes again.

**ImportSource.** A collection fed from a folder of Résana, or of Fichiers, by the same engine. `espace` and `presents` are the
folder, which people change at any time; `cfg` is the one JSON the import keeps, `sources` the rows of the documents, `index` and
`lecture` what OpenRAG has and is reading, `passe` the background task with all it holds in memory. A pass lists, compares
with what is known, downloads one by one (`Telecharger`, which `Couper` ends at the first blocking error), keeps one
document per content (`Trier`), takes out old versions (`Retirer`), sends new ones (`Envoyer`), notes what was really read
(`Noter`) and writes the configuration at the very end (`Ecrire`). `Interrompre` is an exception or a stop of the process.
`depuis` counts the passes since one was cut short. A version of a document is a number the folder announces; a content is
what its fingerprint tells apart. `Defaillances` names what may go wrong; the runs exercise all but "perdue" (a task of
OpenRAG that is forgotten), "retrait" and "file" (a withdrawal or a queue that fails), and no content of theirs is `Illisibles`.

**Amorces.** One amorce. `amorce` is its row, `couverture` what the control grid says is imported, `connus` the versions of the
documents known in `source_files`, `index` what is searchable, `import` each import in flight, `memoire` whether the connector
remembers its months (the administrative courts) or sends everything each time. The route looks at the row before it marks it; the command
line does not, so imports overlap. `Paraitre` is the source, which publishes months as time goes by; `Redemarrer` stops the process, and
may start a release that cuts texts otherwise. Left out: the question bank, the reading of each data set, `--max-documents`.

**Qualite.** The reference questions of one collection (`jeu`), the runs of generation (`runs`) and the measurements (`mesures`), each
a row and a task, and the requests that edit meanwhile (`requete`). A launch looks, then looks again in another session, then
creates; a task takes its turn, works, records and ends in as many commits; one coroutine per question asks, judges, notes
its result and its verdict. The `Echouer…` are commits the database refuses, `Arreter` a stop, after which the next start marks what was
active as interrupted. A verdict is the text it was given to. Left out: personas, the choice of passages, how a verdict is reached and the
score, the import and the promotion of questions, the serving of reliable answers.

## Runs

All pass runs explore the whole state space of their instance.

| run | instance | shows |
|---|---|---|
| `demandes` | 1 demande; 2 people and a threshold of 2, functions one after the other; or 2 functions overlapping | `ContactEfface`, `AConfirmerDatee`, `ChangementTrace`, `ConfirmationAboutit`, types: what no overlap breaks. `UnSeulGarantEnSerie`, `JournalFideleEnSerie` and the refinement `CyclePromisEnSerie`: one at a time |
| `demandes_second_garant` | 2 people, 2 requests | **violated**: `UnSeulGarant` |
| `circuit` | 2 people (one administrator), 2 sessions, failures, a proposition or a report | `CompteRelectures`, `FilAJour`, types; one at a time `NaitAvecGarant`, `FilContinu` |
| `publication_et_amorces` | one route, every form, failures and stops between any two steps, rights set in Open WebUI | `OuvertureControlee`, `DroitsReconduits`, `MiroirAccorde`; as long as nothing failed `ServieCommeVoulu`, `MiroirEveille`, `ReouvertureExplicite` |
| ″ | 2 imports of an amorce of 2 months, one month per import, 2 cuttings | `ConnuServi`, `MoisServis`, `ToutRepasseSansMemoire` |
| ″ | 2 functions on an assistant of 2 sources, 2 contents, 2 versions | `VersionsDistinctes`, `VersionsServables` |
| `publication_regle_trois`, `publication_archivee` | one route, no failure | **violated**: `RegleTrois`, `ArchiveeRetiree` |
| `assistant_publie` | 2 functions on an assistant | **violated**: `PublieeRepond` |
| `ingestion` | a text and a document, 2 versions of the text that share a chunk; 2 jobs, 2 stops, failures, fairness; or 3 jobs, 2 ways of cutting one of which makes nothing of the second version, erasing may be refused | `ComptesJustes`, `AnnonceUnique`, types; the first `FiniVraiSansEffacer`, `TravailAboutitMalgreTout`; the second `SourceServieSansPanne` |
| `import_source` | 2 documents, 3 contents (one not indexable), 2 versions, every other failure, any number of whole passes | `RienNeSePerd`, `SansFantome`, types |
| `import_relais` | 2 documents, 2 contents, the first pass after one cut short | **violated**: `Relais` |
| `qualite` | 2 questions and one of four subjects: two edits of one; two launches; a run then reviews; a measurement then edits; refused commits, 1 stop, fairness | `MesureEntiere`, `VerdictJustifie`, `PairesRattachees`, `TravailAboutit`, types; one at a time `FiableVoulue` |
| `qualite_verdict` | the same | **violated**: `VerdictDuTexte` |

*Why these bounds.* Two requests are enough to interleave any two functions; nothing in the code involves three. The demandes
of the tables do not interact except by `doublon_de`, which is only stored. People support a demande only in the first scenario of `demandes`
(`SansSoutien`); the proofs have no such bound. A threshold of two tells "enough supporters" from "a guarantor". A proposition and
a report never read each other, so a behaviour of `circuit` has one or the other (`UnDepot`). Two stops are needed to stop a
resumption; two versions that share a chunk tell "one whole version" from "enough chunks"; three jobs are a deposit, and a
reindexing that overlaps it. In `ImportSource` two documents give an original and its duplicate, two versions a change of either,
and the third content one that is refused by its format. Two months and one per import make the second import take up
where the first stopped; overlapping imports are explored with every month published, one cutting and no purge cut
(`Etroit`). Two contents of an assistant differ in what its instructions may search, the only thing a fiche can contradict; two
versions tell "the last" from "the one published". The subjects of `qualite` (`Borne`) keep apart what reads nothing
of each other. The bounds that cap a counter are the constants `MaxTravaux`, `MaxArrets`, `MaxVersion`, `MaxPasses`, `MaxVersions`;
`MaxPasses = 0` in `import_source` ends a behaviour where a pass is cut short, which is the case `import_relais` refutes.

*With or without overlap.* The properties named `…EnSerie`, and those stated under `serie` or `calme`, hold one request at a time
or without failure, and some fail otherwise: `UnSeulGarant` (two supporters at once), `NaitAvecGarant` (a stop between the two sessions of a
creation, a purge under the second), `FilContinu` (a state changed between read and commit), `FiableVoulue` (a question rejected
by one edit while another makes it reliable: each writes its own columns), `ReouvertureExplicite` (a stop between the two commits of an archiving leaves the row
published, and unarchiving opens it). They are kept because they are what the code promises in the situation its tests cover. What
is stated without such a condition is what the code guarantees under overlap and failures.

*Deadlock* is checked everywhere but in `ingestion`, `qualite`, `qualite_verdict` (a behaviour may really end: every job created, every task over,
nothing left to do) and `assistant_publie` (an incoherent draft makes every route refuse: the assistant is really stuck; `MCAmorces` states it as
the action `Bloque`).

*Fairness.* `demandes` assumes that the delay passes, that people keep reading (every listing runs the sweep), and that a session that began
is committed or fails; nobody is assumed to answer. The fairness of a sweep and of its commit is strong: another function may
hold the row each time it could go on, and does not for ever. `ingestion` assumes that the event loop runs every coroutine
that is ready and that every HTTP call ends, as its timeout makes it (120 s for a chunk, 1800 s for following a document); neither a
deposit, nor a stop, nor the end of a reading is assumed. `qualite` assumes the event loop, and that the delays the code sets
(`RenoncerRun`, `Depasser`) elapse; the model and OpenRAG may never answer.

## Disagreements with the documents

- **Two guarantors** (`demandes_second_garant`). `docs/collectif.md:55` promises "409 si second garant". `soutenir` looks for
  one (`collectif_store.py:279`) and commits later; two requests that overlap both become guarantor.
- **Open to all, no longer verified** (`publication_regle_trois`). `routers/publication.py:130`: a collection that is not
  "publiée à tous" is never served outside its group. `changer_etat` may go back from `publiee_tous` and leaves the publication
  and the fiche as they are.
- **Archived, still offered** (`publication_archivee`). `routers/publication.py:324`: "Archivée = retirée". The fiche is withdrawn
  only if the row says it is served, and a draft saved over a served collection has overwritten the row.
- **A content out of the index** (`import_relais`). `docs/resana.md:216`: when an original changes its duplicate is read again,
  "rien ne sort de l'index". A pass cut short keeps the note that discards the duplicate and has already replaced the original.
- **The verdict of another text** (`qualite_verdict`). `questions_store.py:9`: editing a question erases its verdict. A
  measurement in progress notes, after the edit, the verdict it reached on the old text.
- **An assistant that answers nobody** (`assistant_publie`). Two saves that overlap leave a draft that mixes both: the sources of one with
  the instructions of the other. Every route reads the draft first and refuses an incoherent one, the save that would repair it
  included; `assistant_recherche.py:55` gives readers the published version, and they no longer get it.

Seen while modelling, without a run of their own:

- `ingestion.py:38-39` (amorces) says that a known document goes through again at the next import when the cutting changes; the
  connector with a memory does not list its months again (`ToutRepasseSansMemoire` is about the other one).
- `docs/resana.md:259` says of a partial pass "Rien n'est retiré."; the old file of a known document that was received and rejected is.
- `docs/qualite.md:54` says two identical questions do not coexist; only the creation by hand enforces it.
- An amorce: a purge whose import fails forgets the months until another purge; two absent months at the head of the list keep the
  others out; a stop leaves the row "en_cours" and the route answers 409 from then on; a refused chunk is never sent again.
- Runs and measurements: two launches at once are both accepted; a failed commit at the launch or at the end leaves the row active
  until the next start; a generation may start during a measurement; the promotion of a feedback is two commits, and a stop
  between them makes the retry refused.
- An assistant: an incoherent draft may be published; the published version may go back to an earlier one when three publications overlap; a save may
  land on an assistant archived meanwhile. Both decisions on a proposition are recorded when they come at once.

## Proofs

Each module of proofs states its theorems for any value of the constants: any people, collections, demandes, files, contents, and
however many functions are in flight (one route at a time where the table says so). Every invariant a passing run checks is stated by
a theorem; so is every action property and the refinement. Liveness is not.

| module | theorem | states |
|---|---|---|
| `Demandes_proofs` | `TypesGardes` | `Spec => []TypeOK` |
| | `ContactsEffaces` | `Spec => []ContactEfface`: a demande that is over keeps no e-mail |
| | `AttentesDatees` | `Spec => []AConfirmerDatee`: a demande that waits has the date its expiry is computed from |
| | `ChangementsTraces` | `Spec => ChangementTrace`: a commit that changes a state writes its event |
| | `UnSeulGarantUnParUn` | `MCSpec => []UnSeulGarantEnSerie`: functions that follow one another leave one guarantor |
| | `JournalFideleUnParUn` | `MCSpec => JournalFideleEnSerie`: then an event goes from the state the row had |
| | `CyclePromisUnParUn` | `MCSpec => CyclePromisEnSerie`: then the tables implement `CycleDemande`, step by step |
| `CircuitCollection_proofs` | `TypesGardes` | `Spec => []TypeOK` |
| | `JournalAJour` | `Spec => []FilAJour`: the last event of the journal says the state the collection is in |
| | `RelecturesComptees` | `Spec => []CompteRelectures`: the number of reviews is that of the reviewers kept |
| | `NeeAvecGarant` | `SpecSuivie => []NaitAvecGarant`: one session at a time, a collection is born with its guarantor and its grid |
| | `FilToujoursContinu` | `SpecSuivie => FilContinu`: then each event continues the one before |
| `Publication_proofs` | `TypesGardes` | `Spec => []TypeOK` |
| | `OuvertureToujoursControlee` | `MCSpec => OuvertureControlee`: a step of ours opens the fiche to all only while the collection is verified |
| | `DroitsToujoursReconduits` | `MCSpec => DroitsReconduits`: what a resynchronisation poses has the rights the fiche had |
| | `MiroirToujoursAccorde` | `MCSpec => MiroirAccorde`: a call that ends well leaves the mirror awake exactly when the collection is published |
| | `ServieToujours`, `MiroirToujoursEveille`, `ReouvertureToujoursExplicite` | as long as nothing failed `ServieCommeVoulu`, `MiroirEveille`, `ReouvertureExplicite` |
| | `TypesEnsemble`, `ConnusServis`, `MoisToujoursServis`, `SansMemoireToutRepasse`, `VersionsToujoursDistinctes`, `VersionsToujoursServables` | `SortSpec` of `MCAmorces`, the three parts in one run, keeps the properties of the other two |
| `Amorces_proofs` | `TypesGardes` | `Spec => []TypeOK` |
| | `ConnusServis` | `Spec => []ConnuServi`: what the rows say known was sent, unless a purge met another import or was cut |
| | `MoisToujoursServis` | `Spec => []MoisServis`: a month said imported has its document known |
| | `SansMemoireToutRepasse` | `Spec => []ToutRepasseSansMemoire`: an import that downloads everything leaves no older cutting |
| `Assistants_proofs` | `TypesGardes` | `Spec => []TypeOK` |
| | `VersionsToujoursDistinctes` | `Spec => []VersionsDistinctes`: a version never repeats the one before it |
| | `VersionsToujoursServables` | `Spec => []VersionsServables`: the published version exists and can be read |
| `Ingestion_proofs` | `TypesGardes` | `Spec => []TypeOK` |
| | `ComptesToujoursJustes` | `Spec => []ComptesJustes`: a job counts right and is "done" exactly when nothing failed |
| | `AnnoncesUniques` | `Spec => []AnnonceUnique`: its end is announced once at most |
| | `FinisVrais` | `Spec /\ [][~Effacer]_vars => []FiniVrai`: what is done is searchable, in any behaviour without an erasure |
| | `FinisVraisSansEffacer` | `SpecScenarios => []FiniVraiSansEffacer`: the same, of the first scenario of the run |
| | `SourcesServiesSansPanne` | `SpecScenarios => []SourceServieSansPanne`: in the second, one route at a time, what is quiet is served whole |
| `ImportSource_proofs` | `TypesGardes` | `Spec => []TypeOK` |
| | `RienPerdu` | `Spec => []RienNeSePerd`: before a pass is cut short, a readable document is searchable or will be downloaded again |
| | `SansFantomes` | `Spec => []SansFantome`: nothing that is not kept is served, where removals succeed |
| `Qualite_proofs` | `TypesGardes` | `Spec => []TypeOK` |
| | `MesuresEntieres` | `Spec => []MesureEntiere`: a measurement that is over keeps every answer |
| | `VerdictsJustifies` | `Spec => []VerdictJustifie`: a verdict comes from a measurement that kept the answer |
| | `PairesToujoursRattachees` | `Spec => []PairesRattachees`: no question outlives its run |
| | `FiablesToujoursVoulues` | `SpecSuivie => []FiableVoulue`: one request at a time, a reliable question was validated |

*Which specification.* Most theorems are about `Spec`. The properties an MC module states under its history (`serie`, `scenario`, `calme`) are
proved of the specification that has that history: `MCSpec`, or, where `MCSpec` also bounds what people ask, the same without
its bounds (`SpecSuivie` in `CircuitCollection_proofs` and `Qualite_proofs`, `SpecScenarios` in `Ingestion_proofs`). A lemma `SansBorne` shows that
`MCSpec` implies it, so the theorem covers what the run explores and more.

*Assumptions.* On the constants, named in the modules; each says what a value means, or that what is in flight is finite.
`Demandes`: NULL is no value (`AucunAssumption`, `PoseAssumption`), a threshold is at least 1, `"garant"` is a role, people and requests
are finitely many. `CircuitCollection`: requests are finitely many. `Qualite`: so are questions and requests; NULL and "erased" are no
text, no run and no row; what a form sends has its shape (`CorpsAssumption`). `Ingestion`: files and routes are finitely many, cutting gives
chunks (`DecoupeAssumption`), OpenRAG refuses only what a reindexing calls. `ImportSource`: versions start at 1, no document is NULL.
As hypotheses of the theorems: `MaxVersion` is at least 1 (`Amorces`); the fiches that are sent are pairs of sets of sources
(`Assistants`); **one route at a time** (`UneRoute`: `Publication`, `SourcesServiesSansPanne`), which is also the bound of the runs and which
nothing in the code enforces; only the erasure may be refused (`SourcesServiesSansPanne`: the property fails otherwise, see `Refus` above); removals
succeed and OpenRAG forgets no task (`SansFantomes`). `RienPerdu` needs none of that: it holds with "perdue", "retrait", "file" and contents
that cannot be read, which the run leaves out.

None of the properties is inductive. What each proof rests on, and why:

*Demandes, overlapping.* What a commit does depends on rows its request read earlier, and the columns it does
not write keep what others wrote meanwhile: a demande could be closed by one request while another, with an older row,
writes something else. The invariant therefore says what is known of a request in flight: `Formes` (it wants the rows it
read and announces only those) and `Prudence`, which bounds, for each row, what may have become of it since (`actuel`)
by what was read (`lu`) and is wanted (`voulu`): an e-mail is never wanted back, a row that gets over is wanted without one, a
date is erased only with the state it belongs to. `Surete`, the conjunction with the two properties, is preserved by each action
(one lemma per action) and by the commit (`SureteValider`), which is where the columns of two requests meet.

*Demandes, one at a time.* `Suite` says that the only request in flight still has the rows it read (`ALaPage`; the clock alone moves under it) and what
it makes of them: a supporter it adds was checked against the supporters there are, and a demande starts exactly when the conditions
are met with that supporter. `AuxConditions` is the other half, about the rows at rest: an open demande does not meet the conditions
yet. The refinement maps a demande to its row, and a commit to one step of `CycleDemande`: creation (`CreationPromise`), withdrawal
(`RetraitPromis`), the others (`CommitPromis`); what moves no row is a stutter (`MemeVue`).

*CircuitCollection.* A commit writes the columns its session changed, and nothing of what it read need still be true. What holds whatever
it read is about which columns are written together: `Fideles` says that a session that writes the state of the collection writes
the event that announces it, and that one which writes the reviewers writes their number, equal to their count. `Inv` is types, the
two properties and `Fideles`; each function builds a session that satisfies it (one lemma per function), and `Valider` needs no more.
One at a time, `Suivi` adds that the session in flight has read the row as it is (`Relue`), that a free name keeps nothing of the
collection that had it (`Neuve`), and where a creation in two sessions stands (`Entamee`: created, and the session that will give it
its guarantor is the one in flight; `Entiere`: it has it).

*Publication.* `Sure` is what a route in flight may rely on: the step it has reached is one of its function (`Prevue`), what it knew of the
collection still holds (`Fondee`), what it has written of the row is there (`Ecrite`), and what it will do of the mirror and of the
fiche is what the row says (`Juste`). `Accordes` then says that, while nothing has failed, the services agree with the row, but for a route that has not
come to the step which makes them agree. The joint run is three components with no variable in common: it implements each of
them (`PublicationImplantee`, `AmorceImplante`, `CarnetImplante`), and their theorems carry over through `INSTANCE`.

*Amorces.* What an import will note depends on what it has sent, and a purge erases under it. `Envoyes` says that what an import has
sent is searchable as long as no purge has met another import, because then a purge in flight is alone (`Seules`); `Faits` that
the months it will say done are known, or will be with those it sends; `Repasses` that an import that downloads everything has sent, or
will, each document of an older cutting.

*Assistants.* A publication reads the row, the instructions and the last version one after the other, and freezes what it read while others
save and publish. `Prets` says what it carries: a fiche it has validated, and the number of a version that exists. That is enough
because `Figer` commits only if that version is still the last one (two versions of one number are a conflict), and compares its
content, which nobody rewrites. `Inv` adds that every version kept can be read.

*Ingestion.* `Suivi` says of a job what its task has left to count, so that the sum never passes the total; it is preserved only if no two
tasks ever run one job, which is `Lancables` (what a route is about to launch is new) and `Reprenables` (what is to be resumed has no
task). `Place` counts the jobs still to be created (`Attente`, whose cardinality each step of a route lowers or moves) to keep the rows within the model's
bound. For `FiniVrai`, `Indexe` says that as long as nothing failed, what is searchable and what the task has left hold one version of
the file. An erasure breaks it, so it is proved of behaviours without one. For `SourceServie`, which is about erasures, `InvServie`
follows only the job that answers for a file (`Repondant`: the last one, of a file no reindexing still has to take in): the tasks of the
others may well send what was erased, and count as sent what is no longer there.

*ImportSource.* Both properties are about the notes at rest, and a pass works from those it had when it began while the folder
changes. `Sus` says what a set of notes is worth (the content of the version it gives, unless the document has changed since);
`Savoir` follows it from the configuration to the pass, through what was read (`Lue`) and sorted (`Triee`), and back. `Portes` is the converse,
that OpenRAG holds or is reading nothing else.

*Qualite.* `Entiere` says how far each question of a measurement is and what is kept of it; `Prevoyante` what the next commit of a request may write
(no verdict but the one it read); `Lancables` that nothing is launched twice; `Fondee` that a verdict has its answer. One request at a time,
`Fiables` says that the modification in flight wants a row that is sane as a whole, and that the row still has the three columns it read:
the tasks that write meanwhile write others.

The invariants of the properties stated under a history, and those of `Publication`, `Amorces`, `ImportSource` and `Ingestion`, were given to TLC on
the instances of the runs before they were proved (from 27 086 states for `Publication` to 11.8 million for `Amorces`).

*Only model-checked.* Liveness, which needs fairness and ENABLED, out of the prover's reach: `ConfirmationAboutit`, `TravailAboutitMalgreTout`,
`TravailAboutit`. The properties that runs refute have no theorem. Two publication routes, or two reindexings, that overlap are neither checked
nor proved.

## What is not modelled

Listed with its reason for each component in `PROJECT.json`. In short: subscriptions and the relay to the bell (sent after the
commit, may be lost, changes nothing), access rights and Keycloak, the sources Legifrance and Drive, feedback and its
synchronisation, the search harness, the mutual aid network, rate limits, the frontend. In the modelled components: the texts and
their edition, the other channels of a publication and the list of its groups, conversion to PDF, the purge of a collection under running tasks,
two routes of `Publication` in flight (the model allows it, the runs do not: the code excludes little there), two imports of a
source that both find the collection free, the launch of a measurement in more detail than its four looks.

The map covers about a tenth of the backend. The rest is, for the greater part, code where the order of things matters little: HTTP clients, readers
of data sets, prompts, wording, screens' read routes, migrations.

## Plan

In order of importance, each with properties aimed at its hazards:

1. Composition on the state of a collection: `Publication` with `CircuitCollection`, and the purge with `Demandes` and `Ingestion`.
2. `Ingestion`: the selection of interrupted jobs as a step, two routes in flight, purge under running tasks.
3. `Droits`: who may read or manage a collection, through groups, mirrors and purge.
4. `Harnais`: fusion of ranks, reliable passages and perimeter as pure operators, against reference definitions.
5. The synchronisation of feedbacks and its watermark; rate limits and their window.

Theorems, in the order of what they add: publication routes that overlap, where a weaker agreement than `MiroirAccorde` may hold; the part of
`SourceServie` that several routes keep; `CycleDemande` under overlap, from the weaker promise that overlapping functions do keep;
what a purge leaves, once the composition of item 1 is modelled.
