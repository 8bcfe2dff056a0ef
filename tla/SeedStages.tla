------------------------------ MODULE SeedStages ------------------------------
(***************************************************************************)
(* Seeder.Run of internal/scraper/seeder.go: the items scan, the           *)
(* professions and the recipes, each stage with its transactions and its   *)
(* seeder_status rows, over failures, crashes and restarts, while the API  *)
(* moves from one edition of its catalogue to the next.                    *)
(*                                                                         *)
(* Abstractions.  The reads of a listing happen in one edition.  The       *)
(* worker pool is left to RecipeSeed: here a batch is any set of jobs that *)
(* are not stored yet.  A failing step is a failed request, a failed       *)
(* transaction, or a commit that was applied and reported as failed.       *)
(***************************************************************************)
EXTENDS RecipeRows

CONSTANTS
  Histories,      \* the sequences of catalogues the API may publish
  PageSize,       \* _pageSize of an item search
  ItemBatch,      \* itemSeedBatchSize
  RecipeBatch,    \* recipeSeedBatchSize
  MaxFaults       \* bound: failures and crashes

ASSUME SeedAssumption ==
  /\ Histories \subseteq Seq(Catalogues) \ {<<>>}
  /\ {PageSize, ItemBatch, RecipeBatch} \subseteq Nat \ {0}
  /\ MaxFaults \in Nat

Stages == << {"items"}, {"professions"}, {"recipes", "reagents"} >>
Names == UNION Range(Stages)

VARIABLES
  history,  \* the catalogues of this run
  edition,  \* the one the API answers from
  db,       \* the static tables
  status,   \* the seeder_status rows that say completed
  pc,       \* where Seeder.Run is
  stage,    \* the stage it runs
  scan,     \* seedItems: startingID, lastID and rows
  jobs,     \* the recipes still to be stored
  staged,   \* the loads of the transaction that is next
  known,    \* the items the API listed when the last scan began
  faults    \* how much of the failure bound is used

vars == <<history, edition, db, status, pc, stage, scan, jobs, staged, known, faults>>
upstream == <<history, edition>>

Api == history[edition]

NoScan == [startingID |-> 1, lastID |-> 0, rows |-> <<>>]

-----------------------------------------------------------------------------
(* The stage loop *)

Completed(k) == Stages[k] \subseteq status

\* The first stage that is not completed, or the end of seeding.
NextStage ==
  /\ pc = "check"
  /\ IF \A k \in DOMAIN Stages : Completed(k)
     THEN pc' = "polling" /\ UNCHANGED <<stage, known>>
     ELSE LET k == CHOOSE k \in DOMAIN Stages :
                     ~Completed(k) /\ \A j \in 1..(k - 1) : Completed(j)
          IN /\ stage' = k
             /\ pc' = << "search", "professions", "list" >>[k]
             /\ known' = IF k = 1 THEN Api.items ELSE known
  /\ UNCHANGED <<upstream, db, status, scan, jobs, staged, faults>>

\* execStagedLoads and the commit of one transaction.
Commit(at, goto) ==
  LET result == ExecStagedLoads(db, staged) IN
  /\ pc = at
  /\ IF result.ok
     THEN db' = result.db /\ pc' = goto
     ELSE pc' = "failed" /\ UNCHANGED db
  /\ staged' = <<>>
  /\ UNCHANGED <<upstream, status, stage, jobs, known, faults>>

\* markCompleted, for reagents after recipes.
Marked == CASE pc = "mark" /\ stage < 3 -> Stages[stage]
            [] pc = "mark" /\ stage = 3 -> {"recipes"}
            [] pc = "markSecond" -> {"reagents"}
            [] OTHER -> {}

Mark ==
  /\ pc \in {"mark", "markSecond"}
  /\ status' = status \cup Marked
  /\ pc' = IF stage = 3 /\ pc = "mark" THEN "markSecond" ELSE "check"
  /\ UNCHANGED <<upstream, db, stage, scan, jobs, staged, known, faults>>

-----------------------------------------------------------------------------
(* seedItems *)

\* What a search from an id may answer: a full page of the lowest ids or, from
\* an API that does not sort, some of the items, but none only if there is none.
Pages(start) ==
  LET Found == {i \in Api.items : i >= start}
      Size == Min({PageSize, Cardinality(Found)})
  IN {page \in SUBSET Found :
        IF Api.sorted THEN /\ Cardinality(page) = Size
                           /\ \A i \in page, j \in Found \ page : i < j
                      ELSE Cardinality(page) \in Min({1, Size})..Size}

\* Mutant: the next page starts at the last id seen.
StartAfter_Repeats(lastID) == lastID

StartAfter(lastID) == lastID + 1

ItemLoads(rows) == << Load("items", rows, "update") >>

SearchItems ==
  /\ pc = "search"
  /\ \E page \in Pages(scan.startingID) :
       LET rows == scan.rows \o SetToSeq({Entry(i, "full") : i \in page})
           lastID == Max(page \cup {scan.lastID})
       IN IF page = {}
          THEN /\ staged' = ItemLoads(scan.rows)
               /\ pc' = "lastFlush"
               /\ UNCHANGED scan
          ELSE /\ scan' = [startingID |-> StartAfter(lastID), lastID |-> lastID, rows |-> rows]
               /\ IF Len(rows) >= ItemBatch
                  THEN pc' = "flush" /\ staged' = ItemLoads(rows)
                  ELSE UNCHANGED <<pc, staged>>
  /\ UNCHANGED <<upstream, db, status, stage, jobs, known, faults>>

\* Mutant: the last, partial batch is forgotten.
FlushItems_FullOnly ==
  \/ Commit("flush", "search") /\ scan' = [scan EXCEPT !.rows = <<>>]
  \/ /\ pc = "lastFlush" /\ pc' = "mark" /\ staged' = <<>>
     /\ UNCHANGED <<upstream, db, status, stage, scan, jobs, known, faults>>

FlushItems ==
  /\ Commit("flush", "search") \/ Commit("lastFlush", "mark")
  /\ scan' = [scan EXCEPT !.rows = <<>>]

-----------------------------------------------------------------------------
(* seedProfessions and seedRecipesAndReagents *)

ListProfessions ==
  /\ pc = "professions"
  /\ LET ps == Api.professions IN
       staged' = << Load("professions", [k \in DOMAIN ps |-> Entry(ps[k].id, None)], "update"),
                    Load("tiers", TierRows(ps), "update") >>
  /\ pc' = "storeProfessions"
  /\ UNCHANGED <<upstream, db, status, stage, scan, jobs, known, faults>>

StoreProfessions ==
  /\ Commit("storeProfessions", "mark")
  /\ UNCHANGED scan

ListRecipes ==
  /\ pc = "list"
  /\ LET ps == Api.professions IN
       /\ staged' = HierarchyLoads(TierRows(ps), CategoryRows(ps))
       /\ jobs' = Range(RecipeJobs(ps))
  /\ pc' = "hierarchy"
  /\ UNCHANGED <<upstream, db, status, stage, scan, known, faults>>

StoreHierarchy ==
  /\ Commit("hierarchy", "batches")
  /\ UNCHANGED scan

\* There are details of the recipe, and recipeVariants accepts them.
Usable(job) == job.recipe \in DOMAIN Api.recipes /\ ValidShape(Api.recipes[job.recipe])

\* The next recipes the workers delivered.
TakeBatch ==
  /\ pc = "batches" /\ jobs # {}
  /\ \E batch \in SUBSET jobs :
       /\ Cardinality(batch) = Min({RecipeBatch, Cardinality(jobs)})
       /\ jobs' = jobs \ batch
       /\ IF \A j \in batch : Usable(j)
          THEN /\ staged' = BatchLoads(batch, Api.recipes)
               /\ pc' = "storeBatch"
          ELSE pc' = "failed" /\ UNCHANGED staged
  /\ UNCHANGED <<upstream, db, status, stage, scan, known, faults>>

StoreBatch ==
  /\ Commit("storeBatch", "batches")
  /\ UNCHANGED scan

\* Mutant: a last batch that is not full is dropped.
AllBatchesStored_FullOnly ==
  /\ pc = "batches" /\ Cardinality(jobs) < RecipeBatch
  /\ pc' = "mark"
  /\ UNCHANGED <<upstream, db, status, stage, scan, jobs, staged, known, faults>>

AllBatchesStored ==
  /\ pc = "batches" /\ jobs = {}
  /\ pc' = "mark"
  /\ UNCHANGED <<upstream, db, status, stage, scan, jobs, staged, known, faults>>

-----------------------------------------------------------------------------
(* Failures and the process *)

\* recordError for each name of the stage, any of which may fail itself; Run
\* returns and the process exits.
RecordError ==
  /\ pc = "failed"
  /\ \E recorded \in SUBSET Stages[stage] : status' = status \ recorded
  /\ pc' = "exit"
  /\ UNCHANGED <<upstream, db, stage, scan, jobs, staged, known, faults>>

\* A request, a transaction or a mark fails, or the process dies at it.
Fails ==
  /\ pc \notin {"failed", "exit", "polling"} /\ faults < MaxFaults
  /\ faults' = faults + 1
  /\ pc' = IF pc = "check" THEN "exit" ELSE "failed"
  /\ db' \in {db, ExecStagedLoads(db, staged).db}
  /\ ~ExecStagedLoads(db, staged).ok => db' = db
  /\ status' \in {status, status \cup Marked}
  /\ UNCHANGED <<upstream, stage, scan, jobs, staged, known>>

\* A process starts with nothing but the database.
Restart ==
  /\ pc \in {"exit", "polling"}
  /\ pc' = "check"
  /\ scan' = NoScan
  /\ jobs' = {}
  /\ staged' = <<>>
  /\ UNCHANGED <<upstream, db, status, stage, known, faults>>

\* The API changes.
Publish ==
  /\ edition < Len(history)
  /\ edition' = edition + 1
  /\ UNCHANGED <<history, db, status, pc, stage, scan, jobs, staged, known, faults>>

-----------------------------------------------------------------------------

Init ==
  /\ history \in Histories
  /\ edition = 1
  /\ db = EmptyDatabase
  /\ status = {}
  /\ pc = "check"
  /\ stage = 1
  /\ scan = NoScan
  /\ jobs = {}
  /\ staged = <<>>
  /\ known = {}
  /\ faults = 0

Seed ==
  \/ NextStage \/ Mark \/ RecordError
  \/ SearchItems \/ FlushItems
  \/ ListProfessions \/ StoreProfessions
  \/ ListRecipes \/ StoreHierarchy \/ TakeBatch \/ StoreBatch \/ AllBatchesStored

Next == Seed \/ Fails \/ Restart \/ Publish

Spec == Init /\ [][Next]_vars

\* Calls return, and the container restarts a process that exited with an error.
FairSpec == Spec /\ WF_vars(Seed) /\ WF_vars(pc = "exit" /\ Restart)

-----------------------------------------------------------------------------
(* Properties *)

FullItems == {i \in DOMAIN db.items : db.items[i] = "full"}

\* Every item the API listed when the scan began has its metadata once the
\* stage is completed, whatever the batches, failures and restarts were and
\* whatever was added meanwhile: a completed stage never looks again.  Pages in
\* id order are needed, for the next page starts behind the highest id seen.
ItemsComplete ==
  (\A e \in DOMAIN history : history[e].sorted) /\ "items" \in status => known \subseteq FullItems

\* A stub never replaces metadata.
MetadataKept ==
  [][\A i \in FullItems : i \in DOMAIN db'.items /\ db'.items[i] = "full"]_vars

\* What the API says of a recipe: who crafts which item, and what it needs.
Outputs(r) ==
  LET Made == {<<"Neutral", r.crafted>>, <<"Alliance", r.alliance>>, <<"Horde", r.horde>>}
      Given == {o \in Made : o[2] # None}
  IN IF Given = {} THEN {<<"Neutral", None>>} ELSE Given
RequiredItems(r) == {g.item : g \in Range(r.reagents)}
NeededItems(r) == RequiredItems(r) \cup {g.item : g \in Range(r.optional)}

\* While the API does not change, a completed recipes stage holds every listed
\* recipe under its first place, with all its crafted items under their
\* factions and nothing else, and with every reagent once per faction, optional
\* only if it is not required as well.
RecipesAsListed ==
  "recipes" \in status =>
    \A job \in Range(RecipeJobs(Api.professions)) :
      LET r == Api.recipes[job.recipe]
          Stored == {key \in DOMAIN db.recipes : key[1] = job.recipe}
          Used == {key \in DOMAIN db.reagents : key[1] = job.recipe}
      IN /\ {<<key[2], db.recipes[key].item>> : key \in Stored} = Outputs(r)
         /\ \A key \in Stored : db.recipes[key].place = job.place
         /\ {<<key[2], key[3]>> : key \in Used}
              = {<<o[1], i>> : o \in Outputs(r), i \in NeededItems(r)}
         /\ \A key \in Used : db.reagents[key].optional = (key[3] \notin RequiredItems(r))

\* The recipes stage, whose batches are made from what the workers deliver,
\* keeps the promise of a stage: nothing stored is lost, and the marks are set
\* only when everything that is listed is stored.
RecipeStage == INSTANCE SeedLedger WITH
  units <- {job.recipe : job \in Range(Listing(Api.professions))},
  stored <- {key[1] : key \in DOMAIN db.recipes},
  done <- Stages[3] \subseteq status
RecipeStageSpec == RecipeStage!Spec

\* How the API may change: it takes no item back; it lists the same recipes; or
\* nothing that the recipes stage reads becomes another thing.
ItemsGrow ==
  \A h \in Histories : \A e, f \in DOMAIN h : e <= f => h[e].items \subseteq h[f].items
RecipesSame ==
  \A h \in Histories : \A e, f \in DOMAIN h :
    {job.recipe : job \in Range(Listing(h[e].professions))}
      = {job.recipe : job \in Range(Listing(h[f].professions))}
RecipesSteady ==
  \A h \in Histories : \A e, f \in DOMAIN h :
    /\ h[e].recipes = h[f].recipes
    /\ Range(RecipeJobs(h[e].professions)) = Range(RecipeJobs(h[f].professions))

\* The API lists no profession that it did not list from the start, and has the
\* details of every listed recipe, in a shape that recipeVariants accepts.
Seedable ==
  \A e \in DOMAIN history :
    /\ {p.id : p \in Range(history[e].professions)} = {p.id : p \in Range(history[1].professions)}
    /\ \A r \in Range(history[e].recipes) : ValidShape(r)
    /\ \A job \in Range(Listing(history[e].professions)) : job.recipe \in DOMAIN history[e].recipes

\* Seeding ends: pages in any order, recipes listed twice, reagents that no
\* search finds, failures and restarts only delay it.  Above all, the database
\* refuses no statement for good: parents precede their children, every crafted
\* item and reagent has at least a stub, and no statement meets a key twice.
SeedingEnds == Seedable => <>(pc = "polling")

=============================================================================
