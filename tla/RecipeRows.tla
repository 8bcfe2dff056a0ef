------------------------------ MODULE RecipeRows ------------------------------
(***************************************************************************)
(* How internal/scraper/recipes_seed.go turns API responses into rows: the *)
(* listing pass, recipeVariants, and the staged loads of                   *)
(* storeRecipeHierarchy and storeRecipeBatch.                              *)
(*                                                                         *)
(* A catalogue is what the API answers with: item ids, each once,          *)
(* professions with their tiers, categories and recipe ids, and the recipe *)
(* details.  An absent crafted item is 0; names and other descriptive      *)
(* columns are left out.  Jobs are a set once they are listed: the order   *)
(* in which recipes are fetched and stored is up to the workers.           *)
(***************************************************************************)
EXTENDS StagedLoads

None == 0

ReagentLists == Seq([item : Nat, quantity : Nat])
RecipeDetails ==
  [crafted : Nat, alliance : Nat, horde : Nat, reagents : ReagentLists,
   optional : ReagentLists, slots : Seq([type : Nat, order : Nat])]
SkillTiers == [id : Nat, categories : Seq([name : STRING, recipes : Seq(Nat)])]
Catalogues ==
  {c \in [items : SUBSET (Nat \ {0}), sorted : BOOLEAN,
          professions : Seq([id : Nat, tiers : Seq(SkillTiers)]),
          recipes : Seq(RecipeDetails)] : IsFiniteSet(c.items)}

\* f applied to every element, the results joined.
Collect(seq, f(_)) == FlattenSeq([k \in DOMAIN seq |-> f(seq[k])])

-----------------------------------------------------------------------------
(* The listing pass *)

\* Every recipe with the place it is listed under, in traversal order.
Listing(professions) ==
  LET OfCategory(p, t, c) == [k \in DOMAIN c.recipes |->
                                [recipe |-> c.recipes[k], place |-> <<p, t, c.name>>]]
      OfTier(p, t) == LET F(c) == OfCategory(p, t.id, c) IN Collect(t.categories, F)
      OfProfession(p) == LET F(t) == OfTier(p.id, t) IN Collect(p.tiers, F)
  IN Collect(professions, OfProfession)

\* A recipe listed again is skipped.
KeepFirst(jobs, job) ==
  IF \E k \in DOMAIN jobs : jobs[k].recipe = job.recipe THEN jobs ELSE Append(jobs, job)

RecipeJobs(professions) == FoldLeft(KeepFirst, <<>>, Listing(professions))

TierRows(professions) ==
  LET OfProfession(p) == [k \in DOMAIN p.tiers |-> Entry(<<p.id, p.tiers[k].id>>, None)]
  IN Collect(professions, OfProfession)

CategoryRows(professions) ==
  LET OfTier(p, t) == [k \in DOMAIN t.categories |->
                         Entry(<<p, t.id, t.categories[k].name>>, None)]
      OfProfession(p) == LET F(t) == OfTier(p.id, t) IN Collect(p.tiers, F)
  IN Collect(professions, OfProfession)

\* storeRecipeHierarchy.
HierarchyLoads(tierRows, categoryRows) ==
  << Load("tiers", tierRows, "update"), Load("categories", categoryRows, "nothing") >>

-----------------------------------------------------------------------------
(* A recipe's rows *)

\* recipeVariants returns no error.
ValidShape(r) ==
  /\ ~(r.crafted # None /\ (r.alliance # None \/ r.horde # None))
  /\ (r.alliance # None) = (r.horde # None)

Variants(r) ==
  IF r.alliance # None \/ r.horde # None
  THEN { [faction |-> "Alliance", item |-> r.alliance], [faction |-> "Horde", item |-> r.horde] }
  ELSE { [faction |-> "Neutral", item |-> r.crafted] }

ItemReferences(r) ==
  ({r.crafted, r.alliance, r.horde} \ {None})
    \cup {g.item : g \in Range(r.reagents) \cup Range(r.optional)}

Reagent(g, optional) == [i \in {g.item} |-> [quantity |-> g.quantity, optional |-> optional]]

\* Mutant: whichever list comes last wins.
AddOptional_Overwrites(rows, g) == Over(Reagent(g, TRUE), rows)

\* The map reagentRows: a required reagent replaces, an optional one does not.
AddOptional(rows, g) == Over(rows, Reagent(g, TRUE))

AddRequired(rows, g) == Over(Reagent(g, FALSE), rows)

Reagents(r) == FoldLeft(AddOptional, FoldLeft(AddRequired, <<>>, r.reagents), r.optional)

AddSlot(rows, s) == Over([t \in {s.type} |-> s.order], rows)

Slots(r) == FoldLeft(AddSlot, <<>>, r.slots)

\* A job's recipes row per variant, and a row per variant for each of rows.
VariantRows(job, r) ==
  {Entry(<<job.recipe, v.faction>>, [place |-> job.place, item |-> v.item]) : v \in Variants(r)}
KeyedRows(job, r, rows) ==
  {Entry(<<job.recipe, v.faction, k>>, rows[k]) : v \in Variants(r), k \in DOMAIN rows}

\* The staged loads of storeRecipeBatch.
BatchLoads(jobs, recipes) ==
  LET Detail(job) == recipes[job.recipe]
      Stubs == {Entry(i, "stub") : i \in UNION {ItemReferences(Detail(j)) : j \in jobs}}
      Recipes == UNION {VariantRows(j, Detail(j)) : j \in jobs}
      Uses == UNION {KeyedRows(j, Detail(j), Reagents(Detail(j))) : j \in jobs}
      Places == UNION {KeyedRows(j, Detail(j), Slots(Detail(j))) : j \in jobs}
  IN << Load("items", SetToSeq(Stubs), "nothing"), Load("recipes", SetToSeq(Recipes), "update"),
        Load("reagents", SetToSeq(Uses), "update"), Load("slots", SetToSeq(Places), "update") >>

=============================================================================
