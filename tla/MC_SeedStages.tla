----------------------------- MODULE MC_SeedStages ----------------------------
(***************************************************************************)
(* The catalogues the API publishes in the runs of SeedStages.             *)
(***************************************************************************)
EXTENDS SeedStages

Need(item, quantity) == [item |-> item, quantity |-> quantity]

Recipe(crafted, alliance, horde, reagents, optional) ==
  [crafted |-> crafted, alliance |-> alliance, horde |-> horde,
   reagents |-> reagents, optional |-> optional, slots |-> << [type |-> 1, order |-> 0] >>]

Category(name, recipes) == [name |-> name, recipes |-> recipes]
Tier(id, categories) == [id |-> id, categories |-> categories]
Profession(id, tiers) == [id |-> id, tiers |-> tiers]
Catalogue(items, professions, recipes) ==
  [items |-> items, sorted |-> TRUE, professions |-> professions, recipes |-> recipes]

Details == << Recipe(1, 0, 0, <<Need(2, 1), Need(4, 2)>>, <<Need(4, 1)>>),
              Recipe(0, 4, 7, <<Need(9, 1)>>, <<>>),
              Recipe(0, 0, 0, <<>>, <<Need(2, 3), Need(2, 4)>>) >>

Tailoring == Profession(1, << Tier(1, << Category("a", <<1, 2>>), Category("b", <<3>>) >>) >>)
Jewels == Profession(2, << Tier(1, << Category("a", <<3>>) >>) >>)

\* Items with gaps, one profession, recipes of every valid shape; an item that
\* no search finds is used as a reagent (9).
Base == Catalogue({1, 2, 4, 7, 8}, <<Tailoring>>, Details)

\* Two professions with a tier and a category of the same name.
Wide == [Base EXCEPT !.professions =
           << Profession(1, << Tier(1, << Category("a", <<1, 2>>), Category("b", <<>>) >>) >>),
              Profession(2, << Tier(1, << Category("a", <<3>>) >>), Tier(2, << Category("a", <<4>>) >>) >>) >>,
                        !.recipes = Append(Details, Recipe(2, 0, 0, <<Need(1, 5)>>, <<Need(9, 1)>>))]

Twice == [Base EXCEPT !.professions = <<Tailoring, Jewels>>]

\* One recipe of two items with short lists, under one profession.
ShortLists == SeqOf({Need(1, 1), Need(1, 2), Need(2, 1)}, 2)
Small(r) == Catalogue({1}, <<Profession(1, << Tier(1, << Category("a", <<1>>) >>) >>)>>, <<r>>)
AnyShape ==
  { <<Small(Recipe(c, a, h, req, opt))>> :
      c \in 0..1, a \in 0..1, h \in {0, 2}, req \in ShortLists, opt \in SeqOf({Need(1, 3), Need(2, 3)}, 1) }

\* A catalogue of tiers and categories of one name, one that lists a recipe
\* twice and answers searches in any order, and one that has no details of a
\* recipe; items added below and above what a scan saw; a profession that
\* appears; and every shape of recipe.
AllHistories ==
  { <<Wide>>,
    <<[Twice EXCEPT !.sorted = FALSE]>>,
    <<[Base EXCEPT !.recipes = SubSeq(Details, 1, 2)]>>,
    <<Base, [Base EXCEPT !.items = {1, 2, 3, 4, 7, 8, 9}]>>,
    <<Base, Twice>> } \cup AnyShape

\* These histories are of the kinds that the theorems are about.
ASSUME HistoriesAreOfTheseKinds ==
  Histories = AllHistories => ItemsGrow /\ RecipesSame /\ RecipesSteady

=============================================================================
