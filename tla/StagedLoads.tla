----------------------------- MODULE StagedLoads ------------------------------
(***************************************************************************)
(* The relational side of the seeder: the static tables with their keys    *)
(* (internal/scraper/migrations/00001_initial_schema.sql), the upserts of  *)
(* seeding_sql.go and execStagedLoads of staging.go.                       *)
(*                                                                         *)
(* A table is a function from primary keys to rows.  A row keeps only the  *)
(* columns that something depends on.  WHERE ... IS DISTINCT FROM spares   *)
(* a write that would change nothing, so an upsert is its result.          *)
(***************************************************************************)
EXTENDS Integers, SequencesExt

Tables == {"items", "professions", "tiers", "categories", "recipes", "reagents", "slots"}

EmptyDatabase == [t \in Tables |-> <<>>]

\* The foreign keys: which rows a row needs, as <<table, key>>.
References(table, key, row) ==
  CASE table \in {"items", "professions"} -> {}
    [] table = "tiers"      -> {<<"professions", key[1]>>}
    [] table = "categories" -> {<<"tiers", <<key[1], key[2]>>>>}
    [] table = "recipes"    -> {<<"categories", row.place>>}
                                 \cup {<<"items", i>> : i \in {row.item} \ {0}}
    [] table = "reagents"   -> {<<"recipes", <<key[1], key[2]>>>>, <<"items", key[3]>>}
    [] table = "slots"      -> {<<"recipes", <<key[1], key[2]>>>>}

\* A stagedLoad: the rows copied into its temporary table, in order, and what
\* its upsert does with a key that exists.
Load(table, rows, onConflict) == [table |-> table, rows |-> rows, onConflict |-> onConflict]

Entry(key, row) == [key |-> key, row |-> row]

Keys(rows) == {e.key : e \in Range(rows)}

\* ON CONFLICT DO UPDATE cannot meet one key twice in a statement, and the
\* parents of every row must exist.
Refused(db, load) ==
  \/ load.onConflict = "update" /\ Cardinality(Keys(load.rows)) < Len(load.rows)
  \/ \E e \in Range(load.rows) : \E ref \in References(load.table, e.key, e.row) :
       ref[2] \notin DOMAIN db[ref[1]]

\* The staged rows as a table; the first of a repeated key is inserted.
AsTable(rows) ==
  [k \in Keys(rows) |-> (CHOOSE e \in Range(rows) : e.key = k).row]

\* f and, where f holds nothing, g.
Over(f, g) == [x \in DOMAIN f \cup DOMAIN g |-> IF x \in DOMAIN f THEN f[x] ELSE g[x]]

\* Mutant: DO NOTHING turned into DO UPDATE.
Upserted_Always(table, load) == Over(AsTable(load.rows), table)

Upserted(table, load) ==
  IF load.onConflict = "update" THEN Over(AsTable(load.rows), table)
                                ELSE Over(table, AsTable(load.rows))

\* One load, unless an earlier one has failed.
ExecLoad(result, load) ==
  IF ~result.ok \/ Refused(result.db, load)
  THEN [ok |-> FALSE, db |-> result.db]
  ELSE [ok |-> TRUE, db |-> [result.db EXCEPT ![load.table] = Upserted(@, load)]]

\* All loads of one transaction in order, up to the first that fails.
ExecStagedLoads(database, loads) == FoldLeft(ExecLoad, [ok |-> TRUE, db |-> database], loads)

=============================================================================
