--------------------------- MODULE MigrationProofs ---------------------------
(***************************************************************************)
(* Theorems about Migration: its shape; that no statement of a boot loses  *)
(* a row, the rank of an account that has an organization, or an order     *)
(* somebody arranged; that what is served is current; and that a boot only *)
(* fails at a table a killed rebuild left behind.  All of it holds         *)
(* whatever release the database came from and wherever earlier boots were *)
(* killed.                                                                 *)
(*                                                                         *)
(* The script is a concatenation of blocks.  What the proofs use of it is  *)
(* that every block is of one of seven kinds, that a block which adds a    *)
(* column to a table comes after the rebuild of that table unless the      *)
(* rebuilt table has the column, and that seven of the blocks are there.   *)
(***************************************************************************)
EXTENDS Migration, TLAPS

Conditions == {"always", "lacks", "has", "dangling", "retired", "orphans"}
PlainOps == {"schema", "add", "remove", "order", "backfill"}
Ops == PlainOps \cup {"create", "copy", "drop", "rename", "dropif"}
StatementRow == [op : Ops, on : Names, to : Names \cup {NULL}, col : Columns \cup {NULL}]

\* The kinds of blocks.
Listed == {"projects", "labels", "assignees", "attachments"}
Lists(t) == Statement("order", t, NULL, NULL)
AddingOne(b) == b.do = <<AddColumn(b.on, b.col)>>
AddingOrder(b) ==
  b.on \in Listed /\ b.col = "sort_order" /\ b.do = <<AddColumn(b.on, b.col), Lists(b.on)>>
Adding(b) ==
  /\ b.if = "lacks" /\ b.on \in Base /\ b.col \in Columns \ {"team"}
  /\ b.col = "sort_order" => b.on \in Listed /\ (b.on = "labels" => b.since = 3)
  /\ AddingOne(b) \/ AddingOrder(b)
Scoping(b) ==
  b.if = "lacks" /\ b.on \in Scoped /\ b.col = "workspace_id" /\ b.do = RebuildScript(b.on)
Repairing(b) == b.if = "dangling" /\ b.on \in Joins /\ b.do = RebuildScript(b.on)
RetireScript ==
  << Statement("dropif", "task_assignees", NULL, NULL), Statement("dropif", "assignees", NULL, NULL) >>
Retiring(b) == b.if = "retired" /\ b.do = RetireScript
Creating(b) == b.if = "always" /\ b.do = <<Statement("schema", "projects", NULL, NULL)>>
Removing(b) ==
  b.if = "has" /\ b.on = "users" /\ b.do = <<Statement("remove", "users", NULL, "team")>>
Filling(b) == b.if = "orphans" /\ b.do = <<Statement("backfill", "users", NULL, NULL)>>

BlockRow ==
  [since : Nat, if : Conditions, on : Names, col : Columns \cup {NULL}, do : Seq(StatementRow)]
GoodBlock ==
  {b \in BlockRow :
     \/ Adding(b) \/ Scoping(b) \/ Repairing(b) \/ Retiring(b)
     \/ Creating(b) \/ Removing(b) \/ Filling(b)}

\* A block that may come before the rebuild of its table, and one that
\* rebuilds nothing.
Early(b) == b.if = "lacks" /\ b.on \in Rebuilt => b.col \in RebuiltColumns(b.on)
Late(b) == \A t \in Rebuilt : b.do # RebuildScript(t)
EarlyBlock == {b \in GoodBlock : Early(b)}
LateBlock == {b \in GoodBlock : Late(b)}

\* All that matters of a block as far as rows go: none of its statements
\* takes one away, or it is a rebuild of one table.
Plain(b) ==
  /\ b.if # "retired"
  /\ Len(b.do) \in 1..2
  /\ \A i \in 1..Len(b.do) : b.do[i].op \in PlainOps /\ (b.do[i].op = "add" => b.do[i].col \in Columns)
Rebuilding(b, t) == b.if # "retired" /\ b.do = RebuildScript(t)

\* Temporary names are names, distinct from one another and from those of tables.
LEMMA TempFacts ==
  /\ \A t \in Rebuilt : Temp(t) \in Names /\ Temp(t) \notin Base
  /\ \A t, u \in Rebuilt : Temp(t) = Temp(u) => t = u
<1>1. \A t \in Rebuilt : Temp(t) \in Names BY DEF Names
<1>2. \A t \in Rebuilt : Temp(t) \notin Base BY DEF Temp, Rebuilt, Scoped, Joins, Base
<1>3. \A t, u \in Rebuilt : Temp(t) = Temp(u) => t = u BY DEF Temp, Rebuilt, Scoped, Joins
<1> QED BY <1>1, <1>2, <1>3

LEMMA BaseNames == Base \subseteq Names /\ Rebuilt \subseteq Base /\ Current \subseteq Base
BY DEF Names, Base, Current

\* Short sequences, statements and blocks are of their kind.
LEMMA SequencesOf ==
  ASSUME NEW S
  PROVE  /\ \A x \in S : <<x>> \in Seq(S)
         /\ \A x, y \in S : <<x, y>> \in Seq(S)
         /\ \A p, q \in Seq(S) : p \o q \in Seq(S)
OBVIOUS

LEMMA StatementIsRow ==
  ASSUME NEW op \in Ops, NEW on \in Names, NEW to \in Names \cup {NULL}, NEW col \in Columns \cup {NULL}
  PROVE  /\ Statement(op, on, to, col) \in StatementRow
         /\ Statement(op, on, to, col).op = op /\ Statement(op, on, to, col).on = on
         /\ Statement(op, on, to, col).to = to /\ Statement(op, on, to, col).col = col
BY DEF Statement, StatementRow

LEMMA BlockIsRow ==
  ASSUME NEW since \in Nat, NEW cond \in Conditions, NEW on \in Names, NEW col \in Columns \cup {NULL},
         NEW do \in Seq(StatementRow)
  PROVE  /\ Block(since, cond, on, col, do) \in BlockRow
         /\ Block(since, cond, on, col, do).if = cond /\ Block(since, cond, on, col, do).do = do
         /\ Block(since, cond, on, col, do).col = col /\ Block(since, cond, on, col, do).on = on
         /\ Block(since, cond, on, col, do).since = since
BY DEF Block, BlockRow


\* The first statement tells the kind of a block.
LEMMA FirstStatements ==
  /\ \A t : Len(RebuildScript(t)) = 4 /\ RebuildScript(t)[1].op = "create" /\ RebuildScript(t)[2].on = t
  /\ Len(RetireScript) = 2 /\ RetireScript[1].op = "dropif"
  /\ \A b : Adding(b) => Len(b.do) \in 1..2 /\ b.do[1] = AddColumn(b.on, b.col) /\ b.do[1].op = "add"
  /\ \A b : Adding(b) /\ Len(b.do) = 2 => AddingOrder(b) /\ b.do[2] = Lists(b.on) /\ b.do[2].op = "order"
  /\ \A b : Creating(b) => Len(b.do) = 1 /\ b.do[1].op = "schema"
  /\ \A b : Removing(b) => Len(b.do) = 1 /\ b.do[1].op = "remove"
  /\ \A b : Filling(b) => Len(b.do) = 1 /\ b.do[1].op = "backfill"
<1>1. \A t : Len(RebuildScript(t)) = 4 /\ RebuildScript(t)[1].op = "create" /\ RebuildScript(t)[2].on = t
  BY DEF RebuildScript, Statement
<1>2. Len(RetireScript) = 2 /\ RetireScript[1].op = "dropif" BY DEF RetireScript, Statement
<1>3. ASSUME NEW b, AddingOne(b)
      PROVE  Len(b.do) = 1 /\ b.do[1] = AddColumn(b.on, b.col) /\ b.do[1].op = "add"
  BY <1>3 DEF AddingOne, AddColumn, Statement
<1>4. ASSUME NEW b, AddingOrder(b)
      PROVE  /\ Len(b.do) = 2 /\ b.do[1] = AddColumn(b.on, b.col) /\ b.do[1].op = "add"
             /\ b.do[2] = Lists(b.on) /\ b.do[2].op = "order"
  BY <1>4 DEF AddingOrder, AddColumn, Lists, Statement
<1>5. \A b : Adding(b) => Len(b.do) \in 1..2 /\ b.do[1] = AddColumn(b.on, b.col) /\ b.do[1].op = "add"
  BY <1>3, <1>4 DEF Adding
<1>6. \A b : Adding(b) /\ Len(b.do) = 2 => AddingOrder(b) /\ b.do[2] = Lists(b.on) /\ b.do[2].op = "order"
  BY <1>3, <1>4 DEF Adding
<1>7. \A b : Creating(b) => Len(b.do) = 1 /\ b.do[1].op = "schema" BY DEF Creating, Statement
<1>8. \A b : Removing(b) => Len(b.do) = 1 /\ b.do[1].op = "remove" BY DEF Removing, Statement
<1>9. \A b : Filling(b) => Len(b.do) = 1 /\ b.do[1].op = "backfill" BY DEF Filling, Statement
<1> QED BY <1>1, <1>2, <1>5, <1>6, <1>7, <1>8, <1>9

LEMMA AddingPlain ==
  ASSUME NEW b, Adding(b)
  PROVE  Plain(b) /\ Late(b) /\ b.col \in Columns
<1>1. b.if # "retired" /\ b.col \in Columns BY DEF Adding
<1>2. Len(b.do) \in 1..2 /\ b.do[1] = AddColumn(b.on, b.col) /\ b.do[1].op = "add"
  BY FirstStatements
<1>3. b.do[1].col \in Columns BY <1>1, <1>2 DEF AddColumn, Statement
<1>4. Len(b.do) = 2 => b.do[2].op = "order" BY FirstStatements
<1>5. \A i \in 1..Len(b.do) : b.do[i].op \in PlainOps /\ (b.do[i].op = "add" => b.do[i].col \in Columns)
  BY <1>2, <1>3, <1>4 DEF PlainOps
<1>6. Late(b) BY <1>2, FirstStatements DEF Late
<1> QED BY <1>1, <1>2, <1>5, <1>6 DEF Plain

LEMMA SinglePlain ==
  ASSUME NEW b, Creating(b) \/ Removing(b) \/ Filling(b)
  PROVE  Plain(b) /\ Late(b) /\ b.if # "lacks"
<1>1. b.if # "retired" /\ b.if # "lacks" BY DEF Creating, Removing, Filling
<1>2. Len(b.do) = 1 /\ b.do[1].op \in {"schema", "remove", "backfill"} BY FirstStatements
<1>3. Late(b) BY <1>2, FirstStatements DEF Late
<1> QED BY <1>1, <1>2, <1>3 DEF Plain, PlainOps

LEMMA RetiringLate ==
  ASSUME NEW b, Retiring(b)
  PROVE  Late(b)
BY FirstStatements DEF Retiring, Late

\* Blocks that only add columns.
LEMMA AddsGood ==
  ASSUME NEW since \in Nat, NEW t \in Base, NEW cs \in Seq(Columns \ {"team", "sort_order"}), NEW S,
         \A b \in GoodBlock : Late(b) /\ b.on = t /\ (\E i \in 1..Len(cs) : b.col = cs[i]) => b \in S
  PROVE  Adds(since, t, cs) \in Seq(S)
<1> DEFINE B(i) == Block(since, "lacks", t, cs[i], <<AddColumn(t, cs[i])>>)
<1>1. ASSUME NEW i \in 1..Len(cs) PROVE B(i) \in S
  <2>1. cs[i] \in Columns \ {"team", "sort_order"} OBVIOUS
  <2>2. t \in Names /\ "add" \in Ops BY BaseNames DEF Ops, PlainOps
  <2> DEFINE s == AddColumn(t, cs[i])
  <2>3. s \in StatementRow BY <2>1, <2>2 DEF AddColumn, Statement, StatementRow
  <2> HIDE DEF s
  <2>4. <<s>> \in Seq(StatementRow) BY <2>3, SequencesOf
  <2> DEFINE b == Block(since, "lacks", t, cs[i], <<s>>)
  <2>5. b \in BlockRow /\ b.if = "lacks" /\ b.on = t /\ b.col = cs[i] /\ b.do = <<s>>
    BY <2>1, <2>2, <2>4 DEF Block, BlockRow, Conditions
  <2> HIDE DEF b
  <2>6. AddingOne(b) BY <2>5 DEF AddingOne, s
  <2>7. Adding(b) BY <2>1, <2>5, <2>6 DEF Adding
  <2>8. b \in GoodBlock BY <2>5, <2>7 DEF GoodBlock
  <2>9. Late(b) BY <2>7, AddingPlain
  <2>10. b \in S BY <2>5, <2>8, <2>9
  <2> QED BY <2>10 DEF b, s
<1>2. Adds(since, t, cs) = [i \in 1..Len(cs) |-> B(i)] BY DEF Adds
<1> HIDE DEF B
<1> QED BY <1>1, <1>2

LEMMA AddsOrderGood ==
  ASSUME NEW since \in Nat, NEW t \in Listed, t = "labels" => since = 3, NEW S,
         \A b \in GoodBlock : Late(b) /\ b.on = t => b \in S
  PROVE  AddsOrder(since, t) \in Seq(S)
<1> DEFINE s1 == AddColumn(t, "sort_order")
           s2 == Lists(t)
<1>1. t \in Base BY DEF Listed, Base, Rebuilt, Scoped
<1>2. t \in Names /\ "add" \in Ops /\ "order" \in Ops BY <1>1, BaseNames DEF Ops, PlainOps
<1>3. s1 \in StatementRow BY <1>2, StatementIsRow DEF AddColumn, Columns
<1>4. s2 \in StatementRow BY <1>2, StatementIsRow DEF Lists
<1> HIDE DEF s1, s2
<1>5. <<s1, s2>> \in Seq(StatementRow) BY <1>3, <1>4, SequencesOf
<1> DEFINE b == Block(since, "lacks", t, "sort_order", <<s1, s2>>)
<1>6. /\ b \in BlockRow /\ b.if = "lacks" /\ b.on = t /\ b.col = "sort_order" /\ b.do = <<s1, s2>>
      /\ b.since = since
  BY <1>2, <1>5 DEF Block, BlockRow, Conditions, Columns
<1> HIDE DEF b
<1>7. AddingOrder(b) BY <1>6 DEF AddingOrder, s1, s2
<1>8. Adding(b)
  <2>1. "sort_order" \in Columns \ {"team"} BY DEF Columns
  <2> QED BY <1>1, <1>6, <1>7, <2>1 DEF Adding
<1>9. b \in GoodBlock BY <1>6, <1>8 DEF GoodBlock
<1>10. b \in S BY <1>6, <1>8, <1>9, AddingPlain
<1>11. <<b>> \in Seq(S) BY <1>10, SequencesOf
<1> QED BY <1>11 DEF b, s1, s2, AddsOrder, Lists

LEMMA RebuildRows ==
  ASSUME NEW since \in Nat, NEW cond \in Conditions, NEW t \in Rebuilt, NEW col \in Columns \cup {NULL}
  PROVE  /\ Block(since, cond, t, col, RebuildScript(t)) \in BlockRow
         /\ Block(since, cond, t, col, RebuildScript(t)).if = cond
         /\ Block(since, cond, t, col, RebuildScript(t)).on = t
         /\ Block(since, cond, t, col, RebuildScript(t)).col = col
         /\ Block(since, cond, t, col, RebuildScript(t)).do = RebuildScript(t)
<1>1. Temp(t) \in Names /\ t \in Names BY TempFacts, BaseNames
<1>2. {"create", "copy", "drop", "rename"} \subseteq Ops BY DEF Ops
<1> DEFINE s1 == Statement("create", Temp(t), t, NULL)
           s2 == Statement("copy", t, Temp(t), NULL)
           s3 == Statement("drop", t, NULL, NULL)
           s4 == Statement("rename", Temp(t), t, NULL)
<1>3. s1 \in StatementRow /\ s2 \in StatementRow /\ s3 \in StatementRow /\ s4 \in StatementRow
  BY <1>1, <1>2, StatementIsRow
<1>4. RebuildScript(t) = <<s1, s2, s3, s4>> BY DEF RebuildScript
<1> HIDE DEF s1, s2, s3, s4
<1>5. RebuildScript(t) \in Seq(StatementRow) BY <1>3, <1>4
<1> QED BY <1>1, <1>5, BlockIsRow

\* A rebuild may come before others: what it asks for, the new table has.
LEMMA RebuildsGood ==
  /\ \A since \in Nat, t \in Scoped : Rebuild(since, t) \in Seq(EarlyBlock)
  /\ \A t \in Joins : Repair(t) \in Seq(EarlyBlock)
<1>1. "lacks" \in Conditions /\ "dangling" \in Conditions BY DEF Conditions
<1>2. "workspace_id" \in Columns BY DEF Columns
<1>3. \A t \in Scoped : t \in Rebuilt /\ "workspace_id" \in RebuiltColumns(t)
  BY DEF Rebuilt, RebuiltColumns, Scoped, Joins
<1>4. ASSUME NEW since \in Nat, NEW t \in Scoped PROVE Rebuild(since, t) \in Seq(EarlyBlock)
  <2> DEFINE b == Block(since, "lacks", t, "workspace_id", RebuildScript(t))
  <2>1. b \in BlockRow /\ b.if = "lacks" /\ b.on = t /\ b.col = "workspace_id" /\ b.do = RebuildScript(t)
    BY <1>1, <1>2, <1>3, RebuildRows
  <2> HIDE DEF b
  <2>2. Scoping(b) BY <2>1 DEF Scoping
  <2>3. b \in EarlyBlock BY <1>3, <2>1, <2>2 DEF EarlyBlock, Early, GoodBlock
  <2>4. <<b>> \in Seq(EarlyBlock) BY <2>3, SequencesOf
  <2> QED BY <2>4 DEF b, Rebuild
<1>5. ASSUME NEW t \in Joins PROVE Repair(t) \in Seq(EarlyBlock)
  <2> DEFINE b == Block(8, "dangling", t, NULL, RebuildScript(t))
  <2>1. b \in BlockRow /\ b.if = "dangling" /\ b.on = t /\ b.do = RebuildScript(t)
    BY <1>1, RebuildRows DEF Rebuilt
  <2> HIDE DEF b
  <2>2. Repairing(b) BY <2>1 DEF Repairing
  <2>3. b \in EarlyBlock BY <2>1, <2>2 DEF EarlyBlock, Early, GoodBlock
  <2>4. <<b>> \in Seq(EarlyBlock) BY <2>3, SequencesOf
  <2> QED BY <2>4 DEF b, Repair
<1> QED BY <1>4, <1>5

LEMMA RetireGood ==
  << Block(8, "retired", "assignees", NULL, RetireScript) >> \in Seq(LateBlock)
<1>1. "assignees" \in Names /\ "task_assignees" \in Names BY BaseNames DEF Base, Rebuilt, Scoped, Joins
<1> DEFINE s1 == Statement("dropif", "task_assignees", NULL, NULL)
           s2 == Statement("dropif", "assignees", NULL, NULL)
<1>2. s1 \in StatementRow /\ s2 \in StatementRow BY <1>1, StatementIsRow DEF Ops
<1>3. RetireScript = <<s1, s2>> BY DEF RetireScript
<1> HIDE DEF s1, s2
<1>4. RetireScript \in Seq(StatementRow) BY <1>2, <1>3, SequencesOf
<1> DEFINE b == Block(8, "retired", "assignees", NULL, RetireScript)
<1>5. b \in BlockRow /\ b.if = "retired" /\ b.do = RetireScript
  BY <1>1, <1>4 DEF Block, BlockRow, Conditions
<1> HIDE DEF b
<1>6. Retiring(b) BY <1>5 DEF Retiring
<1>7. b \in LateBlock BY <1>5, <1>6, RetiringLate DEF LateBlock, GoodBlock
<1>8. <<b>> \in Seq(LateBlock) BY <1>7, SequencesOf
<1> QED BY <1>8 DEF b

\* The other blocks of one statement.
LEMMA SingleRow ==
  ASSUME NEW s \in StatementRow, NEW since \in Nat, NEW cond \in Conditions, NEW t \in Names,
         NEW bcol \in Columns \cup {NULL}
  PROVE  /\ Block(since, cond, t, bcol, <<s>>) \in BlockRow
         /\ Block(since, cond, t, bcol, <<s>>).if = cond
         /\ Block(since, cond, t, bcol, <<s>>).on = t
         /\ Block(since, cond, t, bcol, <<s>>).do = <<s>>
<1>1. <<s>> \in Seq(StatementRow) BY SequencesOf
<1> QED BY <1>1 DEF Block, BlockRow

LEMMA SingleGood ==
  /\ << Block(0, "always", "projects", NULL, <<Statement("schema", "projects", NULL, NULL)>>) >>
       \in Seq(EarlyBlock)
  /\ << Block(8, "has", "users", "team", <<Statement("remove", "users", NULL, "team")>>) >>
       \in Seq(LateBlock)
  /\ Backfill \in Seq(LateBlock)
<1>1. "projects" \in Names /\ "users" \in Names BY BaseNames DEF Base
<1>2. {"schema", "remove", "backfill"} \subseteq Ops BY DEF Ops, PlainOps
<1>3. {"always", "has", "orphans"} \subseteq Conditions BY DEF Conditions
<1>4. "team" \in Columns BY DEF Columns
<1> DEFINE b1 == Block(0, "always", "projects", NULL, <<Statement("schema", "projects", NULL, NULL)>>)
           b2 == Block(8, "has", "users", "team", <<Statement("remove", "users", NULL, "team")>>)
           b3 == Block(4, "orphans", "users", NULL, <<Statement("backfill", "users", NULL, NULL)>>)
<1>6. b1 \in BlockRow /\ Creating(b1)
  <2> DEFINE s == Statement("schema", "projects", NULL, NULL)
  <2>1. s \in StatementRow BY <1>1, <1>2, <1>4, StatementIsRow
  <2> HIDE DEF s
  <2> DEFINE c == Block(0, "always", "projects", NULL, <<s>>)
  <2>2. c \in BlockRow /\ c.if = "always" /\ c.do = <<s>> BY <1>1, <1>3, <1>4, <2>1, SingleRow
  <2> QED BY <2>2 DEF Creating, s
<1>7. b2 \in BlockRow /\ Removing(b2)
  <2> DEFINE s == Statement("remove", "users", NULL, "team")
  <2>1. s \in StatementRow BY <1>1, <1>2, <1>4, StatementIsRow
  <2> HIDE DEF s
  <2> DEFINE c == Block(8, "has", "users", "team", <<s>>)
  <2>2. c \in BlockRow /\ c.if = "has" /\ c.on = "users" /\ c.do = <<s>>
    BY <1>1, <1>3, <1>4, <2>1, SingleRow
  <2> QED BY <2>2 DEF Removing, s
<1>8. b3 \in BlockRow /\ Filling(b3)
  <2> DEFINE s == Statement("backfill", "users", NULL, NULL)
  <2>1. s \in StatementRow BY <1>1, <1>2, <1>4, StatementIsRow
  <2> HIDE DEF s
  <2> DEFINE c == Block(4, "orphans", "users", NULL, <<s>>)
  <2>2. c \in BlockRow /\ c.if = "orphans" /\ c.do = <<s>> BY <1>1, <1>3, <1>4, <2>1, SingleRow
  <2> QED BY <2>2 DEF Filling, s
<1>9. Backfill = <<b3>> BY DEF Backfill
<1> HIDE DEF b1, b2, b3
<1>10. b1 \in EarlyBlock BY <1>6, SinglePlain DEF EarlyBlock, GoodBlock, Early
<1>11. b2 \in LateBlock /\ b3 \in LateBlock BY <1>7, <1>8, SinglePlain DEF LateBlock, GoodBlock
<1>12. <<b1>> \in Seq(EarlyBlock) /\ <<b2>> \in Seq(LateBlock) /\ <<b3>> \in Seq(LateBlock)
  BY <1>10, <1>11, SequencesOf
<1> QED BY <1>9, <1>12 DEF b1, b2

------------------------------------------------------------------------------
(* The script.                                                             *)

\* Up to some place every block may precede a rebuild, and from there on
\* nothing is rebuilt.
Split(q) ==
  /\ q \in Seq(GoodBlock)
  /\ \E n \in Nat : \A i \in 1..Len(q) : IF i <= n THEN Early(q[i]) ELSE Late(q[i])

Has(q, b) == \E i \in 1..Len(q) : q[i] = b

\* It begins with schema.sql.
Opens(q) == q \in Seq(GoodBlock) /\ Len(q) >= 1 /\ q[1].if = "always"

LEMMA OpensOf ==
  ASSUME NEW p, Opens(p), NEW q \in Seq(GoodBlock)
  PROVE  Opens(p \o q)
<1>1. p \in Seq(GoodBlock) /\ Len(p) >= 1 /\ p[1].if = "always" BY DEF Opens
<1>2. p \o q \in Seq(GoodBlock) /\ Len(p \o q) >= 1 /\ (p \o q)[1] = p[1] BY <1>1
<1> QED BY <1>1, <1>2 DEF Opens

LEMMA SplitOf ==
  /\ \A p, q \in Seq(EarlyBlock), r \in Seq(LateBlock) : Split(p \o (q \o r))
  /\ \A q : Split(q) => \A r \in Seq(LateBlock) : Split(q \o r)
<1>1. \A b \in Seq(EarlyBlock) : b \in Seq(GoodBlock) BY DEF EarlyBlock
<1>2. \A b \in Seq(LateBlock) : b \in Seq(GoodBlock) BY DEF LateBlock
<1>3. ASSUME NEW p \in Seq(EarlyBlock), NEW q \in Seq(EarlyBlock), NEW r \in Seq(LateBlock)
      PROVE  Split(p \o (q \o r))
  <2> DEFINE w == p \o (q \o r)
             n == Len(p) + Len(q)
  <2>1. w \in Seq(GoodBlock) BY <1>1, <1>2, SequencesOf
  <2>2. n \in Nat OBVIOUS
  <2>3. ASSUME NEW i \in 1..Len(w), i <= n PROVE w[i] \in EarlyBlock
    <3>1. CASE i <= Len(p) BY <2>3, <3>1
    <3>2. CASE i > Len(p)
      <4>1. w[i] = (q \o r)[i - Len(p)] BY <2>3, <3>2
      <4>2. i - Len(p) \in 1..Len(q) BY <2>3, <3>2
      <4> QED BY <4>1, <4>2
    <3> QED BY <3>1, <3>2
  <2>4. ASSUME NEW i \in 1..Len(w), ~(i <= n) PROVE w[i] \in LateBlock
    <3>1. w[i] = (q \o r)[i - Len(p)] BY <2>4
    <3>2. (q \o r)[i - Len(p)] = r[i - n] BY <2>4
    <3>3. i - n \in 1..Len(r) BY <2>4
    <3> QED BY <3>1, <3>2, <3>3
  <2> HIDE DEF w, n
  <2>5. \A i \in 1..Len(w) : IF i <= n THEN Early(w[i]) ELSE Late(w[i])
    BY <2>3, <2>4 DEF EarlyBlock, LateBlock
  <2>6. Split(w) BY <2>1, <2>2, <2>5 DEF Split
  <2> QED BY <2>6 DEF w
<1>4. ASSUME NEW q, Split(q), NEW r \in Seq(LateBlock)
      PROVE  Split(q \o r)
  <2>1. q \in Seq(GoodBlock) BY <1>4 DEF Split
  <2>2. PICK m \in Nat : \A i \in 1..Len(q) : IF i <= m THEN Early(q[i]) ELSE Late(q[i])
    BY <1>4 DEF Split
  <2> DEFINE w == q \o r
             n == IF m <= Len(q) THEN m ELSE Len(q)
  <2>3. w \in Seq(GoodBlock) BY <1>2, <2>1, SequencesOf
  <2>4. n \in Nat /\ n <= Len(q) /\ n <= m BY <2>1
  <2>5. ASSUME NEW i \in 1..Len(w) PROVE IF i <= n THEN Early(w[i]) ELSE Late(w[i])
    <3>1. CASE i <= Len(q)
      <4>1. i \in 1..Len(q) /\ w[i] = q[i] BY <2>1, <3>1
      <4>2. i <= n <=> i <= m BY <2>1, <3>1
      <4> HIDE DEF w, n
      <4> QED BY <2>2, <4>1, <4>2
    <3>2. CASE i > Len(q)
      <4>1. w[i] = r[i - Len(q)] /\ i - Len(q) \in 1..Len(r) BY <2>1, <3>2
      <4>2. ~(i <= n) BY <2>1, <2>4, <3>2
      <4> HIDE DEF w, n
      <4>3. w[i] \in LateBlock BY <4>1
      <4> QED BY <4>2, <4>3 DEF LateBlock
    <3> QED BY <2>1, <3>1, <3>2
  <2> HIDE DEF w, n
  <2>6. Split(w) BY <2>3, <2>4, <2>5 DEF Split
  <2> QED BY <2>6 DEF w
<1> QED BY <1>3, <1>4

LEMMA HasOf ==
  ASSUME NEW p \in Seq(GoodBlock), NEW q \in Seq(GoodBlock), NEW b
  PROVE  Has(p \o q, b) <=> Has(p, b) \/ Has(q, b)
<1>1. ASSUME NEW i \in 1..Len(p), p[i] = b PROVE Has(p \o q, b)
  <2>1. i \in 1..Len(p \o q) /\ (p \o q)[i] = b BY <1>1
  <2> QED BY <2>1 DEF Has
<1>2. ASSUME NEW i \in 1..Len(q), q[i] = b PROVE Has(p \o q, b)
  <2>1. Len(p) + i \in 1..Len(p \o q) /\ (p \o q)[Len(p) + i] = b BY <1>2
  <2> QED BY <2>1 DEF Has
<1>3. ASSUME NEW i \in 1..Len(p \o q), (p \o q)[i] = b PROVE Has(p, b) \/ Has(q, b)
  <2>1. CASE i <= Len(p)
    <3>1. i \in 1..Len(p) /\ p[i] = b BY <1>3, <2>1
    <3> QED BY <3>1 DEF Has
  <2>2. CASE i > Len(p)
    <3>1. i - Len(p) \in 1..Len(q) /\ q[i - Len(p)] = b BY <1>3, <2>2
    <3> QED BY <3>1 DEF Has
  <2> QED BY <2>1, <2>2
<1> QED BY <1>1, <1>2, <1>3 DEF Has

\* The rebuilds and repairs, and what gives an order to rebuilt tables.
ListBlock(since, t) ==
  Block(since, "lacks", t, "sort_order", <<AddColumn(t, "sort_order"), Statement("order", t, NULL, NULL)>>)

LEMMA WorkspaceBlocksGood ==
  /\ Rebuilds \o Repairs \in Seq(EarlyBlock) /\ Orders \in Seq(LateBlock)
  /\ WorkspaceBlocks = (Rebuilds \o Repairs) \o Orders
  /\ Has(Rebuilds \o Repairs, Block(2, "lacks", "labels", "workspace_id", RebuildScript("labels")))
  /\ \A j \in Joins : Has(Rebuilds \o Repairs, Block(8, "dangling", j, NULL, RebuildScript(j)))
  /\ Has(Orders, ListBlock(3, "labels"))
<1>1. /\ "labels" \in Scoped /\ "assignees" \in Scoped /\ "statuses" \in Scoped
      /\ "priorities" \in Scoped /\ "task_labels" \in Joins /\ "task_assignees" \in Joins
  BY DEF Scoped, Joins
<1> DEFINE a == Rebuild(2, "labels")  b == Rebuild(2, "assignees")
           c == Rebuild(2, "statuses")  d == Rebuild(2, "priorities")
           e == Repair("task_labels")  f == Repair("task_assignees")
<1>2. /\ a \in Seq(EarlyBlock) /\ b \in Seq(EarlyBlock) /\ c \in Seq(EarlyBlock)
      /\ d \in Seq(EarlyBlock) /\ e \in Seq(EarlyBlock) /\ f \in Seq(EarlyBlock)
  BY <1>1, RebuildsGood
<1>3. Rebuilds = ((a \o b) \o c) \o d /\ Repairs = e \o f BY DEF Rebuilds, Repairs
<1>4. Len(a) = 1 /\ a[1] = Block(2, "lacks", "labels", "workspace_id", RebuildScript("labels"))
  BY DEF Rebuild
<1>5. /\ Len(e) = 1 /\ e[1] = Block(8, "dangling", "task_labels", NULL, RebuildScript("task_labels"))
      /\ Len(f) = 1 /\ f[1] = Block(8, "dangling", "task_assignees", NULL, RebuildScript("task_assignees"))
  BY DEF Repair
<1> HIDE DEF a, b, c, d, e, f
<1>6. Rebuilds \in Seq(EarlyBlock) /\ Repairs \in Seq(EarlyBlock) BY <1>2, <1>3, SequencesOf
<1>7. Rebuilds \o Repairs \in Seq(EarlyBlock) BY <1>6, SequencesOf
<1>8. Orders \in Seq(LateBlock) /\ Has(Orders, ListBlock(3, "labels"))
  <2> DEFINE v == AddsOrder(3, "labels")  w == AddsOrder(3, "assignees")
  <2>1. v \in Seq(LateBlock) /\ w \in Seq(LateBlock) BY AddsOrderGood DEF Listed, LateBlock
  <2>2. Orders = v \o w BY DEF Orders
  <2>3. Len(v) = 1 /\ v[1] = ListBlock(3, "labels") BY DEF AddsOrder, ListBlock
  <2> HIDE DEF v, w
  <2>4. Orders \in Seq(LateBlock) BY <2>1, <2>2, SequencesOf
  <2>5. v \in Seq(GoodBlock) /\ w \in Seq(GoodBlock) BY <2>1 DEF LateBlock
  <2>6. Has(v, ListBlock(3, "labels")) BY <2>3 DEF Has
  <2> QED BY <2>2, <2>4, <2>5, <2>6, HasOf
<1>9. WorkspaceBlocks = (Rebuilds \o Repairs) \o Orders BY DEF WorkspaceBlocks
<1>10. \A q \in Seq(EarlyBlock) : q \in Seq(GoodBlock) BY DEF EarlyBlock
<1>11. Has(Rebuilds \o Repairs, a[1])
  <2>1. Has(a, a[1]) BY <1>4 DEF Has
  <2>2. Has(a \o b, a[1]) BY <1>2, <1>10, <2>1, HasOf
  <2>3. a \o b \in Seq(EarlyBlock) BY <1>2, SequencesOf
  <2>4. Has((a \o b) \o c, a[1]) BY <1>2, <1>10, <2>2, <2>3, HasOf
  <2>5. (a \o b) \o c \in Seq(EarlyBlock) BY <1>2, <2>3, SequencesOf
  <2>6. Has(Rebuilds, a[1]) BY <1>2, <1>3, <1>10, <2>4, <2>5, HasOf
  <2> QED BY <1>6, <1>10, <2>6, HasOf
<1>12. Has(Rebuilds \o Repairs, e[1]) /\ Has(Rebuilds \o Repairs, f[1])
  <2>1. Has(e, e[1]) /\ Has(f, f[1]) BY <1>5 DEF Has
  <2>2. Has(Repairs, e[1]) /\ Has(Repairs, f[1]) BY <1>2, <1>3, <1>10, <2>1, HasOf
  <2> QED BY <1>6, <1>10, <2>2, HasOf
<1>13. \A j \in Joins : Has(Rebuilds \o Repairs, Block(8, "dangling", j, NULL, RebuildScript(j)))
  BY <1>5, <1>12 DEF Joins
<1> QED BY <1>4, <1>7, <1>8, <1>9, <1>11, <1>13

\* The script splits behind the rebuilds, and seven of its blocks are there.
LEMMA ScriptFacts ==
  /\ Split(Script) /\ Opens(Script)
  /\ Has(Script, Block(0, "always", "projects", NULL, <<Statement("schema", "projects", NULL, NULL)>>))
  /\ Has(Script, Block(2, "lacks", "labels", "workspace_id", RebuildScript("labels")))
  /\ \A j \in Joins : Has(Script, Block(8, "dangling", j, NULL, RebuildScript(j)))
  /\ Has(Script, Block(4, "orphans", "users", NULL, <<Statement("backfill", "users", NULL, NULL)>>))
  /\ Has(Script, ListBlock(1, "projects")) /\ Has(Script, ListBlock(3, "labels"))
  /\ Has(Script, ListBlock(6, "attachments"))
<1>1. /\ "projects" \in Base /\ "tasks" \in Base /\ "users" \in Base /\ "invites" \in Base
      /\ "workspaces" \in Base /\ "attachments" \in Base /\ "personal_access_tokens" \in Base
      /\ "assignees" \in Base
  BY DEF Base, Rebuilt, Scoped, Joins
<1>2. /\ "projects" \notin Rebuilt /\ "tasks" \notin Rebuilt /\ "assignees" \in Rebuilt
      /\ RebuiltColumns("assignees") = {"workspace_id", "color"}
  BY DEF Rebuilt, Scoped, Joins, RebuiltColumns
<1> DEFINE
  p1 == << Block(0, "always", "projects", NULL, <<Statement("schema", "projects", NULL, NULL)>>) >>
  p2 == Adds(1, "assignees", <<"color">>)
  p3 == Adds(1, "projects", <<"is_favorite">>)
  p4 == AddsOrder(1, "projects")
  p5 == Adds(1, "tasks", <<"section_id", "parent_task_id">>)
  p6 == Adds(2, "projects", <<"workspace_id">>)
  p7 == Adds(2, "tasks", <<"workspace_id">>)
  x == Rebuilds \o Repairs
  p9 == << Block(8, "retired", "assignees", NULL, RetireScript) >>
  p10 == Adds(4, "users", <<"organization_id">>)
  p11 == << Block(8, "has", "users", "team", <<Statement("remove", "users", NULL, "team")>>) >>
  p12 == Adds(4, "users", <<"domain_id", "weekly_capacity_hours">>)
  p13 == Adds(4, "invites", <<"project_id">>)
  p14 == Adds(4, "workspaces", <<"organization_id">>)
  p15 == Adds(5, "users", <<"email_verified_at", "totp_secret", "totp_enabled_at", "totp_recovery_codes">>)
  p16 == Backfill
  p17 == Adds(6, "attachments", <<"user_id", "caption">>)
  p18 == AddsOrder(6, "attachments")
  p19 == Adds(7, "personal_access_tokens", <<"oauth_client_id">>)
<1> DEFINE Plus == Columns \ {"team", "sort_order"}
<1>3. p1 \in Seq(EarlyBlock) BY SingleGood
<1>4. p2 \in Seq(EarlyBlock)
  <2>1. <<"color">> \in Seq(Plus) /\ \A i \in 1..Len(<<"color">>) : <<"color">>[i] = "color"
    BY DEF Columns
  <2>2. \A b \in GoodBlock : b.on = "assignees" /\ b.col = "color" => b \in EarlyBlock
    BY <1>2 DEF EarlyBlock, Early
  <2> QED BY <1>1, <2>1, <2>2, AddsGood
<1>5. ASSUME NEW t \in Base \ Rebuilt, NEW since \in Nat, NEW cs \in Seq(Plus)
      PROVE  Adds(since, t, cs) \in Seq(EarlyBlock)
  <2>1. \A b \in GoodBlock : b.on = t => b \in EarlyBlock BY DEF EarlyBlock, Early
  <2> QED BY <2>1, AddsGood
<1>6. p3 \in Seq(EarlyBlock)
  <2>1. <<"is_favorite">> \in Seq(Plus) BY DEF Columns
  <2> QED BY <1>1, <1>2, <1>5, <2>1
<1>7. p4 \in Seq(EarlyBlock)
  <2>1. \A b \in GoodBlock : b.on = "projects" => b \in EarlyBlock BY <1>2 DEF EarlyBlock, Early
  <2> QED BY <2>1, AddsOrderGood DEF Listed
<1>8. p5 \in Seq(EarlyBlock)
  <2>1. <<"section_id", "parent_task_id">> \in Seq(Plus) BY DEF Columns
  <2> QED BY <1>1, <1>2, <1>5, <2>1
<1>9. p6 \in Seq(EarlyBlock) /\ p7 \in Seq(EarlyBlock)
  <2>1. <<"workspace_id">> \in Seq(Plus) BY DEF Columns
  <2> QED BY <1>1, <1>2, <1>5, <2>1
<1>10. x \in Seq(EarlyBlock) /\ Orders \in Seq(LateBlock) /\ WorkspaceBlocks = x \o Orders
  BY WorkspaceBlocksGood
<1>11. p9 \in Seq(LateBlock) BY RetireGood
<1>12. ASSUME NEW t \in Base, NEW since \in Nat, NEW cs \in Seq(Plus)
       PROVE  Adds(since, t, cs) \in Seq(LateBlock)
  BY AddsGood DEF LateBlock
<1>13. p10 \in Seq(LateBlock) /\ p14 \in Seq(LateBlock)
  <2>1. <<"organization_id">> \in Seq(Plus) BY DEF Columns
  <2> QED BY <1>1, <1>12, <2>1
<1>14. p11 \in Seq(LateBlock) /\ p16 \in Seq(LateBlock) BY SingleGood
<1>15. p12 \in Seq(LateBlock)
  <2>1. <<"domain_id", "weekly_capacity_hours">> \in Seq(Plus) BY DEF Columns
  <2> QED BY <1>1, <1>12, <2>1
<1>16. p13 \in Seq(LateBlock)
  <2>1. <<"project_id">> \in Seq(Plus) BY DEF Columns
  <2> QED BY <1>1, <1>12, <2>1
<1>17. p15 \in Seq(LateBlock)
  <2>1. <<"email_verified_at", "totp_secret", "totp_enabled_at", "totp_recovery_codes">> \in Seq(Plus)
    BY DEF Columns
  <2> QED BY <1>1, <1>12, <2>1
<1>18. p17 \in Seq(LateBlock)
  <2>1. <<"user_id", "caption">> \in Seq(Plus) BY DEF Columns
  <2> QED BY <1>1, <1>12, <2>1
<1>19. p18 \in Seq(LateBlock) BY AddsOrderGood DEF Listed, LateBlock
<1>20. p19 \in Seq(LateBlock)
  <2>1. <<"oauth_client_id">> \in Seq(Plus) BY DEF Columns
  <2> QED BY <1>1, <1>12, <2>1
<1> DEFINE
  h == (((((p1 \o p2) \o p3) \o p4) \o p5) \o p6) \o p7
  m == h \o (x \o Orders)
  n == ((((((m \o p9) \o p10) \o p11) \o p12) \o p13) \o p14) \o p15
<1>21. Script = (((n \o p16) \o p17) \o p18) \o p19
  <2>1. Script = (((((((((((h \o WorkspaceBlocks) \o p9) \o p10) \o p11) \o p12) \o p13) \o p14) \o p15)
                    \o p16) \o p17) \o p18) \o p19
    BY DEF Script, RetireScript
  <2> QED BY <1>10, <2>1
<1>21a. p1 \in Seq(GoodBlock) => Opens(p1) BY DEF Opens, Block
<1>22. /\ Len(p1) = 1
       /\ p1[1] = Block(0, "always", "projects", NULL, <<Statement("schema", "projects", NULL, NULL)>>)
  OBVIOUS
<1>23. /\ Len(p16) = 1
       /\ p16[1] = Block(4, "orphans", "users", NULL, <<Statement("backfill", "users", NULL, NULL)>>)
  BY DEF Backfill
<1>23a. Len(p4) = 1 /\ p4[1] = ListBlock(1, "projects") BY DEF AddsOrder, ListBlock
<1>23b. Len(p18) = 1 /\ p18[1] = ListBlock(6, "attachments") BY DEF AddsOrder, ListBlock
<1>24. \A b : Has(WorkspaceBlocks, b) => Has(x \o Orders, b) BY <1>10
<1> HIDE DEF p1, p2, p3, p4, p5, p6, p7, x, p9, p10, p11, p12, p13, p14, p15, p16, p17, p18, p19
<1>25. h \in Seq(EarlyBlock) BY <1>3, <1>4, <1>6, <1>7, <1>8, <1>9, SequencesOf
<1>26. \A q : q \in Seq(EarlyBlock) \/ q \in Seq(LateBlock) \/ Split(q) => q \in Seq(GoodBlock)
  BY DEF EarlyBlock, LateBlock, Split
<1>27. ASSUME NEW b, Has(p1, b) \/ Has(p4, b) PROVE Has(h, b)
  <2> DEFINE q2 == p1 \o p2  q3 == q2 \o p3  q4 == q3 \o p4  q5 == q4 \o p5  q6 == q5 \o p6
  <2>1. q2 \in Seq(GoodBlock) /\ (Has(p1, b) => Has(q2, b)) BY <1>3, <1>4, <1>26, HasOf, SequencesOf
  <2>2. h = ((((q2 \o p3) \o p4) \o p5) \o p6) \o p7 OBVIOUS
  <2> HIDE DEF q2
  <2>3. q3 \in Seq(GoodBlock) /\ (Has(p1, b) => Has(q3, b)) BY <1>6, <1>26, <2>1, HasOf, SequencesOf
  <2>4. h = (((q3 \o p4) \o p5) \o p6) \o p7 BY <2>2
  <2> HIDE DEF q3
  <2>5. q4 \in Seq(GoodBlock) /\ Has(q4, b) BY <1>7, <1>26, <1>27, <2>3, HasOf, SequencesOf
  <2>6. h = ((q4 \o p5) \o p6) \o p7 BY <2>4
  <2> HIDE DEF q4
  <2>7. q5 \in Seq(GoodBlock) /\ Has(q5, b) BY <1>8, <1>26, <2>5, HasOf, SequencesOf
  <2>8. h = (q5 \o p6) \o p7 BY <2>6
  <2> HIDE DEF q5
  <2>9. q6 \in Seq(GoodBlock) /\ Has(q6, b) BY <1>9, <1>26, <2>7, HasOf, SequencesOf
  <2>10. h = q6 \o p7 BY <2>8
  <2> HIDE DEF q6
  <2> QED BY <1>9, <1>26, <2>9, <2>10, HasOf
<1>27a. Opens(h)
  <2>1. \A p, q : Opens(p) /\ q \in Seq(EarlyBlock) => Opens(p \o q) BY <1>26, OpensOf
  <2>2. Opens(((p1 \o p2) \o p3) \o p4) BY <1>3, <1>4, <1>6, <1>7, <1>21a, <1>26, <2>1
  <2> QED BY <1>8, <1>9, <2>1, <2>2
<1> HIDE DEF h
<1>28. Split(m) BY <1>10, <1>25, SplitOf
<1>29. ASSUME NEW b, Has(h, b) \/ Has(x, b) \/ Has(Orders, b) PROVE Has(m, b)
  <2>1. x \o Orders \in Seq(GoodBlock) BY <1>10, <1>26, SequencesOf
  <2>2. Has(x, b) \/ Has(Orders, b) => Has(x \o Orders, b) BY <1>10, <1>26, HasOf
  <2> QED BY <1>25, <1>26, <1>29, <2>1, <2>2, HasOf
<1>29a. Opens(m)
  <2>1. x \o Orders \in Seq(GoodBlock) BY <1>10, <1>26, SequencesOf
  <2> QED BY <1>27a, <2>1, OpensOf
<1> HIDE DEF m
<1>30. \A q, r, b : Split(q) /\ r \in Seq(LateBlock) =>
         Split(q \o r) /\ (Has(q, b) \/ Has(r, b) => Has(q \o r, b))
  BY <1>26, SplitOf, HasOf
<1>31. Split(n) /\ \A b : Has(m, b) => Has(n, b)
  <2>1. Split(m \o p9) /\ \A b : Has(m, b) => Has(m \o p9, b) BY <1>11, <1>28, <1>30
  <2> DEFINE q9 == m \o p9  q10 == q9 \o p10  q11 == q10 \o p11  q12 == q11 \o p12
             q13 == q12 \o p13  q14 == q13 \o p14
  <2>2. n = (((((q9 \o p10) \o p11) \o p12) \o p13) \o p14) \o p15 OBVIOUS
  <2>3. Split(q9) /\ \A b : Has(m, b) => Has(q9, b) BY <2>1
  <2> HIDE DEF q9
  <2>4. Split(q10) /\ \A b : Has(m, b) => Has(q10, b) BY <1>13, <1>30, <2>3
  <2> HIDE DEF q10
  <2>5. Split(q11) /\ \A b : Has(m, b) => Has(q11, b) BY <1>14, <1>30, <2>4
  <2> HIDE DEF q11
  <2>6. Split(q12) /\ \A b : Has(m, b) => Has(q12, b) BY <1>15, <1>30, <2>5
  <2> HIDE DEF q12
  <2>7. Split(q13) /\ \A b : Has(m, b) => Has(q13, b) BY <1>16, <1>30, <2>6
  <2> HIDE DEF q13
  <2>8. Split(q14) /\ \A b : Has(m, b) => Has(q14, b) BY <1>13, <1>30, <2>7
  <2>9. n = q14 \o p15 BY <2>2 DEF q9, q10, q11, q12, q13
  <2> HIDE DEF q14
  <2> QED BY <1>17, <1>30, <2>8, <2>9
<1>31a. \A p, q : Opens(p) /\ q \in Seq(LateBlock) => Opens(p \o q) BY <1>26, OpensOf
<1>31b. Opens(n)
  <2>1. Opens(((m \o p9) \o p10) \o p11) BY <1>11, <1>13, <1>14, <1>29a, <1>31a
  <2> QED BY <1>13, <1>15, <1>16, <1>17, <1>31a, <2>1
<1> HIDE DEF n
<1>31c. Opens(Script)
  <2>1. Opens((n \o p16) \o p17) BY <1>14, <1>18, <1>31a, <1>31b
  <2> QED BY <1>19, <1>20, <1>21, <1>31a, <2>1
<1>32. Split(Script) /\ \A b : Has(n, b) \/ Has(p16, b) \/ Has(p18, b) => Has(Script, b)
  <2> DEFINE q16 == n \o p16  q17 == q16 \o p17  q18 == q17 \o p18
  <2>1. Split(q16) /\ \A b : Has(n, b) \/ Has(p16, b) => Has(q16, b) BY <1>14, <1>30, <1>31
  <2> HIDE DEF q16
  <2>2. Split(q17) /\ \A b : Has(q16, b) => Has(q17, b) BY <1>18, <1>30, <2>1
  <2> HIDE DEF q17
  <2>3. Split(q18) /\ \A b : Has(q17, b) \/ Has(p18, b) => Has(q18, b) BY <1>19, <1>30, <2>2
  <2>4. Script = q18 \o p19 BY <1>21 DEF q16, q17
  <2> HIDE DEF q18
  <2>5. Split(Script) /\ \A b : Has(q18, b) => Has(Script, b) BY <1>20, <1>30, <2>3, <2>4
  <2> QED BY <2>1, <2>2, <2>3, <2>5
<1>33. Has(Script, p1[1])
  <2>1. Has(p1, p1[1]) BY <1>22 DEF Has
  <2> QED BY <1>27, <1>29, <1>31, <1>32, <2>1
<1>34. Has(Script, p16[1])
  <2>1. Has(p16, p16[1]) BY <1>23 DEF Has
  <2> QED BY <1>32, <2>1
<1>35. \A b : Has(x, b) => Has(Script, b) BY <1>29, <1>31, <1>32
<1>36. Has(Script, Block(2, "lacks", "labels", "workspace_id", RebuildScript("labels")))
  BY <1>35, WorkspaceBlocksGood DEF x
<1>37. \A j \in Joins : Has(Script, Block(8, "dangling", j, NULL, RebuildScript(j)))
  BY <1>35, WorkspaceBlocksGood DEF x
<1>38. Has(Script, ListBlock(1, "projects"))
  <2>1. Has(p4, p4[1]) BY <1>23a DEF Has
  <2> QED BY <1>27, <1>29, <1>31, <1>32, <1>23a, <2>1
<1>39. Has(Script, ListBlock(3, "labels")) /\ Has(Script, ListBlock(6, "attachments"))
  <2>1. Has(p18, p18[1]) BY <1>23b DEF Has
  <2> QED BY <1>29, <1>31, <1>32, <1>23b, <2>1, WorkspaceBlocksGood
<1> QED BY <1>22, <1>23, <1>31c, <1>32, <1>33, <1>34, <1>36, <1>37, <1>38, <1>39

LEMMA ScriptGood == Script \in Seq(GoodBlock)
BY ScriptFacts DEF Split

LEMMA BlockAt ==
  ASSUME NEW i \in 1..Len(Script)
  PROVE  Script[i] \in GoodBlock
BY ScriptGood

\* What a block looks like, and what is plain about it.
LEMMA BlockShape ==
  ASSUME NEW b \in GoodBlock
  PROVE  /\ b.do \in Seq(StatementRow) /\ Len(b.do) \in Nat \ {0}
         /\ b.col \in Columns \cup {NULL} /\ b.if \in Conditions
         /\ b.if = "lacks" => b.col \in Columns
         /\ Plain(b) \/ Retiring(b) \/ \E t \in Rebuilt : Rebuilding(b, t)
<1>1. b \in BlockRow BY DEF GoodBlock
<1>2. b.do \in Seq(StatementRow) /\ b.col \in Columns \cup {NULL} /\ b.if \in Conditions
  BY <1>1 DEF BlockRow
<1>3. Len(b.do) \in Nat BY <1>2
<1>4. CASE Adding(b) \/ Creating(b) \/ Removing(b) \/ Filling(b)
  <2>1. Plain(b) /\ (b.if = "lacks" => b.col \in Columns) BY <1>4, AddingPlain, SinglePlain
  <2>2. Len(b.do) \in 1..2 BY <2>1 DEF Plain
  <2>3. \A n \in 1..2 : n \in Nat \ {0} OBVIOUS
  <2>4. Len(b.do) \in Nat \ {0} BY <2>2, <2>3, Zenon
  <2> QED BY <1>2, <2>1, <2>4
<1>5. CASE Scoping(b) \/ Repairing(b)
  <2>1. b.on \in Rebuilt /\ b.do = RebuildScript(b.on) /\ b.if # "retired"
    BY <1>5 DEF Scoping, Repairing, Rebuilt
  <2>2. b.if = "lacks" => b.col \in Columns BY <1>5 DEF Scoping, Repairing, Columns
  <2>3. Len(b.do) = 4 BY <2>1, FirstStatements
  <2> QED BY <1>2, <2>1, <2>2, <2>3 DEF Rebuilding
<1>6. CASE Retiring(b)
  <2>1. b.do = RetireScript /\ b.if # "lacks" BY <1>6 DEF Retiring
  <2>2. Len(b.do) = 2 BY <2>1, FirstStatements
  <2> QED BY <1>2, <1>6, <2>1, <2>2
<1> QED BY <1>4, <1>5, <1>6 DEF GoodBlock

LEMMA ColumnsOfTyped ==
  ASSUME NEW t, NEW release
  PROVE  ColumnsOf(t, release) \in SUBSET Columns
<1>1. ASSUME NEW i \in DOMAIN Script, Script[i].if = "lacks" PROVE Script[i].col \in Columns
  <2>1. Script[i] \in GoodBlock BY ScriptGood, BlockAt
  <2> QED BY <2>1, <1>1, BlockShape
<1> QED BY <1>1 DEF ColumnsOf

LEMMA RefOfTyped == \A t : RefOf(t) \in Names \cup {NULL}
BY BaseNames DEF RefOf, Home, Base, Rebuilt, Scoped

LEMMA TableTyped ==
  ASSUME NEW t, NEW columns \in SUBSET Columns
  PROVE  Table(t, columns) \in TableRow /\ Table(t, columns).rows = {}
BY RefOfTyped DEF Table, TableRow, Orderings

LEMMA RebuiltColumnsTyped == \A t : RebuiltColumns(t) \in SUBSET Columns
BY DEF RebuiltColumns, Columns

------------------------------------------------------------------------------
(* What a statement does, one operation at a time.                         *)

TablesType == [Names -> TableRow \cup {NULL}]

\* The rows of a table of T.
RowsAt(T, n) == IF T[n] # NULL THEN T[n].rows ELSE {}

LEMMA RowsAtTyped ==
  ASSUME NEW T \in TablesType, NEW n \in Names
  PROVE  RowsAt(T, n) \in SUBSET Rows
BY DEF TablesType, RowsAt, TableRow

\* One table is replaced by a new state of it.
LEMMA TableReplaced ==
  ASSUME NEW T \in TablesType, NEW n \in Names, NEW row \in TableRow, NEW U, U = [T EXCEPT ![n] = row]
  PROVE  /\ U \in TablesType
         /\ RowsAt(U, n) = row.rows
         /\ \A m \in Names \ {n} : RowsAt(U, m) = RowsAt(T, m)
<1>1. row # NULL BY NullIsNoTable
<1>2. U \in TablesType BY DEF TablesType
<1>3. U[n] = row /\ \A m \in Names \ {n} : U[m] = T[m] BY DEF TablesType
<1>4. RowsAt(U, n) = row.rows BY <1>1, <1>3 DEF RowsAt
<1>5. \A m \in Names \ {n} : RowsAt(U, m) = RowsAt(T, m) BY <1>3 DEF RowsAt
<1> QED BY <1>2, <1>4, <1>5

LEMMA AfterPlain ==
  ASSUME tables \in TablesType, NEW s \in StatementRow, s.op \in PlainOps,
         s.op = "add" => s.col \in Columns, ~Throws(s)
  PROVE  /\ AfterStatement(s) \in TablesType
         /\ \A n \in Names : RowsAt(tables, n) \subseteq RowsAt(AfterStatement(s), n)
<1>1. s.on \in Names BY DEF StatementRow
<1>2. CASE s.op = "schema"
  <2> DEFINE T == [n \in Names |-> IF n \in Current /\ ~HasTable(n)
                                   THEN Table(n, ColumnsOf(n, 8)) ELSE tables[n]]
  <2>1. AfterStatement(s) = T BY <1>2 DEF AfterStatement
  <2>2. \A n \in Names : Table(n, ColumnsOf(n, 8)) \in TableRow BY ColumnsOfTyped, TableTyped
  <2>3. T \in TablesType BY <2>2 DEF TablesType
  <2>4. \A n \in Names : tables[n] # NULL => T[n] = tables[n] BY DEF HasTable
  <2> HIDE DEF T
  <2>5. \A n \in Names : RowsAt(tables, n) \subseteq RowsAt(T, n) BY <2>4 DEF RowsAt
  <2> QED BY <2>1, <2>3, <2>5
<1>3. CASE s.op \in {"add", "remove", "order"}
  <2>1. tables[s.on] # NULL /\ tables[s.on] \in TableRow
    BY <1>1, <1>3 DEF Throws, HasTable, TablesType
  <2>2. tables[s.on].cols \in SUBSET Columns BY <2>1 DEF TableRow
  <2>3. PICK new \in TableRow :
          new.rows = tables[s.on].rows /\ AfterStatement(s) = [tables EXCEPT ![s.on] = new]
    <3>1. CASE s.op = "add"
      <4> DEFINE new == [tables[s.on] EXCEPT !.cols = @ \cup {s.col}]
      <4>1. new \in TableRow /\ new.rows = tables[s.on].rows BY <2>1, <2>2, <3>1 DEF TableRow
      <4>2. AfterStatement(s) = [tables EXCEPT ![s.on] = new] BY <3>1 DEF AfterStatement
      <4> QED BY <4>1, <4>2
    <3>2. CASE s.op = "remove"
      <4> DEFINE new == [tables[s.on] EXCEPT !.cols = @ \ {s.col}]
      <4>1. new \in TableRow /\ new.rows = tables[s.on].rows BY <2>1, <2>2 DEF TableRow
      <4>2. AfterStatement(s) = [tables EXCEPT ![s.on] = new] BY <3>2 DEF AfterStatement
      <4> QED BY <4>1, <4>2
    <3>3. CASE s.op = "order"
      <4> DEFINE new == [tables[s.on] EXCEPT !.order = "listed"]
      <4>1. new \in TableRow /\ new.rows = tables[s.on].rows BY <2>1 DEF TableRow, Orderings
      <4>2. AfterStatement(s) = [tables EXCEPT ![s.on] = new] BY <3>3 DEF AfterStatement
      <4> QED BY <4>1, <4>2
    <3> QED BY <1>3, <3>1, <3>2, <3>3
  <2>4. AfterStatement(s) \in TablesType BY <1>1, <2>3 DEF TablesType
  <2>5. AfterStatement(s)[s.on] = new /\ \A m \in Names \ {s.on} : AfterStatement(s)[m] = tables[m]
    BY <1>1, <2>3 DEF TablesType
  <2>6. \A n \in Names : RowsAt(tables, n) = RowsAt(AfterStatement(s), n)
    BY <2>1, <2>3, <2>5, NullIsNoTable DEF RowsAt
  <2> QED BY <2>4, <2>6
<1>4. CASE s.op = "backfill"
  <2>1. AfterStatement(s) = tables BY <1>4 DEF AfterStatement
  <2> QED BY <2>1
<1> QED BY <1>2, <1>3, <1>4 DEF PlainOps

\* The four statements of a rebuild.
LEMMA AfterCreate ==
  ASSUME tables \in TablesType, NEW t \in Rebuilt, NEW T,
         T = AfterStatement(Statement("create", Temp(t), t, NULL))
  PROVE  /\ T \in TablesType
         /\ RowsAt(T, Temp(t)) = {}
         /\ \A m \in Names \ {Temp(t)} : RowsAt(T, m) = RowsAt(tables, m)
<1> DEFINE row == Table(t, RebuiltColumns(t))
<1>1. T = [tables EXCEPT ![Temp(t)] = row] BY DEF AfterStatement, Statement
<1>2. row \in TableRow /\ row.rows = {} BY RebuiltColumnsTyped, TableTyped
<1> HIDE DEF row
<1>3. Temp(t) \in Names BY TempFacts
<1> QED BY <1>1, <1>2, <1>3, TableReplaced

LEMMA AfterCopy ==
  ASSUME tables \in TablesType, NEW t \in Rebuilt, NEW T,
         T = AfterStatement(Statement("copy", t, Temp(t), NULL)),
         ~Throws(Statement("copy", t, Temp(t), NULL))
  PROVE  /\ T \in TablesType
         /\ RowsAt(T, Temp(t)) = RowsAt(tables, t)
         /\ \A m \in Names \ {Temp(t)} : RowsAt(T, m) = RowsAt(tables, m)
<1>1. t \in Names /\ Temp(t) \in Names BY TempFacts, BaseNames
<1>2. tables[t] # NULL /\ tables[Temp(t)] # NULL BY DEF Throws, Statement, HasTable
<1>3. tables[t] \in TableRow /\ tables[Temp(t)] \in TableRow BY <1>1, <1>2 DEF TablesType
<1> DEFINE o == IF t \in CopiesOrder THEN tables[t].order ELSE "flat"
           row == [tables[Temp(t)] EXCEPT !.rows = tables[t].rows, !.order = o]
<1>4. o \in Orderings BY <1>3 DEF TableRow, Orderings
<1>5. T = [tables EXCEPT ![Temp(t)].rows = tables[t].rows, ![Temp(t)].order = o]
  BY DEF AfterStatement, Statement
<1>6. T = [tables EXCEPT ![Temp(t)] = row] BY <1>1, <1>5 DEF TablesType
<1>7. row \in TableRow /\ row.rows = tables[t].rows BY <1>3, <1>4 DEF TableRow
<1> HIDE DEF row, o
<1>8. RowsAt(tables, t) = row.rows BY <1>2, <1>7 DEF RowsAt
<1> QED BY <1>1, <1>6, <1>7, <1>8, TableReplaced

LEMMA AfterDrop ==
  ASSUME tables \in TablesType, NEW t \in Names, NEW op \in {"drop", "dropif"}, NEW T,
         T = AfterStatement(Statement(op, t, NULL, NULL))
  PROVE  /\ T \in TablesType
         /\ RowsAt(T, t) = {}
         /\ \A m \in Names \ {t} : RowsAt(T, m) = RowsAt(tables, m)
<1>1. T = [tables EXCEPT ![t] = NULL]
  <2>1. CASE op = "drop" BY <2>1 DEF AfterStatement, Statement
  <2>2. CASE op = "dropif" BY <2>2 DEF AfterStatement, Statement
  <2> QED BY <2>1, <2>2
<1>2. T \in TablesType BY <1>1 DEF TablesType
<1>3. T[t] = NULL /\ \A m \in Names \ {t} : T[m] = tables[m] BY <1>1 DEF TablesType
<1> QED BY <1>2, <1>3 DEF RowsAt

LEMMA AfterRename ==
  ASSUME tables \in TablesType, NEW t \in Rebuilt, NEW T,
         T = AfterStatement(Statement("rename", Temp(t), t, NULL)),
         ~Throws(Statement("rename", Temp(t), t, NULL))
  PROVE  /\ T \in TablesType
         /\ RowsAt(tables, t) = {}
         /\ RowsAt(T, t) = RowsAt(tables, Temp(t))
         /\ \A m \in Names \ {t, Temp(t)} : RowsAt(T, m) = RowsAt(tables, m)
<1>1. t \in Names /\ Temp(t) \in Names /\ t # Temp(t) BY TempFacts, BaseNames
<1>2. tables[t] = NULL BY DEF Throws, Statement, HasTable
<1> DEFINE Refers(n) == n \in Joins /\ HasTable(n) /\ tables[n].ref = Temp(t)
           new(n) == [tables[n] EXCEPT !.ref = t]
<1>3. T = [n \in Names |-> CASE n = t -> tables[Temp(t)]
                             [] n = Temp(t) -> NULL
                             [] Refers(n) -> new(n)
                             [] OTHER -> tables[n]]
  BY DEF AfterStatement, Statement
<1>4. \A n \in Names : Refers(n) => new(n) \in TableRow /\ new(n).rows = tables[n].rows
  BY <1>1 DEF HasTable, TablesType, TableRow
<1>5. ~Refers(t) /\ ~Refers(Temp(t))
  BY <1>2, TempFacts, BaseNames DEF HasTable, Rebuilt
<1> HIDE DEF Refers, new
<1>6. /\ T[t] = tables[Temp(t)] /\ T[Temp(t)] = NULL
      /\ \A n \in Names \ {t, Temp(t)} :
           /\ Refers(n) => T[n] = new(n)
           /\ ~Refers(n) => T[n] = tables[n]
  <2>1. T[t] = tables[Temp(t)] BY <1>1, <1>3, <1>5
  <2>2. T[Temp(t)] = NULL BY <1>1, <1>3, <1>5
  <2>3. ASSUME NEW n \in Names \ {t, Temp(t)}, Refers(n) PROVE T[n] = new(n) BY <1>3, <2>3
  <2>4. ASSUME NEW n \in Names \ {t, Temp(t)}, ~Refers(n) PROVE T[n] = tables[n] BY <1>3, <2>4
  <2> QED BY <2>1, <2>2, <2>3, <2>4
<1>7. ASSUME NEW n \in Names \ {t, Temp(t)}
      PROVE  T[n] \in TableRow \cup {NULL} /\ RowsAt(T, n) = RowsAt(tables, n)
  <2>1. CASE Refers(n)
    <3>1. tables[n] # NULL BY <2>1 DEF Refers, HasTable
    <3>2. T[n] \in TableRow /\ T[n].rows = tables[n].rows BY <1>4, <1>6, <2>1
    <3> QED BY <3>1, <3>2, NullIsNoTable DEF RowsAt
  <2>2. CASE ~Refers(n) BY <1>6, <2>2 DEF RowsAt, TablesType
  <2> QED BY <2>1, <2>2
<1>8. T \in TablesType
  <2>1. \A n \in Names : T[n] \in TableRow \cup {NULL} BY <1>1, <1>6, <1>7 DEF TablesType
  <2> QED BY <1>3, <2>1 DEF TablesType
<1> QED BY <1>2, <1>6, <1>7, <1>8 DEF RowsAt

LEMMA AccountsTyped ==
  ASSUME NEW s, accounts \in [People -> Account \cup {NULL}]
  PROVE  AfterAccounts(s) \in [People -> Account \cup {NULL}]
<1>1. ASSUME NEW u \in People, accounts[u] # NULL
      PROVE  [org |-> TRUE, role |-> Translated(accounts[u].role)] \in Account
  <2>1. accounts[u].role \in Roles \cup OldRoles BY <1>1 DEF Account
  <2>2. Translated(accounts[u].role) \in Roles \cup OldRoles
    BY <2>1 DEF Translated, Roles, OldRoles
  <2> QED BY <2>2 DEF Account
<1> QED BY <1>1 DEF AfterAccounts

------------------------------------------------------------------------------
(* The invariant.                                                          *)

\* What is true between the statements of a rebuild and of a retirement.
Rebuilding2(t) == stmt = 2 => RowsAt(tables, Temp(t)) = {}
Rebuilding3(t) == stmt = 3 => RowsAt(tables, t) \subseteq RowsAt(tables, Temp(t))

HalfWay ==
  /\ \A t \in Rebuilt : Script[block].do = RebuildScript(t) => Rebuilding2(t) /\ Rebuilding3(t)
  /\ Script[block].do = RetireScript /\ stmt = 2 => RowsAt(tables, "assignees") = {}

BootInv == TypeOK /\ HalfWay /\ (phase # "booting" => stmt = 1)

LEMMA StmtOne ==
  ASSUME stmt = 1
  PROVE  HalfWay
BY DEF HalfWay, Rebuilding2, Rebuilding3

\* The rows of a table and of the one it is rebuilt in.
LEMMA RowsOfBoth ==
  ASSUME NEW t \in Rebuilt
  PROVE  RowsOf(t) = RowsAt(tables, t) \cup RowsAt(tables, Temp(t))
BY DEF RowsOf, Copies, RowsIn, HasTable, RowsAt

LEMMA UpgradedTyped ==
  ASSUME NEW r \in Releases, NEW legacy \in BOOLEAN, NEW marked \in BOOLEAN, NEW team \in BOOLEAN,
         NEW rows \in SUBSET Rows, NEW order \in {"listed", "chosen"}
  PROVE  Upgraded(r, legacy, marked, team, rows, order) \in TablesType
<1> DEFINE
      row(n) == [cols |-> ColumnsOf(n, r) \cup (IF n = "users" /\ team THEN {"team"} ELSE {}),
                 rows |-> IF n \in Rebuilt THEN rows ELSE {},
                 order |-> IF "sort_order" \in ColumnsOf(n, r) \/ n \in {"statuses", "priorities"}
                           THEN order ELSE "flat",
                 ref |-> IF n \in Joins /\ marked THEN OldHome(n) ELSE RefOf(n)]
<1>1. ASSUME NEW n \in Names PROVE row(n) \in TableRow
  <2> DEFINE c == ColumnsOf(n, r) \cup (IF n = "users" /\ team THEN {"team"} ELSE {})
             w == IF n \in Rebuilt THEN rows ELSE {}
             o == IF "sort_order" \in ColumnsOf(n, r) \/ n \in {"statuses", "priorities"}
                  THEN order ELSE "flat"
             f == IF n \in Joins /\ marked THEN OldHome(n) ELSE RefOf(n)
  <2>1. c \in SUBSET Columns BY ColumnsOfTyped DEF Columns
  <2>2. w \in SUBSET Rows OBVIOUS
  <2>3. o \in Orderings BY DEF Orderings
  <2>4. f \in Names \cup {NULL} BY RefOfTyped DEF OldHome, Names
  <2> HIDE DEF c, w, o, f
  <2>5. [cols |-> c, rows |-> w, order |-> o, ref |-> f] \in TableRow
    BY <2>1, <2>2, <2>3, <2>4 DEF TableRow
  <2> QED BY <2>5 DEF c, w, o, f
<1> HIDE DEF row
<1>2. Upgraded(r, legacy, marked, team, rows, order) =
        [n \in Names |->
           IF n \notin Base \/ (n \in Legacy /\ ~legacy) \/ (n = "personal_access_tokens" /\ r < 6)
           THEN NULL ELSE row(n)]
  BY DEF Upgraded, row
<1> QED BY <1>1, <1>2 DEF TablesType

LEMMA FirstBlock == 1 \in 1..Len(Script) /\ \A i \in 1..Len(Script) : 1 \in 1..Len(Script[i].do)
<1>1. Len(Script) \in Nat BY ScriptGood
<1>2. Len(Script) # 0
  <2>1. Script # << >>
    BY DEF Script
  <2> QED BY <2>1, ScriptGood
<1>3. \A i \in 1..Len(Script) : Len(Script[i].do) \in Nat \ {0} BY BlockAt, BlockShape
<1> QED BY <1>1, <1>2, <1>3

LEMMA InitInv == Init => BootInv
<1> SUFFICES ASSUME Init PROVE BootInv OBVIOUS
<1>1. phase = "down" /\ block = 1 /\ stmt = 1 BY DEF Init
<1>2. tables \in TablesType /\ accounts \in [People -> Account \cup {NULL}] /\ unplaced \in BOOLEAN
  <2>1. CASE tables = NoTables /\ accounts = [u \in People |-> NULL] /\ unplaced = FALSE
    BY <2>1 DEF NoTables, TablesType
  <2>2. ASSUME NEW r \in Releases, NEW legacy \in BOOLEAN, NEW marked \in BOOLEAN,
               NEW team \in BOOLEAN, NEW rows \in SUBSET Rows, NEW order \in {"listed", "chosen"},
               tables = Upgraded(r, legacy, marked, team, rows, order),
               accounts \in [People -> {NULL} \cup [org : {r >= 4}, role : Ranks(r)]],
               unplaced \in BOOLEAN, r \notin {2, 3} => ~unplaced
        PROVE  /\ tables \in TablesType /\ accounts \in [People -> Account \cup {NULL}]
               /\ unplaced \in BOOLEAN
    <3>1. tables \in TablesType BY <2>2, UpgradedTyped
    <3>2. (r >= 4) \in BOOLEAN OBVIOUS
    <3>3. Ranks(r) \subseteq Roles \cup OldRoles BY DEF Ranks
    <3>4. [org : {r >= 4}, role : Ranks(r)] \subseteq Account BY <3>2, <3>3 DEF Account
    <3>5. accounts \in [People -> Account \cup {NULL}] BY <2>2, <3>4
    <3>6. unplaced \in BOOLEAN BY <2>2
    <3> QED BY <3>1, <3>5, <3>6
  <2>3. CASE ~(tables = NoTables /\ accounts = [u \in People |-> NULL] /\ unplaced = FALSE)
    <3>1. PICK r \in Releases, legacy, marked, team \in BOOLEAN, rows \in SUBSET Rows,
               order \in {"listed", "chosen"} :
            /\ tables = Upgraded(r, legacy, marked, team, rows, order)
            /\ accounts \in [People -> {NULL} \cup [org : {r >= 4}, role : Ranks(r)]]
            /\ unplaced \in BOOLEAN /\ (r \notin {2, 3} => ~unplaced)
      BY <2>3, ZenonT(30) DEF Init
    <3> QED BY <2>2, <3>1
  <2> QED BY <2>1, <2>3
<1>3. TypeOK BY <1>1, <1>2, FirstBlock DEF TypeOK, TablesType
<1> QED BY <1>1, <1>3, StmtOne DEF BootInv

------------------------------------------------------------------------------
(* A statement of a boot.                                                  *)

\* Different tables are rebuilt by different scripts, and none is the
\* retirement of the old tables.
LEMMA ScriptsDiffer ==
  /\ \A t, u \in Rebuilt : RebuildScript(t) = RebuildScript(u) => t = u
  /\ \A t \in Rebuilt : RebuildScript(t) # RetireScript
<1>1. \A t : RebuildScript(t)[2].on = t BY DEF RebuildScript, Statement
<1>2. \A t : RebuildScript(t)[1].op = "create" BY DEF RebuildScript, Statement
<1>3. RetireScript[1].op = "dropif" BY DEF RetireScript, Statement
<1>4. \A t, u \in Rebuilt : RebuildScript(t) = RebuildScript(u) => t = u BY <1>1
<1>5. \A t \in Rebuilt : RebuildScript(t) # RetireScript BY <1>2, <1>3
<1> QED BY <1>4, <1>5

\* A plain block is neither.
LEMMA PlainDiffers ==
  ASSUME NEW b, Plain(b)
  PROVE  b.do # RetireScript /\ \A t \in Rebuilt : b.do # RebuildScript(t)
<1>1. 1 \in 1..Len(b.do) => b.do[1].op \in PlainOps BY DEF Plain
<1>2. 1 \in 1..Len(RetireScript) /\ RetireScript[1].op = "dropif" BY DEF RetireScript, Statement
<1>3. \A t \in Rebuilt : 1 \in 1..Len(RebuildScript(t)) /\ RebuildScript(t)[1].op = "create"
  BY DEF RebuildScript, Statement
<1>4. "create" \notin PlainOps /\ "dropif" \notin PlainOps BY DEF PlainOps
<1> QED BY <1>1, <1>2, <1>3, <1>4

Kept(t) ==
  RowsAt(tables, t) \cup RowsAt(tables, Temp(t))
    \subseteq RowsAt(tables', t) \cup RowsAt(tables', Temp(t))

\* No statement loses a row, and what has to be true before the next one is.
LEMMA RunKeeps ==
  ASSUME BootInv, Run
  PROVE  /\ tables' \in TablesType
         /\ \A t \in Rebuilt : Kept(t)
         /\ HalfWay'
<1> DEFINE b == Script[block]
           s == b.do[stmt]
<1>1. /\ tables \in TablesType /\ block \in 1..Len(Script) /\ stmt \in 1..Len(b.do)
  BY DEF BootInv, TypeOK, TablesType
<1>2. /\ b \in GoodBlock /\ s \in StatementRow
  BY <1>1, BlockAt, BlockShape
<1>3. /\ (stmt = 1 => Applies(b)) /\ ~Throws(s) /\ tables' = AfterStatement(s)
      /\ stmt' = 1 \/ (stmt' = stmt + 1 /\ block' = block)
  BY DEF Run, NextBlock, Entering
<1>4. HalfWay BY DEF BootInv
<1>5. CASE Plain(b)
  <2>1. s.op \in PlainOps /\ (s.op = "add" => s.col \in Columns) BY <1>1, <1>5 DEF Plain
  <2>2. /\ tables' \in TablesType
        /\ \A n \in Names : RowsAt(tables, n) \subseteq RowsAt(tables', n)
    BY <1>1, <1>2, <1>3, <2>1, AfterPlain
  <2>3. \A t \in Rebuilt : Kept(t)
    BY <2>2, TempFacts, BaseNames DEF Kept
  <2>4. CASE stmt' = 1 BY <2>2, <2>3, <2>4 DEF HalfWay, Rebuilding2, Rebuilding3
  <2>5. CASE block' = block
    <3>1. Script[block'].do = b.do BY <2>5
    <3>2. HalfWay' BY <3>1, <1>5, PlainDiffers DEF HalfWay
    <3> QED BY <2>2, <2>3, <3>2
  <2> QED BY <1>3, <2>4, <2>5
<1>6. ASSUME NEW t \in Rebuilt, Rebuilding(b, t)
      PROVE  /\ tables' \in TablesType
             /\ \A u \in Rebuilt : Kept(u)
             /\ HalfWay'
  <2>1. b.do = RebuildScript(t) BY <1>6 DEF Rebuilding
  <2>2. t \in Names /\ Temp(t) \in Names /\ t # Temp(t) BY TempFacts, BaseNames
  <2>3. \A u \in Rebuilt : u \in Names /\ Temp(u) \in Names /\ u # Temp(t) /\ t # Temp(u)
                           /\ (u # t => Temp(u) # Temp(t))
    BY TempFacts, BaseNames
  <2>4. /\ Len(b.do) = 4 /\ b.do[1] = Statement("create", Temp(t), t, NULL)
        /\ b.do[2] = Statement("copy", t, Temp(t), NULL) /\ b.do[3] = Statement("drop", t, NULL, NULL)
        /\ b.do[4] = Statement("rename", Temp(t), t, NULL)
    BY <2>1 DEF RebuildScript
  <2>5. ASSUME Rebuilding2(t)', Rebuilding3(t)' PROVE HalfWay'
    <3>1. CASE stmt' = 1 BY <3>1 DEF HalfWay, Rebuilding2, Rebuilding3
    <3>2. CASE block' = block
      <4>1. Script[block'].do = RebuildScript(t) BY <3>2, <2>1
      <4> QED BY <4>1, <2>5, ScriptsDiffer DEF HalfWay
    <3> QED BY <1>3, <3>1, <3>2
  <2>6. CASE stmt = 1
    <3>1. tables[Temp(t)] = NULL BY <1>3, <2>4, <2>6 DEF Throws, Statement, HasTable
    <3>2. /\ tables' \in TablesType /\ RowsAt(tables', Temp(t)) = {}
          /\ \A m \in Names \ {Temp(t)} : RowsAt(tables', m) = RowsAt(tables, m)
      BY <1>1, <1>3, <2>4, <2>6, AfterCreate
    <3>3. RowsAt(tables, Temp(t)) = {} BY <3>1 DEF RowsAt
    <3>4. \A m \in Names : RowsAt(tables', m) = RowsAt(tables, m) BY <3>2, <3>3
    <3>5. \A u \in Rebuilt : Kept(u) BY <3>4, <2>3 DEF Kept
    <3>6. Rebuilding2(t)' /\ Rebuilding3(t)' BY <1>3, <2>6, <3>2 DEF Rebuilding2, Rebuilding3
    <3> QED BY <2>5, <3>2, <3>5, <3>6
  <2>7. CASE stmt = 2
    <3>1. RowsAt(tables, Temp(t)) = {} BY <1>4, <2>1, <2>7 DEF HalfWay, Rebuilding2
    <3>2. /\ tables' \in TablesType /\ RowsAt(tables', Temp(t)) = RowsAt(tables, t)
          /\ \A m \in Names \ {Temp(t)} : RowsAt(tables', m) = RowsAt(tables, m)
      BY <1>1, <1>3, <2>4, <2>7, AfterCopy
    <3>3. \A m \in Names : RowsAt(tables, m) \subseteq RowsAt(tables', m) BY <3>1, <3>2
    <3>4. \A u \in Rebuilt : Kept(u) BY <3>3, <2>3 DEF Kept
    <3>5. RowsAt(tables', t) = RowsAt(tables, t) BY <3>2, <2>2
    <3>6. Rebuilding2(t)' /\ Rebuilding3(t)'
      BY <1>3, <2>7, <3>2, <3>5 DEF Rebuilding2, Rebuilding3
    <3> QED BY <2>5, <3>2, <3>4, <3>6
  <2>8. CASE stmt = 3
    <3>1. RowsAt(tables, t) \subseteq RowsAt(tables, Temp(t))
      BY <1>4, <2>1, <2>8 DEF HalfWay, Rebuilding3
    <3>2. tables' = AfterStatement(Statement("drop", t, NULL, NULL)) BY <1>3, <2>4, <2>8
    <3>3. /\ tables' \in TablesType
          /\ \A m \in Names \ {t} : RowsAt(tables', m) = RowsAt(tables, m)
      BY <1>1, <2>2, <3>2, AfterDrop
    <3>4. RowsAt(tables', Temp(t)) = RowsAt(tables, Temp(t)) BY <2>2, <3>3
    <3>5. Kept(t) BY <3>1, <3>4 DEF Kept
    <3>6. ASSUME NEW u \in Rebuilt, u # t PROVE Kept(u)
      <4>1. RowsAt(tables', u) = RowsAt(tables, u) /\ RowsAt(tables', Temp(u)) = RowsAt(tables, Temp(u))
        BY <2>3, <3>3, <3>6
      <4> QED BY <4>1 DEF Kept
    <3>7. Rebuilding2(t)' /\ Rebuilding3(t)' BY <1>3, <2>8 DEF Rebuilding2, Rebuilding3
    <3> QED BY <2>5, <3>3, <3>5, <3>6, <3>7
  <2>9. CASE stmt = 4
    <3>1. /\ tables' \in TablesType /\ RowsAt(tables, t) = {}
          /\ RowsAt(tables', t) = RowsAt(tables, Temp(t))
          /\ \A m \in Names \ {t, Temp(t)} : RowsAt(tables', m) = RowsAt(tables, m)
      BY <1>1, <1>3, <2>4, <2>9, AfterRename
    <3>2. Kept(t) BY <3>1 DEF Kept
    <3>3. ASSUME NEW u \in Rebuilt, u # t PROVE Kept(u)
      <4>1. RowsAt(tables', u) = RowsAt(tables, u) /\ RowsAt(tables', Temp(u)) = RowsAt(tables, Temp(u))
        BY <2>3, <3>1, <3>3
      <4> QED BY <4>1 DEF Kept
    <3>4. Rebuilding2(t)' /\ Rebuilding3(t)' BY <1>3, <2>9 DEF Rebuilding2, Rebuilding3
    <3> QED BY <2>5, <3>1, <3>2, <3>3, <3>4
  <2>10. stmt \in 1..4 BY <1>1, <2>4
  <2> QED BY <2>6, <2>7, <2>8, <2>9, <2>10
<1>7. CASE Retiring(b)
  <2>1. b.do = RetireScript /\ b.if = "retired" BY <1>7 DEF Retiring
  <2>2. /\ Len(b.do) = 2 /\ b.do[1] = Statement("dropif", "task_assignees", NULL, NULL)
        /\ b.do[2] = Statement("dropif", "assignees", NULL, NULL)
    BY <2>1 DEF RetireScript
  <2>3. /\ "assignees" \in Rebuilt /\ "task_assignees" \in Rebuilt /\ "assignees" # "task_assignees"
        /\ "assignees" \in Legacy /\ "task_assignees" \in Legacy
    BY DEF Rebuilt, Scoped, Joins, Legacy
  <2>4. \A u \in Rebuilt : u \in Names /\ Temp(u) \in Names /\ Temp(u) \notin Rebuilt
    BY TempFacts, BaseNames
  <2>5. ASSUME NEW n \in Rebuilt, RowsAt(tables, n) = {},
               tables' = AfterStatement(Statement("dropif", n, NULL, NULL))
        PROVE  /\ tables' \in TablesType /\ \A m \in Names : RowsAt(tables', m) = RowsAt(tables, m)
    <3>1. /\ tables' \in TablesType /\ RowsAt(tables', n) = {}
          /\ \A m \in Names \ {n} : RowsAt(tables', m) = RowsAt(tables, m)
      BY SMTT(30), <1>1, <2>4, <2>5, AfterDrop
    <3> QED BY <2>5, <3>1
  <2>6. ASSUME \A m \in Names : RowsAt(tables', m) = RowsAt(tables, m)
        PROVE  \A u \in Rebuilt : Kept(u)
    BY <2>4, <2>6 DEF Kept
  <2>7. CASE stmt = 1
    <3>1. Retired BY <1>3, <2>1, <2>7 DEF Applies
    <3>2. RowsAt(tables, "task_assignees") = {} /\ RowsAt(tables, "assignees") = {}
      BY <2>3, <3>1 DEF Retired, HasTable, RowsAt
    <3>3. tables' = AfterStatement(Statement("dropif", "task_assignees", NULL, NULL))
      BY <1>3, <2>2, <2>7
    <3>4. tables' \in TablesType /\ \A m \in Names : RowsAt(tables', m) = RowsAt(tables, m)
      BY <2>3, <2>5, <3>2, <3>3
    <3>5. RowsAt(tables', "assignees") = {} BY <2>3, <2>4, <3>2, <3>4
    <3>6. HalfWay'
      <4>1. CASE stmt' = 1 BY <4>1 DEF HalfWay, Rebuilding2, Rebuilding3
      <4>2. CASE block' = block
        <5>1. Script[block'].do = RetireScript BY <4>2, <2>1
        <5> QED BY <5>1, <3>5, ScriptsDiffer DEF HalfWay
      <4> QED BY <1>3, <4>1, <4>2
    <3> QED BY <2>6, <3>4, <3>6
  <2>8. CASE stmt = 2
    <3>1. RowsAt(tables, "assignees") = {} BY <1>4, <2>1, <2>8 DEF HalfWay
    <3>2. tables' = AfterStatement(Statement("dropif", "assignees", NULL, NULL))
      BY <1>3, <2>2, <2>8
    <3>3. tables' \in TablesType /\ \A m \in Names : RowsAt(tables', m) = RowsAt(tables, m)
      BY <2>3, <2>5, <3>1, <3>2
    <3>4. stmt' = 1 \/ stmt' = 3 BY <1>3, <2>8
    <3>5. HalfWay'
      <4>1. CASE stmt' = 1 BY <4>1 DEF HalfWay, Rebuilding2, Rebuilding3
      <4>2. CASE block' = block /\ stmt' = 3
        <5>1. Script[block'].do = RetireScript BY <4>2, <2>1
        <5> QED BY <5>1, <4>2, ScriptsDiffer DEF HalfWay
      <4> QED BY <1>3, <2>8, <4>1, <4>2
    <3> QED BY <2>6, <3>3, <3>5
  <2>9. stmt \in 1..2 BY <1>1, <2>2
  <2> QED BY <2>7, <2>8, <2>9
<1> QED BY <1>2, <1>5, <1>6, <1>7, BlockShape

------------------------------------------------------------------------------
(* Every step.                                                             *)

\* The boot goes on to a statement that exists.
LEMMA NextBlockTyped ==
  ASSUME BootInv, NextBlock, phase = "booting"
  PROVE  /\ phase' \in {"booting", "serving"} /\ stmt' = 1
         /\ block' \in 1..Len(Script) /\ stmt' \in 1..Len(Script[block'].do)
<1>1. block \in 1..Len(Script) BY DEF BootInv, TypeOK
<1>2. block' \in 1..Len(Script)
  <2>1. Len(Script) \in Nat BY ScriptGood
  <2>2. CASE block = Len(Script) BY <2>2, FirstBlock DEF NextBlock
  <2>3. CASE block # Len(Script) BY <1>1, <2>1, <2>3 DEF NextBlock
  <2> QED BY <2>2, <2>3
<1>3. stmt' = 1 BY DEF NextBlock
<1>4. stmt' \in 1..Len(Script[block'].do) BY <1>2, <1>3, FirstBlock
<1> QED BY <1>2, <1>3, <1>4 DEF NextBlock

\* A step that leaves the boot at its first statement, or that serves.
LEMMA IdleKeeps ==
  ASSUME tables' \in TablesType, accounts' \in [People -> Account \cup {NULL}], unplaced' \in BOOLEAN,
         phase' \in {"down", "booting", "serving", "failed"}, stmt' = 1, block' \in 1..Len(Script)
  PROVE  BootInv'
<1>1. HalfWay' BY DEF HalfWay, Rebuilding2, Rebuilding3
<1>2. stmt' \in 1..Len(Script[block'].do) BY FirstBlock
<1> QED BY <1>1, <1>2 DEF BootInv, TypeOK, TablesType

\* A row comes or goes, or an order is chosen, in a table that exists.
LEMMA EditTyped ==
  ASSUME BootInv, NEW t \in Edited \cup Arranged,
         (\E x \in Rows : Insert(t, x) \/ Delete(t, x)) \/ Arrange(t)
  PROVE  tables' \in TablesType
<1>1. tables \in TablesType BY DEF BootInv, TypeOK, TablesType
<1>2. t \in Names BY BaseNames DEF Edited, Arranged, Rebuilt, Base
<1>3. tables[t] \in TableRow BY <1>1, <1>2 DEF Insert, Delete, Arrange, HasTable, TablesType
<1>4. ASSUME NEW x \in Rows, Insert(t, x) PROVE tables' \in TablesType
  <2> DEFINE new == [tables[t] EXCEPT !.rows = @ \cup {x}]
  <2>1. new \in TableRow BY <1>3 DEF TableRow
  <2>2. tables' = [tables EXCEPT ![t] = new] BY <1>4 DEF Insert
  <2> QED BY <1>1, <1>2, <2>1, <2>2 DEF TablesType
<1>5. ASSUME NEW x \in Rows, Delete(t, x) PROVE tables' \in TablesType
  <2> DEFINE new == [tables[t] EXCEPT !.rows = @ \ {x}]
  <2>1. new \in TableRow BY <1>3 DEF TableRow
  <2>2. tables' = [tables EXCEPT ![t] = new] BY <1>5 DEF Delete
  <2> QED BY <1>1, <1>2, <2>1, <2>2 DEF TablesType
<1>6. CASE Arrange(t)
  <2> DEFINE new == [tables[t] EXCEPT !.order = "chosen"]
  <2>1. new \in TableRow BY <1>3 DEF TableRow, Orderings
  <2>2. tables' = [tables EXCEPT ![t] = new] BY <1>6 DEF Arrange
  <2> QED BY <1>1, <1>2, <2>1, <2>2 DEF TablesType
<1> QED BY <1>4, <1>5, <1>6

LEMMA StepKeeps ==
  ASSUME BootInv, [Next]_vars
  PROVE  BootInv' /\ (phase = "booting" => \A t \in Rebuilt : Kept(t))
<1>1. /\ tables \in TablesType /\ accounts \in [People -> Account \cup {NULL}] /\ unplaced \in BOOLEAN
      /\ phase \in {"down", "booting", "serving", "failed"} /\ block \in 1..Len(Script)
      /\ phase # "booting" => stmt = 1
  BY DEF BootInv, TypeOK, TablesType
<1>2. ASSUME tables' = tables PROVE \A t \in Rebuilt : Kept(t) BY <1>2 DEF Kept
<1>3. CASE Start \/ Kill \/ Fail
  <2>1. tables' = tables /\ accounts' = accounts /\ unplaced' = unplaced /\ block' = 1 /\ stmt' = 1
        /\ phase' \in {"down", "booting", "failed"}
    BY <1>3 DEF Start, Kill, Fail
  <2>2. BootInv' BY <1>1, <2>1, FirstBlock, IdleKeeps
  <2> QED BY <1>2, <2>1, <2>2
<1>4. CASE Skip
  <2>1. tables' = tables /\ accounts' = accounts /\ unplaced' = unplaced /\ phase = "booting" /\ NextBlock
    BY <1>4 DEF Skip
  <2>2. BootInv' BY <1>1, <2>1, NextBlockTyped, IdleKeeps
  <2> QED BY <1>2, <2>1, <2>2
<1>5. CASE Run
  <2>1. tables' \in TablesType /\ HalfWay' /\ \A t \in Rebuilt : Kept(t) BY <1>5, RunKeeps
  <2>2. accounts' \in [People -> Account \cup {NULL}] /\ unplaced' \in BOOLEAN
    <3>1. accounts' = AfterAccounts(Script[block].do[stmt]) BY <1>5 DEF Run
    <3>2. unplaced' \in BOOLEAN BY <1>5 DEF Run, AfterUnplaced
    <3> QED BY <1>1, <3>1, <3>2, AccountsTyped
  <2>3. CASE NextBlock
    <3>1. phase = "booting" BY <1>5 DEF Run
    <3>2. BootInv' BY <2>1, <2>2, <2>3, <3>1, NextBlockTyped, IdleKeeps
    <3> QED BY <2>1, <3>2
  <2>4. CASE stmt < Len(Script[block].do) /\ stmt' = stmt + 1 /\ phase' = phase /\ block' = block
    <3>1. stmt \in 1..Len(Script[block].do) BY DEF BootInv, TypeOK
    <3>2. Len(Script[block].do) \in Nat BY <1>1, BlockAt, BlockShape
    <3>3. stmt' \in 1..Len(Script[block].do) BY <2>4, <3>1, <3>2
    <3>4. stmt' \in 1..Len(Script[block'].do) BY <2>4, <3>3
    <3>5. TypeOK' BY <1>1, <2>1, <2>2, <2>4, <3>4 DEF TypeOK, TablesType
    <3>6. phase' = "booting" BY <1>5, <2>4 DEF Run
    <3> QED BY <2>1, <3>5, <3>6 DEF BootInv
  <2> QED BY <1>5, <2>3, <2>4 DEF Run
<1>6. CASE \E t \in Edited, x \in Rows : Insert(t, x) \/ Delete(t, x)
  <2>1. tables' \in TablesType BY <1>6, EditTyped
  <2>2. /\ accounts' = accounts /\ unplaced' = unplaced /\ phase' = phase /\ block' = block
        /\ stmt' = stmt /\ phase = "serving"
    BY <1>6 DEF Insert, Delete
  <2>3. BootInv' BY <1>1, <2>1, <2>2, IdleKeeps
  <2> QED BY <2>2, <2>3
<1>7. CASE \E t \in Arranged : Arrange(t)
  <2>1. tables' \in TablesType BY <1>7, EditTyped
  <2>2. /\ accounts' = accounts /\ unplaced' = unplaced /\ phase' = phase /\ block' = block
        /\ stmt' = stmt /\ phase = "serving"
    BY <1>7 DEF Arrange
  <2>3. BootInv' BY <1>1, <2>1, <2>2, IdleKeeps
  <2> QED BY <2>2, <2>3
<1>8. CASE \E u \in People, r \in Granted : SetRank(u, r)
  <2>1. PICK u \in People, r \in Granted : SetRank(u, r) BY <1>8
  <2>2. [org |-> TRUE, role |-> r] \in Account BY GrantedAreRoles DEF Account
  <2>3. accounts' \in [People -> Account \cup {NULL}] BY <1>1, <2>1, <2>2 DEF SetRank
  <2>4. /\ tables' = tables /\ unplaced' = unplaced /\ phase' = phase /\ block' = block
        /\ stmt' = stmt /\ phase = "serving"
    BY <2>1 DEF SetRank
  <2>5. BootInv' BY <1>1, <2>3, <2>4, IdleKeeps
  <2> QED BY <2>4, <2>5
<1>9. CASE UNCHANGED vars
  <2>1. /\ tables' = tables /\ accounts' = accounts /\ unplaced' = unplaced
        /\ phase' = phase /\ block' = block /\ stmt' = stmt
    BY <1>9 DEF vars
  <2>2. BootInv' BY <2>1 DEF BootInv, TypeOK, HalfWay, Rebuilding2, Rebuilding3
  <2> QED BY <1>2, <2>1, <2>2
<1>10. CASE \E u \in People : AddWorkspace(u)
  <2>1. PICK u \in People : AddWorkspace(u) BY <1>10
  <2>2. /\ tables' = tables /\ accounts' = accounts /\ unplaced' = (unplaced \/ ~accounts[u].org)
        /\ phase' = phase /\ block' = block /\ stmt' = stmt /\ phase = "serving"
    BY <2>1 DEF AddWorkspace
  <2>3. unplaced' \in BOOLEAN BY <2>2
  <2>4. BootInv' BY <1>1, <2>2, <2>3, IdleKeeps
  <2> QED BY <2>2, <2>4
<1> QED BY <1>3, <1>4, <1>5, <1>6, <1>7, <1>8, <1>9, <1>10 DEF Next

------------------------------------------------------------------------------
(* What is true between the blocks.                                        *)

\* The boot is behind block i.
Passed(i) == phase = "serving" \/ (phase = "booting" /\ i < block)

\* A rebuilt table between its DROP and its RENAME.
Renaming(t) == phase = "booting" /\ stmt = 4 /\ Script[block].do = RebuildScript(t)

\* What a block sees to.
Established(b) ==
  /\ b.if = "always" => \A t \in Current : HasTable(t) \/ Renaming(t)
  /\ b.if = "lacks" =>
       HasColumn(b.on, b.col) \/ (b.on \in Legacy /\ ~HasTable(b.on)) \/ Renaming(b.on)
  /\ b.if = "dangling" /\ HasTable(b.on) => tables[b.on].ref # OldHome(b.on)
  /\ b.if = "orphans" => ~Orphans

Placed == \A i \in 1..Len(Script) : Passed(i) => Established(Script[i])

\* A join table refers to a table of today or to one the earlier rebuild
\* renamed, and one that is being built to a table of today.
Refs ==
  \A j \in Joins :
    /\ HasTable(j) => tables[j].ref \in {Home(j), OldHome(j)}
    /\ HasTable(Temp(j)) => tables[Temp(j)].ref = Home(j)

TempColumns == \A t \in Rebuilt : HasTable(Temp(t)) => RebuiltColumns(t) \subseteq tables[Temp(t)].cols

\* Either every account has an organization and a rank of today, and so has
\* every workspace, or none has one.
Ranked ==
  \A u \in People : accounts[u] # NULL =>
    /\ accounts[u].org => accounts[u].role \in Roles /\ ~unplaced
    /\ \A v \in People : accounts[v] # NULL => accounts[v].org = accounts[u].org

\* Rows are arranged in a table that no boot will rebuild without their order
\* or list anew.
IsChosen(n) == HasTable(n) /\ tables[n].order = "chosen"
Arrangeable(t) ==
  \/ t \in CopiesOrder
  \/ /\ t \in Listed /\ HasColumn(t, "sort_order")
     /\ t = "labels" => HasColumn(t, "workspace_id")
ChosenPlaced ==
  /\ \A t \in Current : IsChosen(t) => Arrangeable(t)
  /\ \A t \in Rebuilt : IsChosen(Temp(t)) => t \in CopiesOrder

\* Between the statements of a block.
Added == Adding(Script[block]) /\ stmt = 2 =>
  /\ HasColumn(Script[block].on, Script[block].col)
  /\ Script[block].on \in Current => ~IsChosen(Script[block].on)
Copying(t) == stmt = 2 =>
  ~IsChosen(Temp(t)) /\ (t \in Current \ CopiesOrder => ~IsChosen(t))
Dropping(t) == stmt = 3 /\ t \in Current /\ IsChosen(t) => IsChosen(Temp(t))
Between ==
  Added /\ \A t \in Rebuilt : Script[block].do = RebuildScript(t) => Copying(t) /\ Dropping(t)

UpgradeInv ==
  BootInv /\ Placed /\ Refs /\ TempColumns /\ Ranked /\ ChosenPlaced /\ Between

------------------------------------------------------------------------------
(* What statements do to a table.                                          *)

LEMMA RefOfHome == \A j \in Joins : RefOf(j) = Home(j) /\ Home(j) # OldHome(j)
BY DEF RefOf, Home, OldHome, Joins

LEMMA TableIs ==
  ASSUME NEW t, NEW columns \in SUBSET Columns
  PROVE  /\ Table(t, columns) # NULL /\ Table(t, columns).cols = columns
         /\ Table(t, columns).order = "flat" /\ Table(t, columns).ref = RefOf(t)
BY TableTyped, NullIsNoTable DEF Table

LEMMA PlainEffect ==
  ASSUME tables \in TablesType, NEW s \in StatementRow, s.op \in PlainOps,
         s.op = "add" => s.col \in Columns, ~Throws(s), NEW T, T = AfterStatement(s)
  PROVE  /\ \A n \in Names : tables[n] # NULL =>
              /\ T[n] # NULL /\ T[n].ref = tables[n].ref
              /\ \A c \in tables[n].cols : c \in T[n].cols \/ (s.op = "remove" /\ n = s.on /\ c = s.col)
              /\ T[n].order = tables[n].order \/ (s.op = "order" /\ n = s.on /\ T[n].order = "listed")
         /\ \A n \in Names : tables[n] = NULL /\ T[n] # NULL =>
              n \in Current /\ T[n].ref = RefOf(n) /\ T[n].order = "flat"
         /\ s.op = "schema" => \A t \in Current : T[t] # NULL
         /\ s.op = "add" => T[s.on] # NULL /\ s.col \in T[s.on].cols
<1>1. s.on \in Names BY DEF StatementRow
<1>2. CASE s.op = "schema"
  <2>1. T = [n \in Names |-> IF n \in Current /\ ~HasTable(n)
                             THEN Table(n, ColumnsOf(n, 8)) ELSE tables[n]]
    BY <1>2 DEF AfterStatement
  <2>2. ASSUME NEW n \in Names PROVE tables[n] # NULL => T[n] = tables[n]
    BY <2>1 DEF HasTable
  <2>3. ASSUME NEW n \in Names, tables[n] = NULL, n \in Current
        PROVE  T[n] # NULL /\ T[n].ref = RefOf(n) /\ T[n].order = "flat"
    <3>1. T[n] = Table(n, ColumnsOf(n, 8)) BY <2>1, <2>3 DEF HasTable
    <3> QED BY <3>1, ColumnsOfTyped, TableIs
  <2>4. ASSUME NEW n \in Names, tables[n] = NULL, n \notin Current PROVE T[n] = NULL
    BY <2>1, <2>4 DEF HasTable
  <2>5. \A t \in Current : t \in Names BY BaseNames
  <2>6. \A t \in Current : T[t] # NULL BY <2>2, <2>3, <2>5
  <2> QED BY <1>2, <2>2, <2>3, <2>4, <2>6
<1>3. CASE s.op \in {"add", "remove", "order"}
  <2>1. tables[s.on] # NULL /\ tables[s.on] \in TableRow
    BY <1>1, <1>3 DEF Throws, HasTable, TablesType
  <2>2. PICK new \in TableRow :
          /\ T = [tables EXCEPT ![s.on] = new]
          /\ new.ref = tables[s.on].ref
          /\ \A c \in tables[s.on].cols : c \in new.cols \/ (s.op = "remove" /\ c = s.col)
          /\ new.order = tables[s.on].order \/ (s.op = "order" /\ new.order = "listed")
          /\ s.op = "add" => s.col \in new.cols
    <3>1. CASE s.op = "add"
      <4> DEFINE new == [tables[s.on] EXCEPT !.cols = @ \cup {s.col}]
      <4>1. /\ new \in TableRow /\ new.ref = tables[s.on].ref /\ new.order = tables[s.on].order
            /\ new.cols = tables[s.on].cols \cup {s.col}
        BY <2>1, <3>1 DEF TableRow
      <4>2. T = [tables EXCEPT ![s.on] = new] BY <3>1 DEF AfterStatement
      <4> HIDE DEF new
      <4> QED BY <4>1, <4>2
    <3>2. CASE s.op = "remove"
      <4> DEFINE new == [tables[s.on] EXCEPT !.cols = @ \ {s.col}]
      <4>1. /\ new \in TableRow /\ new.ref = tables[s.on].ref /\ new.order = tables[s.on].order
            /\ new.cols = tables[s.on].cols \ {s.col}
        BY <2>1 DEF TableRow
      <4>2. T = [tables EXCEPT ![s.on] = new] BY <3>2 DEF AfterStatement
      <4> HIDE DEF new
      <4> QED BY <3>2, <4>1, <4>2
    <3>3. CASE s.op = "order"
      <4> DEFINE new == [tables[s.on] EXCEPT !.order = "listed"]
      <4>1. /\ new \in TableRow /\ new.ref = tables[s.on].ref /\ new.order = "listed"
            /\ new.cols = tables[s.on].cols
        BY <2>1 DEF TableRow, Orderings
      <4>2. T = [tables EXCEPT ![s.on] = new] BY <3>3 DEF AfterStatement
      <4> HIDE DEF new
      <4> QED BY <3>3, <4>1, <4>2
    <3> QED BY <1>3, <3>1, <3>2, <3>3
  <2>3. T[s.on] = new /\ \A m \in Names \ {s.on} : T[m] = tables[m]
    BY <1>1, <2>2 DEF TablesType
  <2>4. new # NULL BY NullIsNoTable
  <2> QED BY <1>3, <2>1, <2>2, <2>3, <2>4
<1>4. CASE s.op = "backfill"
  <2>1. T = tables BY <1>4 DEF AfterStatement
  <2> QED BY <1>4, <2>1
<1> QED BY <1>2, <1>3, <1>4 DEF PlainOps

LEMMA RebuildEffects ==
  ASSUME tables \in TablesType, NEW t \in Rebuilt, NEW T
  PROVE  /\ T = AfterStatement(Statement("create", Temp(t), t, NULL)) =>
              /\ T[Temp(t)] # NULL /\ T[Temp(t)].cols = RebuiltColumns(t)
              /\ T[Temp(t)].order = "flat" /\ T[Temp(t)].ref = RefOf(t)
              /\ \A m \in Names \ {Temp(t)} : T[m] = tables[m]
         /\ T = AfterStatement(Statement("copy", t, Temp(t), NULL))
            /\ ~Throws(Statement("copy", t, Temp(t), NULL)) =>
              /\ tables[Temp(t)] # NULL /\ T[Temp(t)] # NULL
              /\ T[Temp(t)].cols = tables[Temp(t)].cols /\ T[Temp(t)].ref = tables[Temp(t)].ref
              /\ T[Temp(t)].order = IF t \in CopiesOrder THEN tables[t].order ELSE "flat"
              /\ \A m \in Names \ {Temp(t)} : T[m] = tables[m]
         /\ T = AfterStatement(Statement("drop", t, NULL, NULL)) =>
              T[t] = NULL /\ \A m \in Names \ {t} : T[m] = tables[m]
         /\ T = AfterStatement(Statement("rename", Temp(t), t, NULL)) /\ Refs
            /\ ~Throws(Statement("rename", Temp(t), t, NULL)) =>
              /\ tables[Temp(t)] # NULL /\ tables[t] = NULL
              /\ T[t] = tables[Temp(t)] /\ T[Temp(t)] = NULL
              /\ \A m \in Names \ {t, Temp(t)} : T[m] = tables[m]
<1>1. t \in Names /\ Temp(t) \in Names /\ t # Temp(t) /\ Temp(t) \notin Base BY TempFacts, BaseNames
<1>2. ASSUME T = AfterStatement(Statement("create", Temp(t), t, NULL))
      PROVE  /\ T[Temp(t)] # NULL /\ T[Temp(t)].cols = RebuiltColumns(t)
             /\ T[Temp(t)].order = "flat" /\ T[Temp(t)].ref = RefOf(t)
             /\ \A m \in Names \ {Temp(t)} : T[m] = tables[m]
  <2> DEFINE row == Table(t, RebuiltColumns(t))
  <2>1. T = [tables EXCEPT ![Temp(t)] = row] BY <1>2 DEF AfterStatement, Statement
  <2>2. row # NULL /\ row.cols = RebuiltColumns(t) /\ row.order = "flat" /\ row.ref = RefOf(t)
    BY RebuiltColumnsTyped, TableIs
  <2> HIDE DEF row
  <2> QED BY <1>1, <2>1, <2>2 DEF TablesType
<1>3. ASSUME T = AfterStatement(Statement("copy", t, Temp(t), NULL)),
             ~Throws(Statement("copy", t, Temp(t), NULL))
      PROVE  /\ tables[Temp(t)] # NULL /\ T[Temp(t)] # NULL
             /\ T[Temp(t)].cols = tables[Temp(t)].cols /\ T[Temp(t)].ref = tables[Temp(t)].ref
             /\ T[Temp(t)].order = IF t \in CopiesOrder THEN tables[t].order ELSE "flat"
             /\ \A m \in Names \ {Temp(t)} : T[m] = tables[m]
  <2>1. tables[t] # NULL /\ tables[Temp(t)] # NULL BY <1>3 DEF Throws, Statement, HasTable
  <2>2. tables[t] \in TableRow /\ tables[Temp(t)] \in TableRow BY <1>1, <2>1 DEF TablesType
  <2> DEFINE o == IF t \in CopiesOrder THEN tables[t].order ELSE "flat"
             row == [tables[Temp(t)] EXCEPT !.rows = tables[t].rows, !.order = o]
  <2>3. o \in Orderings BY <2>2 DEF TableRow, Orderings
  <2>4. T = [tables EXCEPT ![Temp(t)].rows = tables[t].rows, ![Temp(t)].order = o]
    BY <1>3 DEF AfterStatement, Statement
  <2>5. T = [tables EXCEPT ![Temp(t)] = row] BY <1>1, <2>4 DEF TablesType
  <2>6. /\ row \in TableRow /\ row.cols = tables[Temp(t)].cols /\ row.ref = tables[Temp(t)].ref
        /\ row.order = o
    BY <2>2, <2>3 DEF TableRow
  <2> HIDE DEF row
  <2>7. row # NULL BY <2>6, NullIsNoTable
  <2> QED BY <1>1, <2>1, <2>5, <2>6, <2>7 DEF TablesType
<1>4. ASSUME T = AfterStatement(Statement("drop", t, NULL, NULL))
      PROVE  T[t] = NULL /\ \A m \in Names \ {t} : T[m] = tables[m]
  <2>1. T = [tables EXCEPT ![t] = NULL] BY <1>4 DEF AfterStatement, Statement
  <2> QED BY <1>1, <2>1 DEF TablesType
<1>5. ASSUME T = AfterStatement(Statement("rename", Temp(t), t, NULL)), Refs,
             ~Throws(Statement("rename", Temp(t), t, NULL))
      PROVE  /\ tables[Temp(t)] # NULL /\ tables[t] = NULL
             /\ T[t] = tables[Temp(t)] /\ T[Temp(t)] = NULL
             /\ \A m \in Names \ {t, Temp(t)} : T[m] = tables[m]
  <2>1. tables[t] = NULL /\ tables[Temp(t)] # NULL BY <1>5 DEF Throws, Statement, HasTable
  <2> DEFINE Refers(n) == n \in Joins /\ HasTable(n) /\ tables[n].ref = Temp(t)
  <2>2. T = [n \in Names |-> CASE n = t -> tables[Temp(t)]
                               [] n = Temp(t) -> NULL
                               [] Refers(n) -> [tables[n] EXCEPT !.ref = t]
                               [] OTHER -> tables[n]]
    BY <1>5 DEF AfterStatement, Statement
  <2>3. \A n : ~Refers(n)
    <3>1. \A j \in Joins : Home(j) # Temp(t) /\ OldHome(j) # Temp(t)
      BY DEF Home, OldHome, Temp, Joins, Rebuilt, Scoped
    <3> QED BY <1>5, <3>1 DEF Refs
  <2> HIDE DEF Refers
  <2>4. T[t] = tables[Temp(t)] BY <1>1, <2>2, <2>3
  <2>5. T[Temp(t)] = NULL BY <1>1, <2>2, <2>3
  <2>6. ASSUME NEW m \in Names \ {t, Temp(t)} PROVE T[m] = tables[m] BY <2>2, <2>3
  <2> QED BY <2>1, <2>4, <2>5, <2>6
<1> QED BY <1>2, <1>3, <1>4, <1>5

------------------------------------------------------------------------------
(* The blocks behind the boot stay established, and the one it ends is.    *)

LEMMA AsksWhat ==
  ASSUME NEW b \in GoodBlock
  PROVE  /\ b.if = "lacks" => b.on \in Base /\ b.col # "team"
         /\ b.if = "dangling" => b.on \in Joins
<1>1. CASE Adding(b) BY <1>1 DEF Adding
<1>2. CASE Scoping(b)
  <2>1. b.on \in Base /\ "workspace_id" # "team" BY <1>2, BaseNames DEF Scoping, Rebuilt
  <2> QED BY <1>2, <2>1 DEF Scoping
<1>3. CASE Repairing(b) BY <1>3 DEF Repairing
<1>4. CASE Retiring(b) \/ Creating(b) \/ Removing(b) \/ Filling(b)
  BY <1>4 DEF Retiring, Creating, Removing, Filling
<1> QED BY <1>1, <1>2, <1>3, <1>4 DEF GoodBlock

\* Before a rebuild there are only early blocks.
LEMMA BeforeRebuild ==
  ASSUME NEW k \in 1..Len(Script), NEW i \in 1..Len(Script), i < k, ~Late(Script[k])
  PROVE  Early(Script[i])
<1>1. PICK n \in Nat :
        \A j \in 1..Len(Script) : IF j <= n THEN Early(Script[j]) ELSE Late(Script[j])
  BY ScriptFacts DEF Split
<1>2. k <= n BY <1>1
<1>3. i <= n BY <1>2, ScriptGood
<1> QED BY <1>1, <1>3

LEMMA OrphansStay ==
  ASSUME NEW s, accounts' = AfterAccounts(s), unplaced' = AfterUnplaced(s), ~Orphans
  PROVE  ~Orphans'
<1>1. ~unplaced' BY DEF Orphans, AfterUnplaced
<1>2. ASSUME NEW u \in People, accounts'[u] # NULL PROVE accounts'[u].org
  BY <1>2 DEF AfterAccounts, Orphans
<1> QED BY <1>1, <1>2 DEF Orphans

\* What Run does, of whatever kind the block is.
LEMMA RunIs ==
  ASSUME UpgradeInv, Run
  PROVE  LET b == Script[block]  s == b.do[stmt] IN
         /\ block \in 1..Len(Script) /\ b \in GoodBlock /\ s \in StatementRow
         /\ stmt \in 1..Len(b.do) /\ Len(b.do) \in Nat
         /\ tables \in TablesType /\ phase = "booting"
         /\ (stmt = 1 => Applies(b)) /\ ~Throws(s)
         /\ tables' = AfterStatement(s) /\ accounts' = AfterAccounts(s)
         /\ unplaced' = AfterUnplaced(s)
         /\ IF stmt < Len(b.do) THEN stmt' = stmt + 1 /\ phase' = phase /\ block' = block
            ELSE NextBlock
<1>1. /\ tables \in TablesType /\ block \in 1..Len(Script) /\ stmt \in 1..Len(Script[block].do)
  BY DEF UpgradeInv, BootInv, TypeOK, TablesType
<1>2. Script[block] \in GoodBlock /\ Script[block].do[stmt] \in StatementRow
      /\ Len(Script[block].do) \in Nat
  BY <1>1, BlockAt, BlockShape
<1> QED BY <1>1, <1>2 DEF Run, Entering

\* Columns and references survive a plain statement.
LEMMA PlainEstablished ==
  ASSUME UpgradeInv, Run, Plain(Script[block]), Late(Script[block]), NEW c \in GoodBlock,
         Established(c),
         Script[block].do[stmt].op = "remove" => Script[block].do[stmt].col = "team"
  PROVE  Established(c)'
<1> DEFINE b == Script[block]
           s == b.do[stmt]
<1>1. /\ block \in 1..Len(Script) /\ b \in GoodBlock /\ s \in StatementRow /\ stmt \in 1..Len(b.do)
      /\ tables \in TablesType /\ ~Throws(s) /\ tables' = AfterStatement(s)
      /\ accounts' = AfterAccounts(s) /\ unplaced' = AfterUnplaced(s)
  BY RunIs
<1>2. s.op \in PlainOps /\ (s.op = "add" => s.col \in Columns) BY <1>1 DEF Plain
<1>3. /\ \A n \in Names : tables[n] # NULL =>
              /\ tables'[n] # NULL /\ tables'[n].ref = tables[n].ref
              /\ \A x \in tables[n].cols :
                   x \in tables'[n].cols \/ (s.op = "remove" /\ n = s.on /\ x = s.col)
      /\ \A n \in Names : tables[n] = NULL /\ tables'[n] # NULL =>
              n \in Current /\ tables'[n].ref = RefOf(n)
  BY <1>1, <1>2, PlainEffect
<1>5. \A t \in Current \cup Base : t \in Names BY BaseNames
<1>6. s.op = "remove" => s.col = "team" OBVIOUS
<1> HIDE DEF s
<1>7. c.if = "always" => \A t \in Current : HasTable(t)'
  <2> SUFFICES ASSUME c.if = "always", NEW t \in Current PROVE HasTable(t)' OBVIOUS
  <2>1. HasTable(t) \/ Renaming(t) BY DEF Established
  <2>2. ~Renaming(t) BY <1>1 DEF Renaming, b, Late, Plain, RebuildScript
  <2> QED BY <1>3, <1>5, <2>1, <2>2 DEF HasTable
<1>8. c.if = "lacks" => HasColumn(c.on, c.col)' \/ (c.on \in Legacy /\ ~HasTable(c.on)')
  <2> SUFFICES ASSUME c.if = "lacks"
               PROVE  HasColumn(c.on, c.col)' \/ (c.on \in Legacy /\ ~HasTable(c.on)')
    OBVIOUS
  <2>1. c.on \in Names /\ c.col # "team" BY <1>5, AsksWhat
  <2>2. ~Renaming(c.on) BY <1>1 DEF Renaming, b, Late, Plain, RebuildScript
  <2>3. CASE HasColumn(c.on, c.col) BY <1>3, <1>6, <2>1, <2>3 DEF HasColumn, HasTable
  <2>4. CASE c.on \in Legacy /\ ~HasTable(c.on) BY <1>3, <2>1, <2>4 DEF HasTable, Current
  <2> QED BY <2>2, <2>3, <2>4 DEF Established
<1>9. c.if = "dangling" /\ HasTable(c.on)' => tables'[c.on].ref # OldHome(c.on)
  <2> SUFFICES ASSUME c.if = "dangling", HasTable(c.on)' PROVE tables'[c.on].ref # OldHome(c.on)
    OBVIOUS
  <2>1. c.on \in Joins /\ c.on \in Names BY AsksWhat, BaseNames DEF Rebuilt
  <2>2. CASE HasTable(c.on) BY <1>3, <2>1, <2>2 DEF HasTable, Established
  <2>3. CASE ~HasTable(c.on) BY <1>3, <2>1, <2>3, RefOfHome DEF HasTable
  <2> QED BY <2>2, <2>3
<1>10. c.if = "orphans" => ~Orphans' BY <1>1, OrphansStay DEF Established
<1> QED BY <1>7, <1>8, <1>9, <1>10 DEF Established

\* The last statement of a plain block does what the block is for.
LEMMA PlainEstablishes ==
  ASSUME UpgradeInv, Run, NEW b, b = Script[block], stmt = Len(b.do),
         Adding(b) \/ Creating(b) \/ Removing(b) \/ Filling(b)
  PROVE  Established(b)'
<1> DEFINE s == b.do[stmt]
<1>1. /\ block \in 1..Len(Script) /\ b \in GoodBlock /\ s \in StatementRow /\ stmt \in 1..Len(b.do)
      /\ tables \in TablesType /\ ~Throws(s) /\ tables' = AfterStatement(s)
      /\ accounts' = AfterAccounts(s) /\ unplaced' = AfterUnplaced(s)
  BY RunIs
<1>2. Plain(b) BY AddingPlain, SinglePlain
<1>3. s.op \in PlainOps /\ (s.op = "add" => s.col \in Columns) BY <1>1, <1>2 DEF Plain
<1>4. /\ \A n \in Names : tables[n] # NULL =>
              /\ tables'[n] # NULL
              /\ \A x \in tables[n].cols :
                   x \in tables'[n].cols \/ (s.op = "remove" /\ n = s.on /\ x = s.col)
      /\ s.op = "schema" => \A t \in Current : tables'[t] # NULL
      /\ s.op = "add" => tables'[s.on] # NULL /\ s.col \in tables'[s.on].cols
  BY SMTT(30), <1>1, <1>3, PlainEffect
<1>5. CASE Adding(b)
  <2>1. b.if = "lacks" /\ b.on \in Names BY <1>5, BaseNames DEF Adding
  <2>2. CASE stmt = 1
    <3>1. s = AddColumn(b.on, b.col) BY <1>5, <2>2, FirstStatements
    <3>2. s.op = "add" /\ s.on = b.on /\ s.col = b.col BY <3>1 DEF AddColumn, Statement
    <3>3. HasColumn(b.on, b.col)' BY <1>4, <3>2 DEF HasColumn, HasTable
    <3> QED BY <2>1, <3>3 DEF Established
  <2>3. CASE stmt = 2
    <3>1. s.op = "order" BY ZenonT(30), <1>5, <2>3, FirstStatements
    <3>2. HasColumn(b.on, b.col) BY <1>5, <2>3 DEF UpgradeInv, Between, Added
    <3>3. HasColumn(b.on, b.col)' BY <1>4, <2>1, <3>1, <3>2 DEF HasColumn, HasTable
    <3> QED BY <2>1, <3>3 DEF Established
  <2>4. Len(b.do) \in 1..2 BY <1>5, FirstStatements
  <2> QED BY <2>2, <2>3, <2>4
<1>6. CASE Creating(b)
  <2>1. Len(b.do) = 1 /\ b.do[1].op = "schema" BY <1>6, FirstStatements
  <2>2. \A t \in Current : HasTable(t)' BY <1>4, <2>1 DEF HasTable
  <2>3. b.if = "always" BY <1>6 DEF Creating
  <2> QED BY <2>2, <2>3 DEF Established
<1>7. CASE Removing(b) BY <1>7 DEF Removing, Established
<1>8. CASE Filling(b)
  <2>1. Len(b.do) = 1 /\ b.do[1].op = "backfill" /\ b.if = "orphans"
    BY <1>8, FirstStatements DEF Filling
  <2>2. s.op = "backfill" BY <2>1
  <2>3. ASSUME NEW u \in People, accounts'[u] # NULL PROVE accounts'[u].org
    BY <1>1, <2>2, <2>3 DEF AfterAccounts
  <2>4. ~Orphans' BY <1>1, <2>2, <2>3 DEF Orphans, AfterUnplaced
  <2> QED BY <2>1, <2>4 DEF Established
<1> QED BY <1>5, <1>6, <1>7, <1>8

\* A rebuild: the blocks before it ask for nothing the new table lacks.
LEMMA RebuildEstablished ==
  ASSUME UpgradeInv, Run, NEW b, b = Script[block], NEW t \in Rebuilt, b.do = RebuildScript(t),
         NEW c \in GoodBlock, Established(c), Early(c)
  PROVE  Established(c)'
<1> DEFINE s == b.do[stmt]
<1>1. /\ block \in 1..Len(Script) /\ s \in StatementRow /\ stmt \in 1..Len(b.do)
      /\ tables \in TablesType /\ ~Throws(s) /\ tables' = AfterStatement(s)
      /\ accounts' = AfterAccounts(s) /\ unplaced' = AfterUnplaced(s) /\ phase = "booting"
      /\ IF stmt < Len(b.do) THEN stmt' = stmt + 1 /\ phase' = phase /\ block' = block ELSE NextBlock
  BY RunIs
<1>2. /\ Len(b.do) = 4 /\ b.do[1] = Statement("create", Temp(t), t, NULL)
      /\ b.do[2] = Statement("copy", t, Temp(t), NULL) /\ b.do[3] = Statement("drop", t, NULL, NULL)
      /\ b.do[4] = Statement("rename", Temp(t), t, NULL)
  BY DEF RebuildScript
<1>3. \A u : Renaming(u) /\ u \in Rebuilt => u = t /\ stmt = 4 BY ScriptsDiffer DEF Renaming
<1>4. \A u : Renaming(u) => stmt = 4 BY DEF Renaming
<1>5. /\ t \in Names /\ t \in Base /\ Temp(t) \in Names /\ Temp(t) \notin Base /\ Base \subseteq Names
      /\ Current \subseteq Base
  BY TempFacts, BaseNames
<1>6. c.if = "lacks" => c.on \in Base BY AsksWhat
<1>7. c.if = "dangling" => c.on \in Joins /\ c.on \in Base BY AsksWhat, BaseNames DEF Rebuilt
<1>8. c.if = "orphans" => ~Orphans' BY <1>1, OrphansStay DEF Established
<1>9. CASE stmt \in {1, 2}
  <2>1. \A m \in Names \ {Temp(t)} : tables'[m] = tables[m]
    BY <1>1, <1>2, <1>9, RebuildEffects
  <2>2. \A m \in Base : tables'[m] = tables[m] BY <1>5, <2>1
  <2>3. \A u : ~Renaming(u) BY <1>4, <1>9
  <2>4. c.if = "always" => \A u \in Current : HasTable(u)'
    BY <1>5, <2>2, <2>3 DEF Established, HasTable
  <2>5. c.if = "lacks" => HasColumn(c.on, c.col)' \/ (c.on \in Legacy /\ ~HasTable(c.on)')
    BY <1>6, <2>2, <2>3 DEF Established, HasTable, HasColumn
  <2>6. c.if = "dangling" /\ HasTable(c.on)' => tables'[c.on].ref # OldHome(c.on)
    BY <1>7, <2>2 DEF Established, HasTable
  <2> QED BY <1>8, <2>4, <2>5, <2>6 DEF Established
<1>10. CASE stmt = 3
  <2>1. tables'[t] = NULL /\ \A m \in Names \ {t} : tables'[m] = tables[m]
    BY <1>1, <1>2, <1>10, RebuildEffects
  <2>2. Renaming(t)' BY <1>1, <1>2, <1>10 DEF Renaming
  <2>3. \A u : ~Renaming(u) BY <1>4, <1>10
  <2>4. c.if = "always" => \A u \in Current : HasTable(u)' \/ Renaming(u)'
    BY <1>5, <2>1, <2>2, <2>3 DEF Established, HasTable
  <2>5. c.if = "lacks" =>
          HasColumn(c.on, c.col)' \/ (c.on \in Legacy /\ ~HasTable(c.on)') \/ Renaming(c.on)'
    <3>1. CASE c.on = t BY <2>2, <3>1
    <3>2. CASE c.on # t BY <1>5, <1>6, <2>1, <2>3, <3>2 DEF Established, HasTable, HasColumn
    <3> QED BY <3>1, <3>2
  <2>6. c.if = "dangling" /\ HasTable(c.on)' => tables'[c.on].ref # OldHome(c.on)
    BY <1>5, <1>7, <2>1 DEF Established, HasTable
  <2> QED BY <1>8, <2>4, <2>5, <2>6 DEF Established
<1>11. CASE stmt = 4
  <2>1. Refs /\ TempColumns BY DEF UpgradeInv
  <2>2. /\ tables[Temp(t)] # NULL /\ tables'[t] = tables[Temp(t)]
        /\ \A m \in Names \ {t, Temp(t)} : tables'[m] = tables[m]
    BY <1>1, <1>2, <1>11, <2>1, RebuildEffects
  <2>3. HasTable(t)' /\ RebuiltColumns(t) \subseteq tables'[t].cols
    BY <2>1, <2>2 DEF HasTable, TempColumns
  <2>4. \A m \in Base \ {t} : tables'[m] = tables[m] BY <1>5, <2>2
  <2>5. \A u \in Base \ {t} : ~Renaming(u)
    <3>1. \A u : RebuildScript(u) = RebuildScript(t) => u = t BY FirstStatements
    <3> QED BY <3>1 DEF Renaming
  <2>6. c.if = "always" => \A u \in Current : HasTable(u)'
    BY <1>5, <2>3, <2>4, <2>5 DEF Established, HasTable
  <2>7. c.if = "lacks" => HasColumn(c.on, c.col)' \/ (c.on \in Legacy /\ ~HasTable(c.on)')
    <3>1. CASE c.on = t BY <2>3, <3>1 DEF Early, HasColumn
    <3>2. CASE c.on # t BY <1>6, <2>4, <2>5, <3>2 DEF Established, HasTable, HasColumn
    <3> QED BY <3>1, <3>2
  <2>8. c.if = "dangling" /\ HasTable(c.on)' => tables'[c.on].ref # OldHome(c.on)
    <3>1. CASE c.on = t BY <1>7, <2>1, <2>2, <3>1, RefOfHome DEF Refs, HasTable
    <3>2. CASE c.on # t BY <1>7, <2>4, <3>2 DEF Established, HasTable
    <3> QED BY <3>1, <3>2
  <2> QED BY <1>8, <2>6, <2>7, <2>8 DEF Established
<1> QED BY <1>1, <1>2, <1>9, <1>10, <1>11

\* A rebuild that ends has established itself.
LEMMA RebuildEstablishes ==
  ASSUME UpgradeInv, Run, NEW b, b = Script[block], Scoping(b) \/ Repairing(b), stmt = Len(b.do)
  PROVE  Established(b)'
<1> DEFINE t == b.on
           s == b.do[stmt]
<1>1. t \in Rebuilt /\ b.do = RebuildScript(t) BY DEF Scoping, Repairing, Rebuilt
<1>2. stmt = 4 /\ b.do[4] = Statement("rename", Temp(t), t, NULL)
  BY <1>1, FirstStatements DEF RebuildScript
<1>3. tables \in TablesType /\ ~Throws(s) /\ tables' = AfterStatement(s) BY RunIs
<1>4. Refs /\ TempColumns BY DEF UpgradeInv
<1>5. tables[Temp(t)] # NULL /\ tables'[t] = tables[Temp(t)]
  BY <1>1, <1>2, <1>3, <1>4, RebuildEffects
<1>6. CASE Scoping(b)
  <2>1. "workspace_id" \in RebuiltColumns(t) BY <1>6 DEF Scoping, RebuiltColumns, Scoped, Joins
  <2>2. HasColumn(t, "workspace_id")' BY <1>1, <1>4, <1>5, <2>1 DEF TempColumns, HasTable, HasColumn
  <2> QED BY <1>6, <2>2 DEF Scoping, Established
<1>7. CASE Repairing(b)
  <2>1. tables'[t].ref # OldHome(t) BY <1>4, <1>5, <1>7, RefOfHome DEF Repairing, Refs, HasTable
  <2> QED BY <1>7, <2>1 DEF Repairing, Established
<1> QED BY <1>6, <1>7

\* The retirement touches nothing a block sees to.
LEMMA RetireEstablished ==
  ASSUME UpgradeInv, Run, NEW b, b = Script[block], Retiring(b), NEW c \in GoodBlock, Established(c)
  PROVE  Established(c)'
<1> DEFINE s == b.do[stmt]
<1>1. /\ block \in 1..Len(Script) /\ stmt \in 1..Len(b.do) /\ tables \in TablesType
      /\ tables' = AfterStatement(s) /\ accounts' = AfterAccounts(s)
      /\ unplaced' = AfterUnplaced(s)
  BY RunIs
<1>2. /\ Len(b.do) = 2 /\ b.do[1] = Statement("dropif", "task_assignees", NULL, NULL)
      /\ b.do[2] = Statement("dropif", "assignees", NULL, NULL)
  BY DEF Retiring, RetireScript
<1>3. \A u : ~Renaming(u)
  <2>1. stmt \in 1..2 BY <1>1, <1>2
  <2> QED BY <2>1 DEF Renaming
<1>4. PICK n \in Legacy : tables' = [tables EXCEPT ![n] = NULL]
  <2>1. stmt \in 1..2 BY <1>1, <1>2
  <2> DEFINE x == Statement("dropif", "task_assignees", NULL, NULL)
             y == Statement("dropif", "assignees", NULL, NULL)
  <2>4. /\ AfterStatement(x) = [tables EXCEPT !["task_assignees"] = NULL]
        /\ AfterStatement(y) = [tables EXCEPT !["assignees"] = NULL]
    BY DEF AfterStatement, Statement
  <2>5. b.do[1] = x /\ b.do[2] = y BY <1>2
  <2> HIDE DEF x, y
  <2>2. CASE stmt = 1
    <3>1. tables' = [tables EXCEPT !["task_assignees"] = NULL] BY <1>1, <2>2, <2>4, <2>5
    <3> QED BY <3>1 DEF Legacy
  <2>3. CASE stmt = 2
    <3>1. tables' = [tables EXCEPT !["assignees"] = NULL] BY <1>1, <2>3, <2>4, <2>5
    <3> QED BY <3>1 DEF Legacy
  <2> QED BY <2>1, <2>2, <2>3
<1>5. n \in Names /\ n \notin Current /\ Base \subseteq Names /\ Current \subseteq Base
  BY BaseNames DEF Legacy, Current, Base, Rebuilt, Scoped, Joins
<1>6. tables'[n] = NULL /\ \A m \in Names \ {n} : tables'[m] = tables[m] BY <1>1, <1>4, <1>5 DEF TablesType
<1>7. c.if = "always" => \A u \in Current : HasTable(u)'
  BY <1>3, <1>5, <1>6 DEF Established, HasTable
<1>8. c.if = "lacks" => HasColumn(c.on, c.col)' \/ (c.on \in Legacy /\ ~HasTable(c.on)')
  BY <1>3, <1>5, <1>6, AsksWhat DEF Established, HasTable, HasColumn
<1>9. c.if = "dangling" /\ HasTable(c.on)' => tables'[c.on].ref # OldHome(c.on)
  <2>1. c.if = "dangling" => c.on \in Names BY AsksWhat, BaseNames DEF Rebuilt
  <2> QED BY <1>6, <2>1 DEF Established, HasTable
<1>10. c.if = "orphans" => ~Orphans' BY <1>1, OrphansStay DEF Established
<1> QED BY <1>7, <1>8, <1>9, <1>10 DEF Established

\* Only one column is ever removed.
LEMMA RemovesTeam ==
  ASSUME NEW b \in GoodBlock, NEW i \in 1..Len(b.do), b.do[i].op = "remove"
  PROVE  b.do[i].col = "team"
<1>1. CASE Removing(b)
  <2>1. Len(b.do) = 1 /\ b.do[1].col = "team" BY <1>1 DEF Removing, Statement
  <2> QED BY <2>1
<1>2. CASE Creating(b) \/ Filling(b)
  <2>1. Len(b.do) = 1 /\ b.do[1].op # "remove" BY <1>2, FirstStatements
  <2> QED BY <2>1
<1>3. CASE Adding(b)
  <2>1. /\ Len(b.do) \in 1..2 /\ b.do[1].op = "add"
        /\ Len(b.do) = 2 => b.do[2].op = "order"
    BY <1>3, FirstStatements
  <2> QED BY <2>1
<1>4. CASE Scoping(b) \/ Repairing(b)
  <2>1. Len(b.do) = 4 /\ \A n \in 1..4 : b.do[n].op # "remove"
    BY <1>4 DEF Scoping, Repairing, RebuildScript, Statement
  <2> QED BY <2>1
<1>5. CASE Retiring(b)
  <2>1. Len(b.do) = 2 /\ \A n \in 1..2 : b.do[n].op # "remove"
    BY <1>5 DEF Retiring, RetireScript, Statement
  <2> QED BY <2>1
<1> QED BY <1>1, <1>2, <1>3, <1>4, <1>5 DEF GoodBlock

\* Run leaves what is established, and establishes the block it ends.
LEMMA RunPlaces ==
  ASSUME UpgradeInv, Run, NEW i \in 1..Len(Script), NEW c, c = Script[i],
         (i < block /\ Established(c)) \/ (i = block /\ stmt = Len(Script[block].do))
  PROVE  Established(c)'
<1> DEFINE b == Script[block]
<1>1. block \in 1..Len(Script) /\ b \in GoodBlock /\ c \in GoodBlock BY RunIs, BlockAt
<1>2. CASE i < block /\ Established(c)
  <2>1. CASE Adding(b) \/ Creating(b) \/ Removing(b) \/ Filling(b)
    <3>1. Plain(b) /\ Late(b) BY <2>1, AddingPlain, SinglePlain
    <3>2. b.do[stmt].op = "remove" => b.do[stmt].col = "team" BY <1>1, RunIs, RemovesTeam
    <3> QED BY <1>1, <1>2, <3>1, <3>2, PlainEstablished
  <2>2. CASE Scoping(b) \/ Repairing(b)
    <3>1. b.on \in Rebuilt /\ b.do = RebuildScript(b.on) BY <2>2 DEF Scoping, Repairing, Rebuilt
    <3>2. Early(c) BY <1>1, <1>2, <3>1, BeforeRebuild DEF Late
    <3> QED BY <1>1, <1>2, <3>1, <3>2, RebuildEstablished
  <2>3. CASE Retiring(b) BY <1>1, <1>2, <2>3, RetireEstablished
  <2> QED BY <1>1, <2>1, <2>2, <2>3 DEF GoodBlock
<1>3. CASE i = block /\ stmt = Len(Script[block].do)
  <2>1. c = b BY <1>3
  <2>2. CASE Adding(b) \/ Creating(b) \/ Removing(b) \/ Filling(b)
    BY <1>3, <2>1, <2>2, PlainEstablishes
  <2>3. CASE Scoping(b) \/ Repairing(b) BY <1>3, <2>1, <2>3, RebuildEstablishes
  <2>4. CASE Retiring(b) BY <2>1, <2>4 DEF Retiring, Established
  <2> QED BY <1>1, <2>2, <2>3, <2>4 DEF GoodBlock
<1> QED BY <1>2, <1>3


\* A block that does not apply has nothing left to see to.
LEMMA SkipEstablishes ==
  ASSUME NEW b \in GoodBlock, ~Applies(b)
  PROVE  Established(b)
<1>1. b.if # "always" BY DEF Applies
<1>2. b.if = "lacks" => HasColumn(b.on, b.col) \/ (b.on \in Legacy /\ ~HasTable(b.on))
  BY DEF Applies, MayBeGone
<1>3. b.if = "dangling" /\ HasTable(b.on) => tables[b.on].ref # OldHome(b.on) BY DEF Applies
<1>4. b.if = "orphans" => ~Orphans BY DEF Applies
<1> QED BY <1>1, <1>2, <1>3, <1>4 DEF Established

\* Established is about tables, accounts and workspaces.
LEMMA StaysEstablished ==
  ASSUME (accounts' = accounts /\ unplaced' = unplaced) \/ ~Orphans', stmt # 4, NEW c \in GoodBlock, Established(c),
         \A n \in Names : tables[n] # NULL =>
           tables'[n] # NULL /\ tables'[n].cols = tables[n].cols /\ tables'[n].ref = tables[n].ref,
         \A n \in Names : tables[n] = NULL => tables'[n] = NULL
  PROVE  Established(c)'
<1>1. \A u : ~Renaming(u) BY DEF Renaming
<1>2. \A t \in Current \cup Base : t \in Names BY BaseNames
<1>3. c.if = "always" => \A t \in Current : HasTable(t)' BY <1>1, <1>2 DEF Established, HasTable
<1>4. c.if = "lacks" => HasColumn(c.on, c.col)' \/ (c.on \in Legacy /\ ~HasTable(c.on)')
  BY <1>1, <1>2, AsksWhat DEF Established, HasTable, HasColumn
<1>5. c.if = "dangling" /\ HasTable(c.on)' => tables'[c.on].ref # OldHome(c.on)
  <2>1. c.if = "dangling" => c.on \in Names BY AsksWhat, BaseNames DEF Rebuilt
  <2> QED BY <2>1 DEF Established, HasTable
<1>6. c.if = "orphans" => ~Orphans' BY DEF Established, Orphans
<1> QED BY <1>3, <1>4, <1>5, <1>6 DEF Established

\* What is behind the boot after it went on.
LEMMA PassedNext ==
  ASSUME UpgradeInv, NextBlock, phase = "booting", NEW i \in 1..Len(Script), Passed(i)'
  PROVE  (Passed(i) /\ i < block) \/ i = block
<1>1. block \in 1..Len(Script) /\ Len(Script) \in Nat BY ScriptGood DEF UpgradeInv, BootInv, TypeOK
<1>2. CASE block = Len(Script)
  <2>1. i < block \/ i = block BY <1>1, <1>2
  <2> QED BY <2>1 DEF Passed
<1>3. CASE block # Len(Script)
  <2>1. block' = block + 1 /\ phase' = phase BY <1>3 DEF NextBlock
  <2>2. i < block + 1 BY <2>1 DEF Passed
  <2>3. i < block \/ i = block BY <1>1, <2>2
  <2> QED BY <2>3 DEF Passed
<1> QED BY <1>2, <1>3

LEMMA RunKeepsPlaced ==
  ASSUME UpgradeInv, Run
  PROVE  Placed'
<1> SUFFICES ASSUME NEW i \in 1..Len(Script), Passed(i)' PROVE Established(Script[i])'
  BY DEF Placed
<1>1. /\ stmt \in 1..Len(Script[block].do) /\ Len(Script[block].do) \in Nat /\ phase = "booting"
      /\ IF stmt < Len(Script[block].do)
           THEN stmt' = stmt + 1 /\ phase' = phase /\ block' = block ELSE NextBlock
  BY RunIs
<1>2. (Passed(i) /\ i < block) \/ (i = block /\ stmt = Len(Script[block].do))
  <2>1. CASE stmt < Len(Script[block].do)
    <3>1. phase' = "booting" /\ block' = block BY <1>1, <2>1
    <3> QED BY <1>1, <3>1 DEF Passed
  <2>2. CASE ~(stmt < Len(Script[block].do))
    <3>1. NextBlock /\ stmt = Len(Script[block].do) BY <1>1, <2>2
    <3>2. (Passed(i) /\ i < block) \/ i = block BY <1>1, <3>1, PassedNext
    <3> QED BY <3>1, <3>2
  <2> QED BY <2>1, <2>2
<1>3. (i < block /\ Established(Script[i])) \/ (i = block /\ stmt = Len(Script[block].do))
  BY <1>2 DEF UpgradeInv, Placed
<1>4. ASSUME NEW d, d = Script[i], (i < block /\ Established(d)) \/ (i = block /\ stmt = Len(Script[block].do))
      PROVE  Established(d)'
  BY <1>4, RunPlaces
<1> QED BY <1>3, <1>4

LEMMA SkipKeepsPlaced ==
  ASSUME UpgradeInv, Skip
  PROVE  Placed'
<1> SUFFICES ASSUME NEW i \in 1..Len(Script), Passed(i)' PROVE Established(Script[i])'
  BY DEF Placed
<1>1. /\ phase = "booting" /\ stmt = 1 /\ ~Applies(Script[block]) /\ NextBlock
      /\ tables' = tables /\ accounts' = accounts /\ unplaced' = unplaced
  BY DEF Skip, Entering
<1>2. block \in 1..Len(Script) BY DEF UpgradeInv, BootInv, TypeOK
<1>3. (Passed(i) /\ i < block) \/ i = block BY <1>1, PassedNext
<1>4. Established(Script[i])
  <2>1. Passed(i) => Established(Script[i]) BY DEF UpgradeInv, Placed
  <2>2. Established(Script[block]) BY <1>1, <1>2, BlockAt, SkipEstablishes
  <2> QED BY <1>3, <2>1, <2>2
<1>5. ASSUME NEW d \in GoodBlock, Established(d) PROVE Established(d)'
  BY <1>1, <1>5, StaysEstablished
<1> QED BY <1>4, <1>5, BlockAt

\* A boot that begins or ends is behind no block.
LEMMA NothingPassed ==
  ASSUME phase' \in {"booting", "down", "failed"}, block' = 1
  PROVE  Placed'
<1> SUFFICES ASSUME NEW i \in 1..Len(Script), Passed(i)' PROVE FALSE BY DEF Placed
<1> QED BY DEF Passed

LEMMA ServingKeepsPlaced ==
  ASSUME UpgradeInv, phase = "serving", phase' = phase, block' = block, stmt' = stmt,
         (accounts' = accounts /\ unplaced' = unplaced) \/ ~Orphans',
         \A n \in Names : tables[n] # NULL =>
           tables'[n] # NULL /\ tables'[n].cols = tables[n].cols /\ tables'[n].ref = tables[n].ref,
         \A n \in Names : tables[n] = NULL => tables'[n] = NULL
  PROVE  Placed'
<1> SUFFICES ASSUME NEW i \in 1..Len(Script), Passed(i)' PROVE Established(Script[i])'
  BY DEF Placed
<1>1. stmt = 1 BY DEF UpgradeInv, BootInv
<1>2. Established(Script[i]) BY DEF UpgradeInv, Placed, Passed
<1>3. ASSUME NEW d \in GoodBlock, Established(d) PROVE Established(d)'
  BY <1>1, <1>3, StaysEstablished
<1> QED BY <1>2, <1>3, BlockAt

------------------------------------------------------------------------------
(* References, columns of what is being built, ranks and orders.           *)

\* The tables after Run, by the kind of the block.
PlainRun ==
  LET s == Script[block].do[stmt] IN
  /\ Late(Script[block]) /\ s.op \in PlainOps
  /\ \A n \in Names : tables[n] # NULL =>
       /\ tables'[n] # NULL /\ tables'[n].ref = tables[n].ref
       /\ \A c \in tables[n].cols : c \in tables'[n].cols \/ c = "team"
       /\ tables'[n].order = tables[n].order \/ (s.op = "order" /\ n = s.on /\ tables'[n].order = "listed")
  /\ \A n \in Names : tables[n] = NULL /\ tables'[n] # NULL =>
       n \in Current /\ tables'[n].ref = RefOf(n) /\ tables'[n].order = "flat"
  /\ s.op = "add" => tables'[s.on] # NULL /\ s.col \in tables'[s.on].cols
RetireRun ==
  /\ Retiring(Script[block])
  /\ \E n \in Legacy : tables'[n] = NULL /\ \A m \in Names \ {n} : tables'[m] = tables[m]
CreateRun(t) ==
  /\ stmt = 1 /\ tables[Temp(t)] = NULL
  /\ tables'[Temp(t)] # NULL /\ tables'[Temp(t)].cols = RebuiltColumns(t)
  /\ tables'[Temp(t)].order = "flat" /\ tables'[Temp(t)].ref = RefOf(t)
  /\ \A m \in Names \ {Temp(t)} : tables'[m] = tables[m]
CopyRun(t) ==
  /\ stmt = 2 /\ tables[t] # NULL /\ tables[Temp(t)] # NULL /\ tables'[Temp(t)] # NULL
  /\ tables'[Temp(t)].cols = tables[Temp(t)].cols /\ tables'[Temp(t)].ref = tables[Temp(t)].ref
  /\ tables'[Temp(t)].order = IF t \in CopiesOrder THEN tables[t].order ELSE "flat"
  /\ \A m \in Names \ {Temp(t)} : tables'[m] = tables[m]
DropRun(t) == stmt = 3 /\ tables'[t] = NULL /\ \A m \in Names \ {t} : tables'[m] = tables[m]
RenameRun(t) ==
  /\ stmt = 4 /\ tables[Temp(t)] # NULL /\ tables[t] = NULL
  /\ tables'[t] = tables[Temp(t)] /\ tables'[Temp(t)] = NULL
  /\ \A m \in Names \ {t, Temp(t)} : tables'[m] = tables[m]
RebuildRun(t) ==
  /\ Script[block].do = RebuildScript(t)
  /\ Scoping(Script[block]) \/ Repairing(Script[block])
  /\ Script[block].on = t
  /\ CreateRun(t) \/ CopyRun(t) \/ DropRun(t) \/ RenameRun(t)

LEMMA RunKinds ==
  ASSUME UpgradeInv, Run
  PROVE  PlainRun \/ RetireRun \/ \E t \in Rebuilt : RebuildRun(t)
<1> DEFINE b == Script[block]
           s == b.do[stmt]
<1>1. /\ block \in 1..Len(Script) /\ b \in GoodBlock /\ s \in StatementRow /\ stmt \in 1..Len(b.do)
      /\ tables \in TablesType /\ ~Throws(s) /\ tables' = AfterStatement(s)
  BY RunIs
<1>2. CASE Adding(b) \/ Creating(b) \/ Removing(b) \/ Filling(b)
  <2>1. Plain(b) /\ Late(b) BY <1>2, AddingPlain, SinglePlain
  <2>2. s.op \in PlainOps /\ (s.op = "add" => s.col \in Columns) BY <1>1, <2>1 DEF Plain
  <2>3. s.op = "remove" => s.col = "team" BY <1>1, RemovesTeam
  <2>4. /\ \A n \in Names : tables[n] # NULL =>
              /\ tables'[n] # NULL /\ tables'[n].ref = tables[n].ref
              /\ \A c \in tables[n].cols :
                   c \in tables'[n].cols \/ (s.op = "remove" /\ n = s.on /\ c = s.col)
              /\ \/ tables'[n].order = tables[n].order
                 \/ (s.op = "order" /\ n = s.on /\ tables'[n].order = "listed")
        /\ \A n \in Names : tables[n] = NULL /\ tables'[n] # NULL =>
              n \in Current /\ tables'[n].ref = RefOf(n) /\ tables'[n].order = "flat"
        /\ s.op = "add" => tables'[s.on] # NULL /\ s.col \in tables'[s.on].cols
    BY SMTT(30), <1>1, <2>2, PlainEffect
  <2> HIDE DEF s
  <2>5. PlainRun BY <2>1, <2>2, <2>3, <2>4 DEF PlainRun, s
  <2> QED BY <2>5
<1>3. CASE Scoping(b) \/ Repairing(b)
  <2> DEFINE t == b.on
  <2>1. t \in Rebuilt /\ b.do = RebuildScript(t) BY <1>3 DEF Scoping, Repairing, Rebuilt
  <2>2. /\ Len(b.do) = 4 /\ b.do[1] = Statement("create", Temp(t), t, NULL)
        /\ b.do[2] = Statement("copy", t, Temp(t), NULL) /\ b.do[3] = Statement("drop", t, NULL, NULL)
        /\ b.do[4] = Statement("rename", Temp(t), t, NULL)
    BY <2>1 DEF RebuildScript
  <2>3. CASE stmt = 1
    <3>1. tables[Temp(t)] = NULL BY <1>1, <2>2, <2>3 DEF Throws, Statement, HasTable
    <3>2. CreateRun(t) BY <1>1, <2>1, <2>2, <2>3, <3>1, RebuildEffects DEF CreateRun
    <3> QED BY <1>3, <2>1, <3>2 DEF RebuildRun
  <2>4. CASE stmt = 2
    <3>1. tables[t] # NULL BY <1>1, <2>2, <2>4 DEF Throws, Statement, HasTable
    <3>2. CopyRun(t) BY <1>1, <2>1, <2>2, <2>4, <3>1, RebuildEffects DEF CopyRun
    <3> QED BY <1>3, <2>1, <3>2 DEF RebuildRun
  <2>5. CASE stmt = 3
    <3>1. DropRun(t) BY <1>1, <2>1, <2>2, <2>5, RebuildEffects DEF DropRun
    <3> QED BY <1>3, <2>1, <3>1 DEF RebuildRun
  <2>6. CASE stmt = 4
    <3>1. Refs BY DEF UpgradeInv
    <3>2. RenameRun(t) BY <1>1, <2>1, <2>2, <2>6, <3>1, RebuildEffects DEF RenameRun
    <3> QED BY <1>3, <2>1, <3>2 DEF RebuildRun
  <2> QED BY <1>1, <2>2, <2>3, <2>4, <2>5, <2>6
<1>4. CASE Retiring(b)
  <2>1. PICK n \in Legacy : tables' = [tables EXCEPT ![n] = NULL]
    <3>1. /\ Len(b.do) = 2 /\ b.do[1] = Statement("dropif", "task_assignees", NULL, NULL)
          /\ b.do[2] = Statement("dropif", "assignees", NULL, NULL)
      BY <1>4 DEF Retiring, RetireScript
    <3> DEFINE x == Statement("dropif", "task_assignees", NULL, NULL)
               y == Statement("dropif", "assignees", NULL, NULL)
    <3>2. /\ AfterStatement(x) = [tables EXCEPT !["task_assignees"] = NULL]
          /\ AfterStatement(y) = [tables EXCEPT !["assignees"] = NULL]
      BY DEF AfterStatement, Statement
    <3>3. b.do[1] = x /\ b.do[2] = y /\ stmt \in 1..2 BY <1>1, <3>1
    <3> HIDE DEF x, y
    <3>4. CASE stmt = 1 BY <1>1, <3>2, <3>3, <3>4 DEF Legacy
    <3>5. CASE stmt = 2 BY <1>1, <3>2, <3>3, <3>5 DEF Legacy
    <3> QED BY <3>3, <3>4, <3>5
  <2>2. n \in Names BY BaseNames DEF Legacy, Base, Rebuilt, Scoped, Joins
  <2>3. tables'[n] = NULL /\ \A m \in Names \ {n} : tables'[m] = tables[m]
    BY <1>1, <2>1, <2>2 DEF TablesType
  <2> QED BY <1>4, <2>3 DEF RetireRun
<1> QED BY <1>1, <1>2, <1>3, <1>4 DEF GoodBlock

\* Temporary names are no tables of today or of old, and do not collide.
LEMMA TempApart ==
  ASSUME NEW t \in Rebuilt
  PROVE  /\ t \in Names /\ Temp(t) \in Names /\ Temp(t) # t
         /\ Temp(t) \notin Base /\ Temp(t) \notin Current /\ Temp(t) \notin Legacy /\ Temp(t) \notin Listed
         /\ \A u \in Rebuilt : Temp(u) # t /\ (Temp(u) = Temp(t) => u = t)
<1>1. Legacy \subseteq Base /\ Listed \subseteq Base BY DEF Legacy, Listed, Base, Rebuilt, Scoped, Joins
<1> QED BY <1>1, TempFacts, BaseNames

LEMMA RunKeepsRefs ==
  ASSUME UpgradeInv, Run
  PROVE  Refs' /\ TempColumns'
<1>1. Refs /\ TempColumns BY DEF UpgradeInv
<1>2. Joins \subseteq Rebuilt BY DEF Rebuilt
<1>3. CASE PlainRun
  <2>1. ASSUME NEW j \in Joins, tables'[j] # NULL PROVE tables'[j].ref \in {Home(j), OldHome(j)}
    <3>1. j \in Names BY <1>2, TempApart
    <3>2. CASE tables[j] # NULL BY <1>1, <1>3, <3>1, <3>2 DEF PlainRun, Refs, HasTable
    <3>3. CASE tables[j] = NULL BY <1>3, <2>1, <3>1, <3>3, RefOfHome DEF PlainRun
    <3> QED BY <3>2, <3>3
  <2>2. ASSUME NEW t \in Rebuilt, tables'[Temp(t)] # NULL PROVE tables[Temp(t)] # NULL
    BY <1>3, <2>2, TempApart DEF PlainRun
  <2>3. ASSUME NEW j \in Joins, tables'[Temp(j)] # NULL PROVE tables'[Temp(j)].ref = Home(j)
    BY <1>1, <1>2, <1>3, <2>2, <2>3, TempApart DEF PlainRun, Refs, HasTable
  <2>4. ASSUME NEW t \in Rebuilt, tables'[Temp(t)] # NULL
        PROVE  RebuiltColumns(t) \subseteq tables'[Temp(t)].cols
    <3>1. RebuiltColumns(t) \subseteq tables[Temp(t)].cols /\ "team" \notin RebuiltColumns(t)
      BY <1>1, <2>2, <2>4 DEF TempColumns, HasTable, RebuiltColumns
    <3>2. \A c \in tables[Temp(t)].cols : c \in tables'[Temp(t)].cols \/ c = "team"
      BY <1>3, <2>2, <2>4, TempApart DEF PlainRun
    <3> QED BY <3>1, <3>2
  <2> QED BY <2>1, <2>3, <2>4 DEF Refs, TempColumns, HasTable
<1>4. CASE RetireRun
  <2>1. PICK n \in Legacy : tables'[n] = NULL /\ \A m \in Names \ {n} : tables'[m] = tables[m]
    BY <1>4 DEF RetireRun
  <2>2. \A m \in Names : tables'[m] # NULL => tables'[m] = tables[m] BY <2>1
  <2> QED BY <1>1, <1>2, <2>2, TempApart DEF Refs, TempColumns, HasTable
<1>5. ASSUME NEW t \in Rebuilt, RebuildRun(t) PROVE Refs' /\ TempColumns'
  <2>1. CASE CreateRun(t)
    <3>1. /\ tables'[Temp(t)].cols = RebuiltColumns(t) /\ tables'[Temp(t)].ref = RefOf(t)
          /\ \A m \in Names \ {Temp(t)} : tables'[m] = tables[m]
      BY <2>1 DEF CreateRun
    <3>2. ASSUME NEW j \in Joins PROVE tables'[j] = tables[j] BY <1>2, <3>1, TempApart
    <3>3. ASSUME NEW u \in Rebuilt, u # t PROVE tables'[Temp(u)] = tables[Temp(u)]
      BY <3>1, <3>3, TempApart
    <3>4. Refs'
      <4>1. ASSUME NEW j \in Joins, HasTable(Temp(j))' PROVE tables'[Temp(j)].ref = Home(j)
        <5>1. CASE j = t BY <3>1, <5>1, RefOfHome
        <5>2. CASE j # t BY <1>1, <1>2, <3>3, <4>1, <5>2 DEF Refs, HasTable
        <5> QED BY <5>1, <5>2
      <4> QED BY <1>1, <3>2, <4>1 DEF Refs, HasTable
    <3>5. TempColumns' BY <1>1, <3>1, <3>3 DEF TempColumns, HasTable
    <3> QED BY <3>4, <3>5
  <2>2. CASE CopyRun(t)
    <3>1. /\ tables'[Temp(t)].cols = tables[Temp(t)].cols /\ tables'[Temp(t)].ref = tables[Temp(t)].ref
          /\ tables[Temp(t)] # NULL /\ \A m \in Names \ {Temp(t)} : tables'[m] = tables[m]
      BY <2>2 DEF CopyRun
    <3>2. ASSUME NEW j \in Joins PROVE tables'[j] = tables[j] BY <1>2, <3>1, TempApart
    <3>3. ASSUME NEW u \in Rebuilt, u # t PROVE tables'[Temp(u)] = tables[Temp(u)]
      BY <3>1, <3>3, TempApart
    <3>4. Refs'
      <4>1. ASSUME NEW j \in Joins, HasTable(Temp(j))' PROVE tables'[Temp(j)].ref = Home(j)
        <5>1. CASE j = t BY <1>1, <3>1, <5>1 DEF Refs, HasTable
        <5>2. CASE j # t BY <1>1, <1>2, <3>3, <4>1, <5>2 DEF Refs, HasTable
        <5> QED BY <5>1, <5>2
      <4> QED BY <1>1, <3>2, <4>1 DEF Refs, HasTable
    <3>5. TempColumns' BY <1>1, <3>1, <3>3 DEF TempColumns, HasTable
    <3> QED BY <3>4, <3>5
  <2>3. CASE DropRun(t)
    <3>1. \A m \in Names : tables'[m] # NULL => tables'[m] = tables[m] BY <2>3 DEF DropRun
    <3> QED BY <1>1, <1>2, <3>1, TempApart DEF Refs, TempColumns, HasTable
  <2>4. CASE RenameRun(t)
    <3>1. /\ tables[Temp(t)] # NULL /\ tables'[t] = tables[Temp(t)] /\ tables'[Temp(t)] = NULL
          /\ \A m \in Names \ {t, Temp(t)} : tables'[m] = tables[m]
      BY <2>4 DEF RenameRun
    <3>2. ASSUME NEW u \in Rebuilt, u # t PROVE tables'[u] = tables[u] /\ tables'[Temp(u)] = tables[Temp(u)]
      BY <3>1, <3>2, TempApart
    <3>3. ASSUME NEW j \in Joins, HasTable(j)' PROVE tables'[j].ref \in {Home(j), OldHome(j)}
      <4>1. CASE j = t BY <1>1, <3>1, <4>1 DEF Refs, HasTable
      <4>2. CASE j # t BY <1>1, <1>2, <3>2, <3>3, <4>2 DEF Refs, HasTable
      <4> QED BY <4>1, <4>2
    <3>4. ASSUME NEW j \in Joins, HasTable(Temp(j))' PROVE tables'[Temp(j)].ref = Home(j)
      BY <1>1, <1>2, <3>1, <3>2, <3>4 DEF Refs, HasTable
    <3>5. ASSUME NEW u \in Rebuilt, HasTable(Temp(u))' PROVE RebuiltColumns(u) \subseteq tables'[Temp(u)].cols
      BY <1>1, <3>1, <3>2, <3>5 DEF TempColumns, HasTable
    <3> QED BY <3>3, <3>4, <3>5 DEF Refs, TempColumns
  <2> QED BY <1>5, <2>1, <2>2, <2>3, <2>4 DEF RebuildRun
<1> QED BY <1>3, <1>4, <1>5, RunKinds

\* Ranks are translated by one statement, and it runs only when an account or
\* a workspace has no organization.
LEMMA BackfillAsks ==
  ASSUME UpgradeInv, Run, Script[block].do[stmt].op = "backfill"
  PROVE  Orphans
<1> DEFINE b == Script[block]
           s == b.do[stmt]
<1>1. b \in GoodBlock /\ s \in StatementRow /\ stmt \in 1..Len(b.do) /\ (stmt = 1 => Applies(b))
  BY RunIs
<1>3. s.op = "backfill" OBVIOUS
<1>4. CASE Filling(b)
  <2>1. Len(b.do) = 1 /\ b.if = "orphans" BY <1>4, FirstStatements DEF Filling
  <2>2. Applies(b) BY <1>1, <2>1
  <2>3. Orphans BY <2>1, <2>2 DEF Applies
  <2> QED BY <1>3, <2>3
<1>5. CASE Adding(b)
  <2>1. /\ Len(b.do) \in 1..2 /\ b.do[1].op = "add"
        /\ Len(b.do) = 2 => b.do[2].op = "order"
    BY <1>5, FirstStatements
  <2> QED BY <1>1, <1>3, <2>1
<1>6. CASE Creating(b) \/ Removing(b)
  <2>1. Len(b.do) = 1 /\ b.do[1].op \in {"schema", "remove"} BY <1>6, FirstStatements
  <2> QED BY <1>1, <1>3, <2>1
<1>7. CASE Scoping(b) \/ Repairing(b)
  <2>1. Len(RebuildScript(b.on)) = 4 /\ \A n \in 1..4 : RebuildScript(b.on)[n].op # "backfill"
    BY DEF RebuildScript, Statement
  <2>2. b.do = RebuildScript(b.on) BY <1>7 DEF Scoping, Repairing
  <2> QED BY <1>1, <1>3, <2>1, <2>2
<1>8. CASE Retiring(b)
  <2>1. Len(b.do) = 2 /\ \A n \in 1..2 : b.do[n].op # "backfill"
    BY <1>8 DEF Retiring, RetireScript, Statement
  <2> QED BY <1>1, <1>3, <2>1
<1> QED BY <1>1, <1>4, <1>5, <1>6, <1>7, <1>8 DEF GoodBlock

LEMMA RunKeepsRanked ==
  ASSUME UpgradeInv, Run
  PROVE  /\ Ranked'
         /\ \A u \in People : accounts[u] # NULL /\ accounts[u].org => accounts'[u] = accounts[u]
<1> DEFINE s == Script[block].do[stmt]
<1>1. accounts' = AfterAccounts(s) /\ unplaced' = AfterUnplaced(s) BY RunIs
<1>2. accounts \in [People -> Account \cup {NULL}] /\ Ranked BY DEF UpgradeInv, BootInv, TypeOK
<1>3. CASE s.op # "backfill"
  <2>1. accounts' = accounts /\ (unplaced' => unplaced) BY <1>1, <1>3 DEF AfterAccounts, AfterUnplaced
  <2> QED BY <1>2, <2>1 DEF Ranked
<1>4. CASE s.op = "backfill"
  <2>1. Orphans BY <1>4, BackfillAsks
  <2> HIDE DEF s
  <2>2. ASSUME NEW u \in People, accounts'[u] # NULL
        PROVE  accounts'[u].org = TRUE /\ accounts'[u].role \in Roles
    <3>1. accounts[u] # NULL /\ accounts'[u] = [org |-> TRUE, role |-> Translated(accounts[u].role)]
      BY <1>1, <1>4, <2>2 DEF AfterAccounts
    <3>2. accounts[u].role \in Roles \cup OldRoles BY <1>2, <3>1 DEF Account
    <3>3. Translated(accounts[u].role) \in Roles BY <3>2 DEF Translated, Roles, OldRoles
    <3> QED BY <3>1, <3>3
  <2>3. ASSUME NEW u \in People, accounts[u] # NULL PROVE ~accounts[u].org
    <3>1. CASE unplaced BY <1>2, <2>3, <3>1 DEF Ranked
    <3>2. CASE ~unplaced
      <4>1. PICK v \in People : accounts[v] # NULL /\ ~accounts[v].org BY <2>1, <3>2 DEF Orphans
      <4> QED BY <1>2, <2>3, <4>1 DEF Ranked
    <3> QED BY <3>1, <3>2
  <2>4. ~unplaced' BY <1>1, <1>4 DEF AfterUnplaced
  <2>5. Ranked' BY <2>2, <2>4 DEF Ranked
  <2> QED BY <2>3, <2>5
<1> QED BY <1>3, <1>4

\* A block that adds a sort_order and lists the rows finds no order chosen.
LEMMA ListsUnchosen ==
  ASSUME UpgradeInv, NEW b \in GoodBlock, AddingOrder(b), Adding(b), Applies(b), b.on \in Current
  PROVE  ~IsChosen(b.on)
<1>1. b.on \in Listed /\ b.col = "sort_order" /\ b.if = "lacks" BY DEF AddingOrder, Adding
<1>2. ~HasColumn(b.on, "sort_order") BY <1>1 DEF Applies
<1>3. b.on \notin CopiesOrder BY <1>1 DEF Listed, CopiesOrder
<1>4. ~Arrangeable(b.on) BY <1>2, <1>3 DEF Arrangeable
<1> QED BY <1>4 DEF UpgradeInv, ChosenPlaced

\* A rebuild that leaves the order behind finds none chosen.
LEMMA RebuildsUnchosen ==
  ASSUME UpgradeInv, NEW b \in GoodBlock, Scoping(b) \/ Repairing(b), Applies(b),
         b.on \in Current \ CopiesOrder
  PROVE  ~IsChosen(b.on)
<1>1. CASE Scoping(b)
  <2>1. b.on = "labels" BY <1>1 DEF Scoping, Scoped, Current, Legacy, CopiesOrder
  <2>2. ~HasColumn(b.on, "workspace_id") BY <1>1 DEF Scoping, Applies
  <2>3. ~Arrangeable(b.on) BY <2>1, <2>2 DEF Arrangeable
  <2> QED BY <2>3 DEF UpgradeInv, ChosenPlaced
<1>2. CASE Repairing(b)
  <2>1. b.on \notin Listed BY <1>2 DEF Repairing, Joins, Listed
  <2>2. ~Arrangeable(b.on) BY <2>1 DEF Arrangeable
  <2> QED BY <2>2 DEF UpgradeInv, ChosenPlaced
<1> QED BY <1>1, <1>2

LEMMA PlainKeepsChosen ==
  ASSUME UpgradeInv, Run, PlainRun
  PROVE  /\ ChosenPlaced'
         /\ \A n \in Names : IsChosen(n)' => IsChosen(n)
         /\ \A n \in Names :
              IsChosen(n) => IsChosen(n)' \/ (Script[block].do[stmt].op = "order"
                                              /\ n = Script[block].do[stmt].on)
<1>1. ASSUME NEW n \in Names, IsChosen(n)' PROVE IsChosen(n)
  <2>1. tables'[n] # NULL /\ tables'[n].order = "chosen" BY <1>1 DEF IsChosen, HasTable
  <2>2. tables[n] # NULL BY <2>1 DEF PlainRun
  <2> QED BY <2>1, <2>2 DEF PlainRun, IsChosen, HasTable
<1>2. ASSUME NEW n \in Names, NEW c, c # "team", HasColumn(n, c) PROVE HasColumn(n, c)'
  BY <1>2 DEF PlainRun, HasColumn, HasTable
<1>3. \A n \in Names :
        IsChosen(n) => IsChosen(n)' \/ (Script[block].do[stmt].op = "order"
                                        /\ n = Script[block].do[stmt].on)
  BY DEF PlainRun, IsChosen, HasTable
<1>4. ChosenPlaced BY DEF UpgradeInv
<1>5. ASSUME NEW t \in Current, IsChosen(t)' PROVE Arrangeable(t)'
  <2>1. t \in Names BY BaseNames
  <2>2. Arrangeable(t) BY <1>1, <1>4, <1>5, <2>1 DEF ChosenPlaced
  <2>3. HasColumn(t, "sort_order") => HasColumn(t, "sort_order")' BY <1>2, <2>1
  <2>4. HasColumn(t, "workspace_id") => HasColumn(t, "workspace_id")' BY <1>2, <2>1
  <2> QED BY <2>2, <2>3, <2>4 DEF Arrangeable
<1>6. ASSUME NEW t \in Rebuilt, IsChosen(Temp(t))' PROVE t \in CopiesOrder
  BY <1>1, <1>4, <1>6, TempApart DEF ChosenPlaced
<1>7. ChosenPlaced' BY <1>5, <1>6 DEF ChosenPlaced
<1> QED BY <1>1, <1>3, <1>7

\* Where a table and its columns are as they were, so is where rows may be arranged.
LEMMA ArrangeableSame ==
  ASSUME NEW t, tables'[t] = tables[t]
  PROVE  /\ Arrangeable(t)' <=> Arrangeable(t)
         /\ IsChosen(t)' <=> IsChosen(t)
BY DEF Arrangeable, HasColumn, HasTable, IsChosen

LEMMA RunKeepsChosen ==
  ASSUME UpgradeInv, Run
  PROVE  ChosenPlaced'
<1>1. ChosenPlaced BY DEF UpgradeInv
<1>2. \A t \in Current : t \in Names /\ t \in Base BY BaseNames
<1>3. CASE RetireRun
  <2>1. PICK n \in Legacy : tables'[n] = NULL /\ \A m \in Names \ {n} : tables'[m] = tables[m]
    BY <1>3 DEF RetireRun
  <2>2. ASSUME NEW m \in Names, m # n
        PROVE (Arrangeable(m)' <=> Arrangeable(m)) /\ (IsChosen(m)' <=> IsChosen(m))
    BY <2>1, <2>2, ArrangeableSame
  <2>3. n \notin Current /\ \A t \in Rebuilt : Temp(t) # n /\ Temp(t) \in Names
    BY TempApart DEF Current
  <2> QED BY <1>1, <1>2, <2>2, <2>3 DEF ChosenPlaced, CopiesOrder
<1>4. ASSUME NEW t \in Rebuilt, RebuildRun(t) PROVE ChosenPlaced'
  <2>1. CASE CreateRun(t) \/ CopyRun(t)
    <3>1. \A m \in Names \ {Temp(t)} : tables'[m] = tables[m] BY <2>1 DEF CreateRun, CopyRun
    <3>2. ASSUME NEW u \in Current PROVE IsChosen(u)' => Arrangeable(u)'
      <4>1. tables'[u] = tables[u] BY <1>2, <3>1, TempApart
      <4> QED BY <1>1, <4>1, ArrangeableSame DEF ChosenPlaced
    <3>3. ASSUME NEW u \in Rebuilt, IsChosen(Temp(u))' PROVE u \in CopiesOrder
      <4>1. CASE u = t
        <5>1. CASE CreateRun(t) BY <3>3, <4>1, <5>1 DEF CreateRun, IsChosen
        <5>2. CASE CopyRun(t) BY <3>3, <4>1, <5>2 DEF CopyRun, IsChosen
        <5> QED BY <2>1, <5>1, <5>2
      <4>2. CASE u # t
        <5>1. tables'[Temp(u)] = tables[Temp(u)] BY <3>1, <4>2, TempApart
        <5> QED BY <1>1, <3>3, <5>1, ArrangeableSame DEF ChosenPlaced
      <4> QED BY <4>1, <4>2
    <3> QED BY <3>2, <3>3 DEF ChosenPlaced, CopiesOrder
  <2>2. CASE DropRun(t)
    <3>1. tables'[t] = NULL /\ \A m \in Names \ {t} : tables'[m] = tables[m] BY <2>2 DEF DropRun
    <3>2. ~IsChosen(t)' BY <3>1 DEF IsChosen, HasTable
    <3>3. ASSUME NEW m \in Names, m # t
          PROVE (Arrangeable(m)' <=> Arrangeable(m)) /\ (IsChosen(m)' <=> IsChosen(m))
      BY <3>1, <3>3, ArrangeableSame
    <3> QED BY <1>1, <1>2, <3>2, <3>3, TempApart DEF ChosenPlaced, CopiesOrder
  <2>3. CASE RenameRun(t)
    <3>1. /\ tables'[t] = tables[Temp(t)] /\ tables'[Temp(t)] = NULL
          /\ \A m \in Names \ {t, Temp(t)} : tables'[m] = tables[m]
      BY <2>3 DEF RenameRun
    <3>2. IsChosen(t)' => t \in CopiesOrder
      <4>1. IsChosen(t)' => IsChosen(Temp(t)) BY <3>1 DEF IsChosen, HasTable
      <4> QED BY <1>1, <4>1 DEF ChosenPlaced
    <3>3. ~IsChosen(Temp(t))' BY <3>1 DEF IsChosen, HasTable
    <3>4. ASSUME NEW m \in Names \ {t, Temp(t)}
          PROVE (Arrangeable(m)' <=> Arrangeable(m)) /\ (IsChosen(m)' <=> IsChosen(m))
      BY <3>1, ArrangeableSame
    <3>5. ASSUME NEW u \in Current PROVE IsChosen(u)' => Arrangeable(u)'
      <4>1. CASE u = t BY <3>2, <4>1 DEF Arrangeable, CopiesOrder
      <4>2. CASE u # t BY <1>1, <1>2, <3>4, <4>2, TempApart DEF ChosenPlaced
      <4> QED BY <4>1, <4>2
    <3>6. ASSUME NEW u \in Rebuilt, IsChosen(Temp(u))' PROVE u \in CopiesOrder
      BY <1>1, <3>3, <3>4, <3>6, TempApart DEF ChosenPlaced
    <3> QED BY <3>5, <3>6 DEF ChosenPlaced, CopiesOrder
  <2> QED BY <1>4, <2>1, <2>2, <2>3 DEF RebuildRun
<1> QED BY <1>3, <1>4, PlainKeepsChosen, RunKinds

LEMMA RunKeepsBetween ==
  ASSUME UpgradeInv, Run, NEW b, b = Script[block]
  PROVE  Between'
<1> DEFINE s == b.do[stmt]
<1>1. /\ block \in 1..Len(Script) /\ b \in GoodBlock /\ stmt \in 1..Len(b.do) /\ Len(b.do) \in Nat
      /\ (stmt = 1 => Applies(b))
      /\ IF stmt < Len(b.do) THEN stmt' = stmt + 1 /\ phase' = phase /\ block' = block ELSE NextBlock
  BY RunIs
<1>2. CASE NextBlock
  <2>1. stmt' = 1 BY <1>2 DEF NextBlock
  <2> QED BY <2>1 DEF Between, Added, Copying, Dropping
<1>3. CASE stmt < Len(b.do) /\ stmt' = stmt + 1 /\ block' = block
  <2>1. Script[block'] = b BY <1>3
  <2>2. stmt' = 2 => stmt = 1 BY <1>1, <1>3
  <2>3. stmt' = 3 => stmt = 2 BY <1>1, <1>3
  <2>4. ASSUME Adding(b), stmt' = 2
        PROVE  HasColumn(b.on, b.col)' /\ (b.on \in Current => ~IsChosen(b.on)')
    <3>1. stmt = 1 /\ Applies(b) BY <1>1, <2>2, <2>4
    <3>2. Len(b.do) \in 1..2 /\ b.do[1] = AddColumn(b.on, b.col) BY <2>4, FirstStatements
    <3>3. Len(b.do) = 2
      <4>1. 1 < Len(b.do) BY <1>3, <3>1
      <4>2. \A n \in 1..2 : 1 < n => n = 2 OBVIOUS
      <4> QED BY <3>2, <4>1, <4>2, Zenon
    <3>4. AddingOrder(b) BY <2>4, <3>3, FirstStatements
    <3>5. PlainRun
      <4>1. ~Retiring(b) BY <2>4 DEF Adding, Retiring
      <4>2. \A t \in Rebuilt : b.do # RebuildScript(t) BY <3>3, FirstStatements
      <4> QED BY <4>1, <4>2, RunKinds DEF RetireRun, RebuildRun
    <3>6. s.op = "add" /\ s.on = b.on /\ s.col = b.col BY <3>1, <3>2 DEF AddColumn, Statement
    <3>7. HasColumn(b.on, b.col)' BY <3>5, <3>6 DEF PlainRun, HasColumn, HasTable
    <3>8. b.on \in Current => ~IsChosen(b.on) BY <1>1, <2>4, <3>1, <3>4, ListsUnchosen
    <3>9. b.on \in Names BY <2>4, BaseNames DEF Adding
    <3>10. b.on \in Current => ~IsChosen(b.on)' BY <3>5, <3>8, <3>9, PlainKeepsChosen
    <3> QED BY <3>7, <3>10
  <2>5. ASSUME NEW t \in Rebuilt, b.do = RebuildScript(t)
        PROVE  /\ stmt' = 2 =>
                    ~IsChosen(Temp(t))' /\ (t \in Current \ CopiesOrder => ~IsChosen(t)')
               /\ stmt' = 3 /\ t \in Current /\ IsChosen(t)' => IsChosen(Temp(t))'
    <3>1. RebuildRun(t)
      <4>1. ~PlainRun BY <2>5 DEF PlainRun, Late
      <4>2. ~RetireRun BY <2>5, ScriptsDiffer DEF RetireRun, Retiring
      <4>3. PICK u \in Rebuilt : RebuildRun(u) BY <4>1, <4>2, RunKinds
      <4>4. u = t BY <2>5, <4>3, ScriptsDiffer DEF RebuildRun
      <4> QED BY <4>3, <4>4
    <3>2. b.on = t /\ (Scoping(b) \/ Repairing(b)) BY <3>1 DEF RebuildRun
    <3>3. ASSUME stmt' = 2 PROVE ~IsChosen(Temp(t))' /\ (t \in Current \ CopiesOrder => ~IsChosen(t)')
      <4>1. stmt = 1 /\ Applies(b) BY <1>1, <2>2, <3>3
      <4>2. CreateRun(t) BY <3>1, <4>1 DEF RebuildRun, CopyRun, DropRun, RenameRun
      <4>3. ~IsChosen(Temp(t))' BY <4>2 DEF CreateRun, IsChosen
      <4>4. t \in Current \ CopiesOrder => ~IsChosen(t) BY <1>1, <3>2, <4>1, RebuildsUnchosen
      <4>5. tables'[t] = tables[t] BY <4>2, TempApart DEF CreateRun
      <4> QED BY <4>3, <4>4, <4>5, ArrangeableSame
    <3>4. ASSUME stmt' = 3, t \in Current, IsChosen(t)' PROVE IsChosen(Temp(t))'
      <4>1. stmt = 2 BY <2>3, <3>4
      <4>2. CopyRun(t) BY <3>1, <4>1 DEF RebuildRun, CreateRun, DropRun, RenameRun
      <4>3. tables'[t] = tables[t] BY <4>2, TempApart DEF CopyRun
      <4>4. IsChosen(t) BY <3>4, <4>3, ArrangeableSame
      <4>5. t \in CopiesOrder BY <2>5, <3>4, <4>1, <4>4 DEF UpgradeInv, Between, Copying
      <4> QED BY <4>2, <4>4, <4>5 DEF CopyRun, IsChosen, HasTable
    <3> QED BY <3>3, <3>4
  <2>6. Added' BY <2>1, <2>4 DEF Added
  <2>7. ASSUME NEW t \in Rebuilt, Script[block'].do = RebuildScript(t) PROVE Copying(t)' /\ Dropping(t)'
    BY <2>1, <2>5, <2>7 DEF Copying, Dropping
  <2> QED BY <2>6, <2>7 DEF Between
<1> QED BY <1>1, <1>2, <1>3

------------------------------------------------------------------------------
(* What a boot may find, and what the application does.                    *)

\* An order is kept by tables that list their rows, and labels were rebuilt
\* before they were listed.
LEMMA OrderedColumns ==
  ASSUME NEW t, NEW r \in 0..7, "sort_order" \in ColumnsOf(t, r)
  PROVE  t \in Listed /\ (t = "labels" => "workspace_id" \in ColumnsOf(t, r))
<1>1. PICK i \in DOMAIN Script : /\ Script[i].on = t /\ Script[i].if = "lacks"
                                 /\ Script[i].col = "sort_order" /\ Script[i].since <= r
  BY DEF ColumnsOf
<1>2. DOMAIN Script = 1..Len(Script) BY ScriptGood
<1>3. Script[i] \in GoodBlock BY <1>1, <1>2, BlockAt
<1>4. Adding(Script[i])
  <2>1. ~Scoping(Script[i]) BY <1>1 DEF Scoping
  <2>2. ~Repairing(Script[i]) /\ ~Retiring(Script[i]) /\ ~Creating(Script[i])
        /\ ~Removing(Script[i]) /\ ~Filling(Script[i])
    BY <1>1 DEF Repairing, Retiring, Creating, Removing, Filling
  <2> QED BY <1>3, <2>1, <2>2 DEF GoodBlock
<1>5. t \in Listed /\ (t = "labels" => Script[i].since = 3) BY <1>1, <1>4 DEF Adding
<1>6. ASSUME t = "labels" PROVE "workspace_id" \in ColumnsOf(t, r)
  <2>1. 3 <= r BY <1>1, <1>5, <1>6
  <2> DEFINE w == Block(2, "lacks", "labels", "workspace_id", RebuildScript("labels"))
  <2>2. w.on = "labels" /\ w.if = "lacks" /\ w.col = "workspace_id" /\ w.since = 2 BY DEF Block
  <2>3. Has(Script, w) BY ScriptFacts
  <2> HIDE DEF w
  <2>4. PICK k \in DOMAIN Script : Script[k] = w BY <1>2, <2>3 DEF Has
  <2>5. Script[k].since <= r BY <2>1, <2>2, <2>4
  <2> QED BY <1>6, <2>2, <2>4, <2>5 DEF ColumnsOf
<1> QED BY <1>5, <1>6

LEMMA UpgradedIs ==
  ASSUME NEW r \in Releases, NEW legacy \in BOOLEAN, NEW marked \in BOOLEAN, NEW team \in BOOLEAN,
         NEW rows \in SUBSET Rows, NEW order \in {"listed", "chosen"},
         tables = Upgraded(r, legacy, marked, team, rows, order), NEW n \in Names, HasTable(n)
  PROVE  /\ n \in Base /\ ColumnsOf(n, r) \subseteq tables[n].cols
         /\ tables[n].order = "chosen" =>
              "sort_order" \in ColumnsOf(n, r) \/ n \in {"statuses", "priorities"}
         /\ n \in Joins => tables[n].ref \in {Home(n), OldHome(n)}
<1> DEFINE cs == ColumnsOf(n, r) \cup (IF n = "users" /\ team THEN {"team"} ELSE {})
           rs == IF n \in Rebuilt THEN rows ELSE {}
           os == IF "sort_order" \in ColumnsOf(n, r) \/ n \in {"statuses", "priorities"}
                 THEN order ELSE "flat"
           fs == IF n \in Joins /\ marked THEN OldHome(n) ELSE RefOf(n)
<1>1. tables[n] # NULL BY DEF HasTable
<1>2. n \in Base /\ tables[n] = [cols |-> cs, rows |-> rs, order |-> os, ref |-> fs]
  BY <1>1 DEF Upgraded
<1>3. ColumnsOf(n, r) \subseteq cs OBVIOUS
<1>4. os = "chosen" => "sort_order" \in ColumnsOf(n, r) \/ n \in {"statuses", "priorities"} OBVIOUS
<1>5. n \in Joins => fs \in {Home(n), OldHome(n)} BY RefOfHome
<1> HIDE DEF cs, rs, os, fs
<1>6. tables[n].cols = cs /\ tables[n].order = os /\ tables[n].ref = fs BY <1>2
<1> QED BY <1>2, <1>3, <1>4, <1>5, <1>6

LEMMA InitUpgrade == Init => UpgradeInv
<1> SUFFICES ASSUME Init PROVE UpgradeInv OBVIOUS
<1>1. BootInv BY InitInv
<1>2. phase = "down" /\ stmt = 1 BY DEF Init
<1>3. Placed BY <1>2 DEF Placed, Passed
<1>4. Between BY <1>2 DEF Between, Added, Copying, Dropping
<1>5. CASE tables = NoTables /\ accounts = [u \in People |-> NULL] /\ unplaced = FALSE
  <2>1. \A n \in Names : ~HasTable(n) BY <1>5 DEF NoTables, HasTable
  <2>2. \A j \in Joins : j \in Rebuilt BY DEF Rebuilt
  <2>3. Refs /\ TempColumns BY <2>1, <2>2, TempApart DEF Refs, TempColumns
  <2>4. ChosenPlaced BY <2>1, TempApart, BaseNames DEF ChosenPlaced, IsChosen
  <2>5. Ranked BY <1>5 DEF Ranked
  <2> QED BY <1>1, <1>3, <1>4, <2>3, <2>4, <2>5 DEF UpgradeInv
<1>6. ASSUME NEW r \in Releases, NEW legacy \in BOOLEAN, NEW marked \in BOOLEAN, NEW team \in BOOLEAN,
             NEW rows \in SUBSET Rows, NEW order \in {"listed", "chosen"},
             tables = Upgraded(r, legacy, marked, team, rows, order),
             accounts \in [People -> {NULL} \cup [org : {r >= 4}, role : Ranks(r)]],
             unplaced \in BOOLEAN, r \notin {2, 3} => ~unplaced
      PROVE  UpgradeInv
  <2>1. r \in 0..7 BY ReleasesAreNumbers
  <2>2. \A n \in Names : HasTable(n) =>
          /\ n \in Base /\ ColumnsOf(n, r) \subseteq tables[n].cols
          /\ tables[n].order = "chosen" =>
               "sort_order" \in ColumnsOf(n, r) \/ n \in {"statuses", "priorities"}
          /\ n \in Joins => tables[n].ref \in {Home(n), OldHome(n)}
    BY <1>6, UpgradedIs
  <2>3. \A j \in Joins : j \in Rebuilt BY DEF Rebuilt
  <2>4. \A t \in Rebuilt : ~HasTable(Temp(t)) BY <2>2, TempApart
  <2>5. Refs /\ TempColumns BY <2>2, <2>3, <2>4, TempApart DEF Refs, TempColumns
  <2>6. ASSUME NEW t \in Current, IsChosen(t) PROVE Arrangeable(t)
    <3>1. HasTable(t) /\ tables[t].order = "chosen" /\ t \in Names BY <2>6, BaseNames DEF IsChosen
    <3>2. CASE t \in {"statuses", "priorities"} BY <3>2 DEF Arrangeable, CopiesOrder
    <3>3. CASE "sort_order" \in ColumnsOf(t, r)
      <4>1. t \in Listed /\ (t = "labels" => "workspace_id" \in ColumnsOf(t, r))
        BY <2>1, <3>3, OrderedColumns
      <4>2. ColumnsOf(t, r) \subseteq tables[t].cols BY <2>2, <3>1
      <4> QED BY <3>1, <3>3, <4>1, <4>2 DEF Arrangeable, HasColumn
    <3> QED BY <2>2, <3>1, <3>2, <3>3
  <2>7. ChosenPlaced BY <2>4, <2>6 DEF ChosenPlaced, IsChosen
  <2>8. Ranked
    <3>1. ASSUME NEW u \in People, accounts[u] # NULL
          PROVE  accounts[u].org = (r >= 4) /\ accounts[u].role \in Ranks(r)
      BY <1>6, <3>1
    <3>2. r >= 4 => ~unplaced BY <1>6, <2>1
    <3> QED BY <3>1, <3>2 DEF Ranked, Ranks
  <2> QED BY <1>1, <1>3, <1>4, <2>5, <2>7, <2>8 DEF UpgradeInv
<1>7. CASE ~(tables = NoTables /\ accounts = [u \in People |-> NULL] /\ unplaced = FALSE)
  <2>1. PICK r \in Releases, legacy, marked, team \in BOOLEAN, rows \in SUBSET Rows,
             order \in {"listed", "chosen"} :
          /\ tables = Upgraded(r, legacy, marked, team, rows, order)
          /\ accounts \in [People -> {NULL} \cup [org : {r >= 4}, role : Ranks(r)]]
          /\ unplaced \in BOOLEAN /\ (r \notin {2, 3} => ~unplaced)
    BY <1>7, ZenonT(30) DEF Init
  <2> QED BY <1>6, <2>1
<1> QED BY <1>5, <1>7

\* What serves has been through the whole script.
LEMMA ServedFacts ==
  ASSUME UpgradeInv, phase = "serving"
  PROVE  /\ \A i \in 1..Len(Script) : Established(Script[i])
         /\ \A t : ~Renaming(t)
         /\ ~Orphans
         /\ \A t \in {"projects", "labels", "attachments"} : HasColumn(t, "sort_order")
         /\ HasColumn("labels", "workspace_id")
<1>1. \A i \in 1..Len(Script) : Established(Script[i]) BY DEF UpgradeInv, Placed, Passed
<1>2. \A t : ~Renaming(t) BY DEF Renaming
<1>3. \A b : Has(Script, b) => Established(b) BY <1>1 DEF Has
<1>4. ~Orphans
  <2> DEFINE b == Block(4, "orphans", "users", NULL, <<Statement("backfill", "users", NULL, NULL)>>)
  <2>1. b.if = "orphans" BY DEF Block
  <2>2. Has(Script, b) BY ScriptFacts
  <2> HIDE DEF b
  <2> QED BY <1>3, <2>1, <2>2 DEF Established
<1>5. ASSUME NEW since, NEW t, t \notin Legacy, NEW col, NEW do,
             Has(Script, Block(since, "lacks", t, col, do))
      PROVE  HasColumn(t, col)
  <2> DEFINE b == Block(since, "lacks", t, col, do)
  <2>1. b.if = "lacks" /\ b.on = t /\ b.col = col BY DEF Block
  <2>2. Established(b) BY <1>3, <1>5
  <2> HIDE DEF b
  <2> QED BY <1>2, <1>5, <2>1, <2>2 DEF Established
<1>6. "projects" \notin Legacy /\ "labels" \notin Legacy /\ "attachments" \notin Legacy BY DEF Legacy
<1>7. \A t \in {"projects", "labels", "attachments"} : HasColumn(t, "sort_order")
  BY <1>5, <1>6, ScriptFacts DEF ListBlock
<1>8. HasColumn("labels", "workspace_id") BY <1>5, <1>6, ScriptFacts
<1> QED BY <1>1, <1>2, <1>4, <1>7, <1>8

\* A row comes or goes, or an order is chosen.
LEMMA EditUpgrade ==
  ASSUME UpgradeInv, NEW t \in Edited \cup Arranged,
         (\E x \in Rows : Insert(t, x) \/ Delete(t, x)) \/ (t \in Arranged /\ Arrange(t)), BootInv'
  PROVE  UpgradeInv'
<1>1. /\ phase = "serving" /\ phase' = phase /\ block' = block /\ stmt' = stmt
      /\ accounts' = accounts /\ unplaced' = unplaced
      /\ HasTable(t) /\ stmt = 1 /\ tables \in TablesType
  BY DEF Insert, Delete, Arrange, UpgradeInv, BootInv, TypeOK, TablesType
<1>2. t \in Names /\ t \in Current
  BY BaseNames DEF Edited, Arranged, Rebuilt, Base, Current, Scoped, Joins, Legacy
<1>3. tables[t] \in TableRow BY <1>1, <1>2 DEF HasTable, TablesType
<1>4. PICK new \in TableRow :
        /\ tables' = [tables EXCEPT ![t] = new] /\ new.cols = tables[t].cols /\ new.ref = tables[t].ref
        /\ new.order = tables[t].order \/ t \in Arranged
  <2>1. ASSUME NEW x \in Rows, Insert(t, x)
        PROVE  \E new \in TableRow :
                 /\ tables' = [tables EXCEPT ![t] = new] /\ new.cols = tables[t].cols
                 /\ new.ref = tables[t].ref /\ new.order = tables[t].order
    <3> DEFINE new == [tables[t] EXCEPT !.rows = @ \cup {x}]
    <3>1. /\ new \in TableRow /\ new.cols = tables[t].cols /\ new.ref = tables[t].ref
          /\ new.order = tables[t].order
      BY <1>3 DEF TableRow
    <3>2. tables' = [tables EXCEPT ![t] = new] BY <2>1 DEF Insert
    <3> HIDE DEF new
    <3> QED BY <3>1, <3>2
  <2>2. ASSUME NEW x \in Rows, Delete(t, x)
        PROVE  \E new \in TableRow :
                 /\ tables' = [tables EXCEPT ![t] = new] /\ new.cols = tables[t].cols
                 /\ new.ref = tables[t].ref /\ new.order = tables[t].order
    <3> DEFINE new == [tables[t] EXCEPT !.rows = @ \ {x}]
    <3>1. /\ new \in TableRow /\ new.cols = tables[t].cols /\ new.ref = tables[t].ref
          /\ new.order = tables[t].order
      BY <1>3 DEF TableRow
    <3>2. tables' = [tables EXCEPT ![t] = new] BY <2>2 DEF Delete
    <3> HIDE DEF new
    <3> QED BY <3>1, <3>2
  <2>3. CASE t \in Arranged /\ Arrange(t)
    <3> DEFINE new == [tables[t] EXCEPT !.order = "chosen"]
    <3>1. new \in TableRow /\ new.cols = tables[t].cols /\ new.ref = tables[t].ref
      BY <1>3 DEF TableRow, Orderings
    <3>2. tables' = [tables EXCEPT ![t] = new] BY <2>3 DEF Arrange
    <3> HIDE DEF new
    <3> QED BY <2>3, <3>1, <3>2
  <2> QED BY <2>1, <2>2, <2>3
<1>5. tables'[t] = new /\ new # NULL /\ \A m \in Names \ {t} : tables'[m] = tables[m]
  BY <1>1, <1>2, <1>4, NullIsNoTable DEF TablesType
<1>6. \A n \in Names : tables[n] # NULL =>
        tables'[n] # NULL /\ tables'[n].cols = tables[n].cols /\ tables'[n].ref = tables[n].ref
  BY <1>4, <1>5
<1>7. \A n \in Names : tables[n] = NULL => tables'[n] = NULL BY <1>1, <1>5 DEF HasTable
<1>8. Placed' BY <1>1, <1>6, <1>7, ServingKeepsPlaced
<1>9. \A j \in Joins : j \in Rebuilt BY DEF Rebuilt
<1>10. Refs' /\ TempColumns'
  BY <1>6, <1>7, <1>9, TempApart DEF UpgradeInv, Refs, TempColumns, HasTable
<1>11. Ranked' BY <1>1 DEF UpgradeInv, Ranked
<1>12. Between' BY <1>1 DEF Between, Added, Copying, Dropping
<1>13. ChosenPlaced'
  <2>1. ChosenPlaced BY DEF UpgradeInv
  <2>2. ASSUME NEW m \in Names, m # t
        PROVE (Arrangeable(m)' <=> Arrangeable(m)) /\ (IsChosen(m)' <=> IsChosen(m))
    BY <1>5, <2>2, ArrangeableSame
  <2>3. IsChosen(t)' => Arrangeable(t)'
    <3>1. Arrangeable(t)' <=> Arrangeable(t) BY <1>2, <1>6, <1>7 DEF Arrangeable, HasColumn, HasTable
    <3>2. CASE t \in Arranged
      <4>1. Arrangeable(t) BY <1>1, <3>2, ServedFacts
              DEF Arranged, Scoped, Legacy, Arrangeable, CopiesOrder, Listed
      <4> QED BY <3>1, <4>1
    <3>3. CASE t \notin Arranged
      <4>1. IsChosen(t)' => IsChosen(t) BY <1>1, <1>4, <1>5, <3>3 DEF IsChosen
      <4> QED BY <1>2, <2>1, <3>1, <4>1 DEF ChosenPlaced
    <3> QED BY <3>2, <3>3
  <2>4. \A u \in Current : IsChosen(u)' => Arrangeable(u)' BY <2>1, <2>2, <2>3, BaseNames DEF ChosenPlaced
  <2>5. \A u \in Rebuilt : IsChosen(Temp(u))' => u \in CopiesOrder
    BY <1>2, <2>1, <2>2, TempApart DEF ChosenPlaced
  <2> QED BY <2>4, <2>5 DEF ChosenPlaced, CopiesOrder
<1> QED BY <1>8, <1>10, <1>11, <1>12, <1>13 DEF UpgradeInv

LEMMA RankUpgrade ==
  ASSUME UpgradeInv, NEW u \in People, NEW r \in Granted, SetRank(u, r), BootInv'
  PROVE  UpgradeInv'
<1>1. /\ phase = "serving" /\ phase' = phase /\ block' = block /\ stmt' = stmt /\ tables' = tables
      /\ unplaced' = unplaced /\ stmt = 1 /\ accounts \in [People -> Account \cup {NULL}]
      /\ accounts' = [accounts EXCEPT ![u] = [org |-> TRUE, role |-> r]]
  BY DEF SetRank, UpgradeInv, BootInv, TypeOK
<1>2. r \in Roles BY GrantedAreRoles
<1>3. ~Orphans /\ Ranked BY <1>1, ServedFacts DEF UpgradeInv
<1>4. ASSUME NEW v \in People, accounts'[v] # NULL PROVE accounts'[v].org /\ accounts'[v].role \in Roles
  <2>1. CASE v = u BY <1>1, <1>2, <2>1
  <2>2. CASE v # u
    <3>1. accounts'[v] = accounts[v] BY <1>1, <2>2
    <3> QED BY <1>3, <1>4, <3>1 DEF Orphans, Ranked
  <2> QED BY <2>1, <2>2
<1>5. ASSUME NEW v \in People, accounts'[v] # NULL PROVE accounts'[v].org = TRUE
  <2>1. CASE v = u BY <1>1, <2>1
  <2>2. CASE v # u
    <3>1. accounts'[v] = accounts[v] BY <1>1, <2>2
    <3>2. accounts[v] \in Account BY <1>1, <1>5, <3>1
    <3> QED BY <1>4, <1>5, <3>1, <3>2 DEF Account
  <2> QED BY <2>1, <2>2
<1>6. Ranked' BY <1>1, <1>3, <1>4, <1>5 DEF Ranked, Orphans
<1>7. ~Orphans' BY <1>1, <1>3, <1>4 DEF Orphans
<1>8. Placed' BY <1>1, <1>7, ServingKeepsPlaced
<1>9. Refs' /\ TempColumns' /\ ChosenPlaced'
  BY <1>1 DEF UpgradeInv, Refs, TempColumns, ChosenPlaced, IsChosen, Arrangeable, HasColumn, HasTable
<1>10. Between' BY <1>1 DEF Between, Added, Copying, Dropping
<1> QED BY <1>6, <1>8, <1>9, <1>10 DEF UpgradeInv

\* A workspace of somebody who has an organization is in one.
LEMMA WorkspaceUpgrade ==
  ASSUME UpgradeInv, NEW u \in People, AddWorkspace(u), BootInv'
  PROVE  UpgradeInv'
<1>1. /\ phase = "serving" /\ phase' = phase /\ block' = block /\ stmt' = stmt /\ tables' = tables
      /\ accounts' = accounts /\ accounts[u] # NULL /\ unplaced' = (unplaced \/ ~accounts[u].org)
      /\ stmt = 1 /\ unplaced \in BOOLEAN
  BY DEF AddWorkspace, UpgradeInv, BootInv, TypeOK
<1>2. ~Orphans /\ Ranked BY <1>1, ServedFacts DEF UpgradeInv
<1>3. unplaced' = unplaced BY <1>1, <1>2 DEF Orphans
<1>4. Ranked' BY <1>1, <1>2, <1>3 DEF Ranked
<1>5. Placed' BY <1>1, <1>3, ServingKeepsPlaced
<1>6. Refs' /\ TempColumns' /\ ChosenPlaced'
  BY <1>1 DEF UpgradeInv, Refs, TempColumns, ChosenPlaced, IsChosen, Arrangeable, HasColumn, HasTable
<1>7. Between' BY <1>1 DEF Between, Added, Copying, Dropping
<1> QED BY <1>4, <1>5, <1>6, <1>7 DEF UpgradeInv

LEMMA StepUpgrades ==
  ASSUME UpgradeInv, [Next]_vars
  PROVE  UpgradeInv'
<1>1. BootInv' BY StepKeeps DEF UpgradeInv
<1>2. ASSUME tables' = tables, accounts' = accounts, unplaced' = unplaced, stmt' = 1, Placed' PROVE UpgradeInv'
  <2>1. Refs' /\ TempColumns' /\ ChosenPlaced' /\ Ranked'
    BY <1>2 DEF UpgradeInv, Refs, TempColumns, ChosenPlaced, Ranked, IsChosen, Arrangeable, HasColumn,
                HasTable
  <2>2. Between' BY <1>2 DEF Between, Added, Copying, Dropping
  <2> QED BY <1>1, <1>2, <2>1, <2>2 DEF UpgradeInv
<1>3. CASE Start \/ Kill \/ Fail
  <2>1. tables' = tables /\ accounts' = accounts /\ unplaced' = unplaced /\ block' = 1 /\ stmt' = 1
        /\ phase' \in {"down", "booting", "failed"}
    BY <1>3 DEF Start, Kill, Fail
  <2> QED BY <1>2, <2>1, NothingPassed
<1>4. CASE Skip
  <2>1. tables' = tables /\ accounts' = accounts /\ unplaced' = unplaced /\ stmt' = 1
    BY <1>4 DEF Skip, NextBlock
  <2> QED BY <1>2, <1>4, <2>1, SkipKeepsPlaced
<1>5. CASE Run
  <2>1. Ranked' BY <1>5, RunKeepsRanked
  <2>2. Between' BY <1>5, RunKeepsBetween
  <2> QED BY <1>1, <1>5, <2>1, <2>2, RunKeepsPlaced, RunKeepsRefs, RunKeepsChosen DEF UpgradeInv
<1>6. CASE \E t \in Edited, x \in Rows : Insert(t, x) \/ Delete(t, x) BY <1>1, <1>6, EditUpgrade
<1>7. CASE \E t \in Arranged : Arrange(t) BY <1>1, <1>7, EditUpgrade
<1>8. CASE \E u \in People, r \in Granted : SetRank(u, r) BY <1>1, <1>8, RankUpgrade
<1>9. CASE UNCHANGED vars
  <2>1. /\ tables' = tables /\ accounts' = accounts /\ unplaced' = unplaced
        /\ phase' = phase /\ block' = block /\ stmt' = stmt
    BY <1>9 DEF vars
  <2>2. Refs' /\ TempColumns' /\ ChosenPlaced' /\ Ranked'
    BY <2>1 DEF UpgradeInv, Refs, TempColumns, ChosenPlaced, Ranked, IsChosen, Arrangeable, HasColumn,
                HasTable
  <2>3. Between'
    BY <2>1 DEF UpgradeInv, Between, Added, Copying, Dropping, HasColumn, HasTable, IsChosen
  <2>4. ASSUME NEW c PROVE Established(c)' <=> Established(c)
    BY <2>1 DEF Established, HasTable, HasColumn, Renaming, Orphans
  <2>5. Placed' BY <2>1, <2>4 DEF UpgradeInv, Placed, Passed
  <2> QED BY <1>1, <2>2, <2>3, <2>5 DEF UpgradeInv
<1>10. CASE \E u \in People : AddWorkspace(u) BY <1>1, <1>10, WorkspaceUpgrade
<1> QED BY <1>3, <1>4, <1>5, <1>6, <1>7, <1>8, <1>9, <1>10 DEF Next

\* No statement of a boot replaces a chosen order.
LEMMA RunKeepsOrder ==
  ASSUME UpgradeInv, Run, NEW b, b = Script[block], NEW t \in Current, NEW n \in Names, IsChosen(n),
         n = t \/ (t \in Rebuilt /\ n = Temp(t))
  PROVE  IsChosen(t)' \/ (t \in Rebuilt /\ IsChosen(Temp(t))')
<1>1. t \in Names /\ t \in Base BY BaseNames
<1>2. CASE PlainRun
  <2> DEFINE s == b.do[stmt]
  <2>1. ASSUME s.op = "order", n = s.on PROVE FALSE
    <3>1. b \in GoodBlock /\ stmt \in 1..Len(b.do) BY RunIs
    <3>2. Adding(b)
      <4>1. Late(b) BY <1>2 DEF PlainRun
      <4>2. ~Scoping(b) /\ ~Repairing(b) BY <4>1 DEF Late, Scoping, Repairing, Rebuilt
      <4>3. s.op \in PlainOps BY <1>2 DEF PlainRun
      <4>4. ~Retiring(b)
        <5>1. Retiring(b) => Len(b.do) = 2 /\ b.do[1].op # "order" /\ b.do[2].op # "order"
          BY DEF Retiring, RetireScript, Statement
        <5> QED BY <2>1, <3>1, <5>1
      <4>5. ~(Creating(b) \/ Removing(b) \/ Filling(b))
        <5>1. Creating(b) \/ Removing(b) \/ Filling(b) => Len(b.do) = 1 /\ b.do[1].op # "order"
          BY FirstStatements
        <5> QED BY <2>1, <3>1, <5>1
      <4> QED BY <3>1, <4>2, <4>4, <4>5 DEF GoodBlock
    <3>3. stmt = 2 /\ s.on = b.on
      <4>1. Len(b.do) \in 1..2 /\ b.do[1].op = "add" BY <3>2, FirstStatements
      <4>2. stmt = 2 /\ Len(b.do) = 2 BY <2>1, <3>1, <4>1
      <4>3. b.do[2] = Lists(b.on) BY <3>2, <4>2, FirstStatements
      <4> QED BY <4>2, <4>3 DEF Lists, Statement
    <3>4. b.on \in Base BY <3>2 DEF Adding
    <3>5. n = t BY <2>1, <3>3, <3>4, TempApart
    <3>6. ~IsChosen(b.on) BY <2>1, <3>2, <3>3, <3>5 DEF UpgradeInv, Between, Added
    <3> QED BY <2>1, <3>3, <3>6
  <2> QED BY <1>2, <2>1, PlainKeepsChosen
<1>3. CASE RetireRun
  <2>1. PICK m \in Legacy : \A k \in Names \ {m} : tables'[k] = tables[k] BY <1>3 DEF RetireRun
  <2>2. n # m BY TempApart DEF Current
  <2>3. tables'[n] = tables[n] BY <2>1, <2>2
  <2> QED BY <2>3, ArrangeableSame
<1>4. ASSUME NEW u \in Rebuilt, RebuildRun(u)
      PROVE  IsChosen(t)' \/ (t \in Rebuilt /\ IsChosen(Temp(t))')
  <2>1. CASE tables'[n] = tables[n] BY <2>1, ArrangeableSame
  <2>2. CASE CreateRun(u)
    <3>1. n # Temp(u) BY <2>2 DEF CreateRun, IsChosen, HasTable
    <3> QED BY <2>1, <2>2, <3>1 DEF CreateRun
  <2>3. CASE CopyRun(u)
    <3>1. ~IsChosen(Temp(u)) BY <1>4, <2>3 DEF UpgradeInv, Between, Copying, RebuildRun, CopyRun
    <3>2. n # Temp(u) BY <3>1
    <3> QED BY <2>1, <2>3, <3>2 DEF CopyRun
  <2>4. CASE DropRun(u)
    <3>1. CASE n # u BY <2>1, <2>4, <3>1 DEF DropRun
    <3>2. CASE n = u
      <4>1. n = t BY <3>2, TempApart
      <4>2. IsChosen(Temp(u)) BY <1>4, <2>4, <3>2, <4>1 DEF UpgradeInv, Between, Dropping, RebuildRun, DropRun
      <4>3. tables'[Temp(u)] = tables[Temp(u)] BY <2>4, TempApart DEF DropRun
      <4>4. IsChosen(Temp(u))' BY <4>2, <4>3, ArrangeableSame
      <4> QED BY <3>2, <4>1, <4>4
    <3> QED BY <3>1, <3>2
  <2>5. CASE RenameRun(u)
    <3>1. n # u BY <2>5 DEF RenameRun, IsChosen, HasTable
    <3>2. CASE n = Temp(u)
      <4>1. t = u BY <1>1, <3>2, TempApart
      <4>2. IsChosen(u)' BY <2>5, <3>2 DEF RenameRun, IsChosen, HasTable
      <4> QED BY <4>1, <4>2
    <3>3. CASE n # Temp(u) BY <2>1, <2>5, <3>1, <3>3 DEF RenameRun
    <3> QED BY <3>2, <3>3
  <2> QED BY <1>4, <2>2, <2>3, <2>4, <2>5 DEF RebuildRun
<1> QED BY <1>2, <1>3, <1>4, RunKinds
------------------------------------------------------------------------------

\* Tables, accounts and the position of the boot keep their shape, whatever
\* release the database came from (db/index.js).
THEOREM MigrationTypeCorrect == Spec => []TypeOK
<1>1. BootInv /\ [Next]_vars => BootInv' BY StepKeeps
<1>2. BootInv => TypeOK BY DEF BootInv
<1> QED BY InitInv, <1>1, <1>2, PTL DEF Spec

\* For any number of rows and any earlier releases, no statement of a boot is
\* the end of a row, wherever this boot and the ones before it were killed
\* (rebuildWithWorkspaceScope, the repair and the retirement in db/index.js).
THEOREM RowsAlwaysSurviveBoot == Spec => RowsSurviveBoot
<1>1. BootInv /\ [Next]_vars => BootInv' BY StepKeeps
<1>2. BootInv /\ [Next]_vars =>
        [phase = "booting" => \A t \in Rebuilt : RowsOf(t) \subseteq RowsOf(t)']_vars
  <2> SUFFICES ASSUME BootInv, [Next]_vars, phase = "booting", NEW t \in Rebuilt
               PROVE  RowsOf(t) \subseteq RowsOf(t)'
    OBVIOUS
  <2>1. Kept(t) BY StepKeeps
  <2>2. RowsOf(t) = RowsAt(tables, t) \cup RowsAt(tables, Temp(t)) BY RowsOfBoth
  <2>3. RowsOf(t)' = RowsAt(tables', t) \cup RowsAt(tables', Temp(t))
    BY RowsOfBoth DEF RowsOf, Copies, RowsIn, HasTable, RowsAt
  <2> QED BY <2>1, <2>2, <2>3 DEF Kept
<1> QED BY InitInv, <1>1, <1>2, PTL DEF Spec, RowsSurviveBoot

\* Whatever release the database came from and wherever earlier boots were
\* killed, a server that answers has the tables and columns of schema.sql,
\* references to tables of today and accounts with ranks of today: every guard
\* of db/index.js notices what is half done, for any number of rows and accounts.
THEOREM ServedAlwaysCurrent == Spec => []ServedIsCurrent
<1>1. UpgradeInv /\ [Next]_vars => UpgradeInv' BY StepUpgrades
<1>2. UpgradeInv => ServedIsCurrent
  <2> SUFFICES ASSUME UpgradeInv, phase = "serving" PROVE ServedIsCurrent BY DEF ServedIsCurrent
  <2>1. \A i \in 1..Len(Script) : Established(Script[i]) BY ServedFacts
  <2>2. (\A t : ~Renaming(t)) /\ ~Orphans BY ServedFacts
  <2>3. \A b : Has(Script, b) => Established(b) BY <2>1 DEF Has
  <2>4. ASSUME NEW t \in Current PROVE HasTable(t) /\ ColumnsOf(t, 8) \subseteq tables[t].cols
    <3>1. HasTable(t)
      <4> DEFINE b == Block(0, "always", "projects", NULL, <<Statement("schema", "projects", NULL, NULL)>>)
      <4>1. b.if = "always" BY DEF Block
      <4>2. Established(b) BY <2>3, ScriptFacts
      <4> HIDE DEF b
      <4> QED BY <2>2, <4>1, <4>2 DEF Established
    <3>2. ASSUME NEW c \in ColumnsOf(t, 8) PROVE c \in tables[t].cols
      <4>1. PICK i \in DOMAIN Script : /\ Script[i].on = t /\ Script[i].if = "lacks"
                                       /\ Script[i].col = c
        BY DEF ColumnsOf
      <4>2. Established(Script[i]) BY <2>1, ScriptGood
      <4>3. t \notin Legacy BY DEF Current
      <4> QED BY <2>2, <4>1, <4>2, <4>3 DEF Established, HasColumn
    <3> QED BY <3>1, <3>2
  <2>5. ASSUME NEW j \in Joins, HasTable(j) PROVE tables[j].ref = Home(j)
    <3> DEFINE b == Block(8, "dangling", j, NULL, RebuildScript(j))
    <3>1. b.if = "dangling" /\ b.on = j BY DEF Block
    <3>2. Established(b) BY <2>3, ScriptFacts
    <3> HIDE DEF b
    <3>3. tables[j].ref # OldHome(j) BY <2>5, <3>1, <3>2 DEF Established
    <3> QED BY <2>5, <3>3 DEF UpgradeInv, Refs
  <2>6. ASSUME NEW u \in People, accounts[u] # NULL PROVE accounts[u].org /\ accounts[u].role \in Roles
    BY <2>2, <2>6 DEF UpgradeInv, Ranked, Orphans
  <2> QED BY <2>4, <2>5, <2>6 DEF ServedIsCurrent
<1> QED BY InitUpgrade, <1>1, <1>2, PTL DEF Spec

\* Only a run of a statement changes accounts or tables while a boot is on.
LEMMA BootChanges ==
  ASSUME [Next]_vars, phase = "booting", ~Run
  PROVE  tables' = tables /\ accounts' = accounts
<1>1. ~(\E t \in Edited, x \in Rows : Insert(t, x) \/ Delete(t, x)) BY DEF Insert, Delete
<1>2. ~(\E t \in Arranged : Arrange(t)) BY DEF Arrange
<1>3. ~(\E u \in People, r \in Granted : SetRank(u, r)) BY DEF SetRank
<1>4. ~(\E u \in People : AddWorkspace(u)) BY DEF AddWorkspace
<1> QED BY <1>1, <1>2, <1>3, <1>4 DEF Next, Start, Skip, Fail, Kill, vars

\* A boot leaves the rank of everybody who has an organization alone, however
\* often it is killed and started again (the backfill transaction and its
\* guard in db/index.js).
THEOREM RanksAlwaysTranslatedOnce == Spec => RanksTranslatedOnce
<1>1. UpgradeInv /\ [Next]_vars => UpgradeInv' BY StepUpgrades
<1>2. UpgradeInv /\ [Next]_vars =>
        [ phase = "booting" =>
            \A u \in People :
              accounts[u] # NULL /\ accounts[u].org => accounts'[u] = accounts[u] ]_vars
  <2> SUFFICES ASSUME UpgradeInv, [Next]_vars, phase = "booting", NEW u \in People,
                      accounts[u] # NULL, accounts[u].org
               PROVE  accounts'[u] = accounts[u]
    OBVIOUS
  <2>1. CASE Run BY <2>1, RunKeepsRanked
  <2>2. CASE ~Run BY <2>2, BootChanges
  <2> QED BY <2>1, <2>2
<1> QED BY InitUpgrade, <1>1, <1>2, PTL DEF Spec, RanksTranslatedOnce

LEMMA ChosenIs ==
  ASSUME NEW t
  PROVE  Chosen(t) <=> IsChosen(t) \/ (t \in Rebuilt /\ IsChosen(Temp(t)))
BY DEF Chosen, Copies, IsChosen

\* An order somebody arranged survives every boot: no block rebuilds a table
\* without it or lists its rows anew (AddsOrder and the rebuilds of
\* db/index.js, in the order they have there).
THEOREM ChosenOrderAlwaysSurvives == Spec => ChosenOrderSurvivesBoot
<1>1. UpgradeInv /\ [Next]_vars => UpgradeInv' BY StepUpgrades
<1>2. UpgradeInv /\ [Next]_vars =>
        [phase = "booting" => \A t \in Current : Chosen(t) => Chosen(t)']_vars
  <2> SUFFICES ASSUME UpgradeInv, [Next]_vars, phase = "booting", NEW t \in Current, Chosen(t)
               PROVE  Chosen(t)'
    OBVIOUS
  <2>1. PICK n \in Names : IsChosen(n) /\ (n = t \/ (t \in Rebuilt /\ n = Temp(t)))
    BY ChosenIs, BaseNames, TempApart
  <2>2. IsChosen(t)' \/ (t \in Rebuilt /\ IsChosen(Temp(t))')
    <3>1. CASE Run BY <2>1, <3>1, RunKeepsOrder
    <3>2. CASE ~Run
      <4>1. tables' = tables BY <3>2, BootChanges
      <4> QED BY <2>1, <4>1 DEF IsChosen, HasTable
    <3> QED BY <3>1, <3>2
  <2> QED BY <2>2 DEF Chosen, Copies, IsChosen, HasTable
<1> QED BY InitUpgrade, <1>1, <1>2, PTL DEF Spec, ChosenOrderSurvivesBoot

------------------------------------------------------------------------------
(* What can throw.                                                         *)

\* The tables a rebuild needs are there while it is at work.
Standing ==
  \A t \in Rebuilt : Script[block].do = RebuildScript(t) =>
    /\ stmt \in {2, 3} => HasTable(t) /\ HasTable(Temp(t))
    /\ stmt = 4 => ~HasTable(t) /\ HasTable(Temp(t))

StandingInv == UpgradeInv /\ Standing

\* A block that adds a column or rebuilds is entered only where its table is:
\* it asks, or schema.sql has been run.
LEMMA EntersThere ==
  ASSUME UpgradeInv, phase = "booting", stmt = 1, NEW b, b = Script[block], Applies(b),
         b.if \in {"lacks", "has", "dangling"}
  PROVE  HasTable(b.on)
<1>1. b.if \in {"has", "dangling"} => HasTable(b.on) BY DEF Applies, HasColumn
<1>2. ASSUME b.if = "lacks", b.on \notin Legacy PROVE HasTable(b.on)
  <2>1. block \in 1..Len(Script) BY DEF UpgradeInv, BootInv, TypeOK
  <2>2. 1 \in 1..Len(Script) /\ Script[1].if = "always" BY ScriptFacts DEF Opens
  <2>3. 1 < block
    <3>1. block # 1 BY <1>2, <2>2
    <3> QED BY <2>1, <3>1
  <2>4. Established(Script[1]) BY <2>2, <2>3 DEF UpgradeInv, Placed, Passed
  <2>5. b.on \in Base BY <1>2, <2>1, BlockAt, AsksWhat
  <2>6. b.on \in Current BY <1>2, <2>5 DEF Current
  <2> QED BY <2>2, <2>4, <2>6 DEF Established, Renaming
<1>3. b.if = "lacks" /\ b.on \in Legacy => HasTable(b.on) BY DEF Applies, MayBeGone
<1> QED BY <1>1, <1>2, <1>3

LEMMA RunKeepsStanding ==
  ASSUME StandingInv, Run
  PROVE  Standing'
<1>1. /\ UpgradeInv /\ Standing /\ phase = "booting" /\ (stmt = 1 => Applies(Script[block]))
      /\ stmt \in 1..Len(Script[block].do) /\ Len(Script[block].do) \in Nat
      /\ IF stmt < Len(Script[block].do) THEN stmt' = stmt + 1 /\ phase' = phase /\ block' = block
         ELSE NextBlock
  BY RunIs DEF StandingInv
<1>2. CASE stmt' = 1 BY <1>2 DEF Standing
<1>3. CASE stmt' # 1
  <2>1. stmt' = stmt + 1 /\ block' = block BY <1>1, <1>3 DEF NextBlock
  <2> SUFFICES ASSUME NEW t \in Rebuilt, Script[block].do = RebuildScript(t)
               PROVE  /\ stmt' \in {2, 3} => HasTable(t)' /\ HasTable(Temp(t))'
                      /\ stmt' = 4 => ~HasTable(t)' /\ HasTable(Temp(t))'
    BY <2>1 DEF Standing
  <2>2. RebuildRun(t)
    <3>1. ~PlainRun BY DEF PlainRun, Late
    <3>2. ~RetireRun BY ScriptsDiffer DEF RetireRun, Retiring
    <3>3. PICK u \in Rebuilt : RebuildRun(u) BY <1>1, <3>1, <3>2, RunKinds
    <3>4. u = t BY <3>3, ScriptsDiffer DEF RebuildRun
    <3> QED BY <3>3, <3>4
  <2>3. t \in Names /\ Temp(t) \in Names /\ Temp(t) # t BY TempApart
  <2>4. CASE CreateRun(t)
    <3>1. Script[block].on = t /\ Script[block].if \in {"lacks", "dangling"}
      BY <2>2 DEF RebuildRun, Scoping, Repairing
    <3>2. HasTable(t) BY <1>1, <2>4, <3>1, EntersThere DEF CreateRun
    <3> QED BY <2>1, <2>3, <2>4, <3>2 DEF CreateRun, HasTable
  <2>5. CASE CopyRun(t) BY <2>1, <2>3, <2>5 DEF CopyRun, HasTable
  <2>6. CASE DropRun(t)
    <3>1. HasTable(Temp(t)) BY <1>1, <2>6 DEF Standing, DropRun
    <3> QED BY <2>1, <2>3, <2>6, <3>1 DEF DropRun, HasTable
  <2>7. CASE RenameRun(t) BY <2>1, <2>7 DEF RenameRun
  <2> QED BY <2>2, <2>4, <2>5, <2>6, <2>7 DEF RebuildRun
<1> QED BY <1>2, <1>3

LEMMA StepKeepsStanding ==
  ASSUME StandingInv, [Next]_vars
  PROVE  StandingInv'
<1>1. UpgradeInv' BY StepUpgrades DEF StandingInv
<1>2. CASE Run BY <1>1, <1>2, RunKeepsStanding DEF StandingInv
<1>3. CASE UNCHANGED vars
  <2>1. Standing' BY <1>3 DEF vars, StandingInv, Standing, HasTable
  <2> QED BY <1>1, <2>1 DEF StandingInv
<1>4. ASSUME stmt' = 1 PROVE StandingInv' BY <1>1, <1>4 DEF StandingInv, Standing
<1>5. CASE Start \/ Skip \/ Fail \/ Kill
  BY <1>4, <1>5 DEF Start, Skip, Fail, Kill, NextBlock
<1>6. ASSUME phase = "serving", stmt' = stmt PROVE StandingInv'
  <2>1. stmt = 1 BY <1>6 DEF StandingInv, UpgradeInv, BootInv
  <2> QED BY <1>4, <1>6, <2>1
<1>7. CASE \E t \in Edited, x \in Rows : Insert(t, x) \/ Delete(t, x) BY <1>6, <1>7 DEF Insert, Delete
<1>8. CASE \E t \in Arranged : Arrange(t) BY <1>6, <1>8 DEF Arrange
<1>9. CASE \E u \in People, r \in Granted : SetRank(u, r) BY <1>6, <1>9 DEF SetRank
<1>10. CASE \E u \in People : AddWorkspace(u) BY <1>6, <1>10 DEF AddWorkspace
<1> QED BY <1>2, <1>3, <1>5, <1>7, <1>8, <1>9, <1>10 DEF Next

\* The statement that throws is a CREATE.
LEMMA ThrowsCreate ==
  ASSUME StandingInv, phase = "booting", NEW b, b = Script[block], stmt = 1 => Applies(b),
         NEW s, s = b.do[stmt], Throws(s)
  PROVE  Blocked
<1>1. UpgradeInv /\ Standing BY DEF StandingInv
<1>2. /\ block \in 1..Len(Script) /\ b \in GoodBlock /\ stmt \in 1..Len(b.do)
      /\ Len(b.do) \in Nat
  BY <1>1, BlockAt, BlockShape DEF UpgradeInv, BootInv, TypeOK
<1>3. CASE Adding(b)
  <2>1. Len(b.do) \in 1..2 /\ b.do[1] = AddColumn(b.on, b.col) BY <1>3, FirstStatements
  <2>2. CASE stmt = 1
    <3>1. HasTable(b.on) BY <1>1, <1>3, <2>2, EntersThere DEF Adding
    <3> QED BY <2>1, <2>2, <3>1 DEF Throws, AddColumn, Statement
  <2>3. CASE stmt = 2
    <3>1. b.do[2] = Lists(b.on) BY <1>2, <1>3, <2>1, <2>3, FirstStatements
    <3>2. HasTable(b.on) BY <1>1, <1>3, <2>3 DEF UpgradeInv, Between, Added, HasColumn
    <3> QED BY <2>3, <3>1, <3>2 DEF Throws, Lists, Statement
  <2> QED BY <1>2, <2>1, <2>2, <2>3
<1>4. CASE Creating(b) \/ Filling(b)
  <2>1. s.op \in {"schema", "backfill"} BY <1>2, <1>4, FirstStatements
  <2> QED BY <2>1 DEF Throws
<1>5. CASE Removing(b)
  <2>1. stmt = 1 /\ s = Statement("remove", "users", NULL, "team")
    BY <1>2, <1>5, FirstStatements DEF Removing
  <2>2. b.if = "has" BY <1>5 DEF Removing
  <2>3. HasTable(b.on) BY <1>1, <2>1, <2>2, EntersThere
  <2>4. b.on = "users" BY <1>5 DEF Removing
  <2> QED BY <2>1, <2>3, <2>4 DEF Throws, Statement
<1>6. CASE Retiring(b)
  <2>1. s.op = "dropif" BY <1>2, <1>6 DEF Retiring, RetireScript, Statement
  <2> QED BY <2>1 DEF Throws
<1>7. CASE Scoping(b) \/ Repairing(b)
  <2> DEFINE t == b.on
  <2>1. t \in Rebuilt /\ b.do = RebuildScript(t) /\ b.if \in {"lacks", "dangling"}
    BY <1>7 DEF Scoping, Repairing, Rebuilt
  <2>2. /\ Len(b.do) = 4 /\ b.do[1] = Statement("create", Temp(t), t, NULL)
        /\ b.do[2] = Statement("copy", t, Temp(t), NULL) /\ b.do[3] = Statement("drop", t, NULL, NULL)
        /\ b.do[4] = Statement("rename", Temp(t), t, NULL)
    BY <2>1 DEF RebuildScript
  <2>3. /\ stmt \in {2, 3} => HasTable(t) /\ HasTable(Temp(t))
        /\ stmt = 4 => ~HasTable(t) /\ HasTable(Temp(t))
    BY <1>1, <2>1 DEF Standing
  <2>4. CASE stmt = 1
    <3>1. HasTable(t) BY <1>1, <2>1, <2>4, EntersThere
    <3>2. HasTable(Temp(t)) BY <2>2, <2>4 DEF Throws, Statement
    <3> QED BY <2>1, <3>1, <3>2 DEF Blocked
  <2>5. CASE stmt = 2 BY <2>2, <2>3, <2>5 DEF Throws, Statement
  <2>6. CASE stmt = 3 BY <2>2, <2>3, <2>6 DEF Throws, Statement
  <2>7. CASE stmt = 4 BY <2>2, <2>3, <2>7 DEF Throws, Statement
  <2> QED BY <1>2, <2>2, <2>4, <2>5, <2>6, <2>7
<1> QED BY <1>2, <1>3, <1>4, <1>5, <1>6, <1>7 DEF GoodBlock

\* Whatever release the database came from and however often boots were killed,
\* no statement of a boot throws but the CREATE of a rebuild of which an earlier
\* boot left the new table behind (rebuildWithWorkspaceScope and the repair in
\* db/index.js); every other guard sees to it that its statement can run.
THEOREM OnlyBlockedEverFails == Spec => OnlyBlockedFails
<1>1. Init => StandingInv
  <2>1. Init => Standing BY DEF Init, Standing
  <2> QED BY <2>1, InitUpgrade DEF StandingInv
<1>2. StandingInv /\ [Next]_vars => StandingInv' BY StepKeepsStanding
<1>3. StandingInv /\ [Next]_vars => [phase = "booting" /\ phase' = "failed" => Blocked]_vars
  <2> SUFFICES ASSUME StandingInv, [Next]_vars, phase = "booting", phase' = "failed" PROVE Blocked
    OBVIOUS
  <2>1. Fail
    <3>1. ~(\E t \in Edited, x \in Rows : Insert(t, x) \/ Delete(t, x)) BY DEF Insert, Delete
    <3>2. ~(\E t \in Arranged : Arrange(t)) BY DEF Arrange
    <3>3. ~(\E u \in People, r \in Granted : SetRank(u, r)) BY DEF SetRank
    <3>4. ~(\E u \in People : AddWorkspace(u)) BY DEF AddWorkspace
    <3>5. ~(Start \/ Kill \/ UNCHANGED vars) BY DEF Start, Kill, vars
    <3>6. ~(Skip \/ Run) BY DEF Skip, Run, NextBlock
    <3> QED BY <3>1, <3>2, <3>3, <3>4, <3>5, <3>6 DEF Next
  <2> QED BY <2>1, ThrowsCreate DEF Fail, Entering
<1> QED BY <1>1, <1>2, <1>3, PTL DEF Spec, OnlyBlockedFails
==============================================================================
