------------------------------ MODULE Workspace ------------------------------
(***************************************************************************)
(* A Workspace of documents: its mutation pipeline, what it keeps in       *)
(* memory beside its documents, and its store (liquid-core, workspace.rs,  *)
(* model.rs, order.rs, sort_key.rs, database.rs; liquid-storage).          *)
(*                                                                         *)
(* A document is what Automerge holds: maps of entries by identity, each   *)
(* with its sort key.  Names and titles are numbers; a text is the widths  *)
(* of its characters in UTF-16 units.  Identities, random in the code, are *)
(* numbers never used before.                                              *)
(***************************************************************************)
EXTENDS Integers, Sequences, FiniteSets, TLC

CONSTANTS
  Base,          \* the digits of a sort key
  Heads,         \* the heads `a` to `z` of a sort key, and as many `A` to `Z`
  CompactAfter,  \* COMPACT_AFTER
  MaxFields,     \* MAX_FIELDS and MAX_OPTIONS
  Scenes         \* the writes a Workspace starts from, the kinds made from there, and how many

------------------------------------------------------------------------------
(* The sort keys that order Areas, Pages, Views, fields and rows (sort_key.rs).  A key is its
   head followed by its digits.  The code has 26 heads for integers below zero and 26 for the
   others, and 62 digits; the model has Heads of each and Base digits, in the order of their
   bytes. *)

None == <<>>
Digits == 0..Base - 1
\* `a`: the head of the integers zero and above with one digit.
HeadA == Heads

\* How many digits an integer has after this head.
Width(head) == IF head >= HeadA THEN head - HeadA + 1 ELSE HeadA - head

Zeros(n) == [i \in 1..n |-> 0]
SMALLEST == <<0>> \o Zeros(Heads)

\* The order of two keys as bytes.
Before(a, b) ==
  \/ \E i \in 1..Len(a) : /\ i <= Len(b) /\ a[i] < b[i]
                          /\ \A j \in 1..i - 1 : a[j] = b[j]
  \/ Len(a) < Len(b) /\ \A j \in 1..Len(a) : a[j] = b[j]

From(s, i) == SubSeq(s, i, Len(s))

\* The keys with a whole integer part and a fraction that does not end in `0`.
Valid(key) ==
  /\ Len(key) > 0 /\ Len(key) > Width(key[1])
  /\ key # SMALLEST
  /\ Len(key) > Width(key[1]) + 1 => key[Len(key)] # 0

IntegerPart(key) == SubSeq(key, 1, Width(key[1]) + 1)
Fraction(key) == From(key, Width(key[1]) + 2)

\* The digits with the last that is not `full` moved by `by` and those after it turned over.
Carried(int, full, turned, by) ==
  LET last == CHOOSE i \in 2..Len(int) : int[i] # full /\ \A j \in i + 1..Len(int) : int[j] = full IN
  [i \in 1..Len(int) |-> IF i < last THEN int[i] ELSE IF i = last THEN int[i] + by ELSE turned]

All(int, digit) == \A i \in 2..Len(int) : int[i] = digit

\* None at the largest.
increment(int) ==
  IF ~All(int, Base - 1) THEN Carried(int, Base - 1, 0, 1)
  ELSE IF int[1] = 2 * Heads - 1 THEN None
  ELSE <<int[1] + 1>> \o Zeros(Width(int[1] + 1))

decrement(int) ==
  IF ~All(int, 0) THEN Carried(int, 0, Base - 1, -1)
  ELSE IF int[1] = 0 THEN None
  ELSE <<int[1] - 1>> \o [i \in 1..Width(int[1] - 1) |-> Base - 1]

RECURSIVE midpoint(_, _, _)

\* A fraction between `before` and `after`, which is the end unless `bounded`.
midpoint(before, after, bounded) ==
  LET digit(key, i) == IF i <= Len(key) THEN key[i] ELSE 0
      shared == IF bounded
                THEN CHOOSE n \in 0..Len(after) :
                       /\ \A i \in 1..n : digit(before, i) = after[i]
                       /\ n < Len(after) => digit(before, n + 1) # after[n + 1]
                ELSE 0
      low == digit(before, 1)
      high == IF bounded THEN after[1] ELSE Base IN
  IF shared > 0
  THEN SubSeq(after, 1, shared) \o midpoint(From(before, shared + 1), From(after, shared + 1), TRUE)
  ELSE IF high - low > 1 THEN <<(low + high + 1) \div 2>>
  ELSE IF bounded /\ Len(after) > 1 THEN <<after[1]>>
  ELSE <<low>> \o midpoint(From(before, 2), None, FALSE)

\* Mutant: the integer below may be the smallest, which leaves no room before it.
before_first_bare(after) ==
  LET int == IntegerPart(after) IN
  IF Len(int) < Len(after) THEN int ELSE decrement(int)

\* key_between with no key before.
before_first(after) ==
  LET int == IntegerPart(after)
      smaller == decrement(int) IN
  IF int = SMALLEST THEN int \o midpoint(None, Fraction(after), TRUE)
  ELSE IF Len(int) < Len(after) THEN int
  ELSE IF smaller = SMALLEST THEN SMALLEST \o midpoint(None, None, FALSE)
  ELSE smaller

key_between(before, after) ==
  LET low == IntegerPart(before)
      next == increment(low) IN
  IF before = None THEN IF after = None THEN <<HeadA, 0>> ELSE before_first(after)
  ELSE IF after = None THEN IF next # None THEN next ELSE low \o midpoint(Fraction(before), None, FALSE)
  ELSE IF low = IntegerPart(after) THEN low \o midpoint(Fraction(before), Fraction(after), TRUE)
  ELSE IF next # None /\ Before(next, after) THEN next
  ELSE low \o midpoint(Fraction(before), None, FALSE)

\* A neighbour that is no key, or is not after `before`, is the end.
between(before, after) ==
  LET low == IF Valid(before) THEN before ELSE None
      high == IF Valid(after) /\ (low = None \/ Before(low, after)) THEN after ELSE None IN
  key_between(low, high)

------------------------------------------------------------------------------
VARIABLES
  mem,      \* document -> what memory holds for it
  store,    \* document -> the document its chunks hold, and how many they are
  actions,  \* History: how many Actions the store holds
  next,     \* the next identity
  last,     \* the last write: the mutation, whether it was applied and which resources it named
  scene     \* the writes still to come

vars == <<mem, store, actions, next, last, scene>>

WS == <<"workspace", 0>>
Area(a) == <<"area", a>>
Page(p) == <<"page", p>>
Empty == [x \in {} |-> 0]

\* Place, in the rows and fields, and Option<ViewId>: an identity to go after, or these.
First == 0
Last == -1
\* An identity nothing has.
Unknown == 99

------------------------------------------------------------------------------
(* Entries and their order. *)

Live(entries) == {id \in DOMAIN entries : entries[id].live}

\* model::sorted and sorted_in: the live entries by sort key.
Sorted(entries) ==
  [i \in 1..Cardinality(Live(entries)) |->
     CHOOSE id \in Live(entries) :
       Cardinality({o \in Live(entries) : Before(entries[o].sort, entries[id].sort)}) = i - 1]

\* What is placed in order: its sort key and identity with what else it is.
Placed(id, entry) == [id |-> id, sort |-> entry.sort]

Position(placed, id) == {i \in DOMAIN placed : placed[i].id = id}

\* Mutant: a first entry is placed without looking at the one it goes before.
SortAt_append(placed, place) ==
  LET i == IF place = First THEN Len(placed)
           ELSE IF place = Last THEN Len(placed)
           ELSE CHOOSE j \in Position(placed, place) : TRUE
      key(j) == IF j \in DOMAIN placed THEN placed[j].sort ELSE None IN
  between(key(i), key(i + 1))

\* model::sort_at, Order::key_after and Index::key_at: the key at a place, which must be there.
SortAt(placed, place) ==
  LET i == IF place = First THEN 0
           ELSE IF place = Last THEN Len(placed)
           ELSE CHOOSE j \in Position(placed, place) : TRUE
      key(j) == IF j \in DOMAIN placed THEN placed[j].sort ELSE None IN
  between(key(i), key(i + 1))

PlaceKnown(placed, place) == place \in {First, Last} \/ Position(placed, place) # {}

\* Order::insert and Index::insert, at the partition point.
Inserted(placed, new) ==
  LET i == Cardinality({j \in DOMAIN placed : Before(placed[j].sort, new.sort)}) IN
  SubSeq(placed, 1, i) \o <<new>> \o From(placed, i + 1)

Removed(placed, id) == SelectSeq(placed, LAMBDA x : x.id # id)

Keys(entries) == [i \in DOMAIN Sorted(entries) |-> Placed(Sorted(entries)[i], entries[Sorted(entries)[i]])]

------------------------------------------------------------------------------
(* What is kept beside a Page document. *)

\* Order::read: the live Views of live Blocks.
OrderRead(doc) ==
  LET shown == SelectSeq(Sorted(doc.views), LAMBDA v : doc.views[v].block \in Live(doc.blocks)) IN
  [i \in DOMAIN shown |->
     LET v == doc.views[shown[i]] IN
     [id |-> shown[i], sort |-> v.sort, block |-> v.block, boundary |-> v.boundary,
      kind |-> doc.blocks[v.block].kind]]

\* A value of each kind; a Select cell holds an option.
KindOf(cell) == cell[1]

\* database::cells: the values of live fields that have their field's kind.
CellsRead(database, row) ==
  LET kept == {f \in DOMAIN row.cells \cap Live(database.fields) :
                 KindOf(row.cells[f]) = database.fields[f].kind} IN
  [f \in kept |-> row.cells[f]]

\* Index::read.
IndexRead(database) ==
  LET sorted == Sorted(database.rows) IN
  [i \in DOMAIN sorted |-> [id |-> sorted[i], sort |-> database.rows[sorted[i]].sort,
                            cells |-> CellsRead(database, database.rows[sorted[i]])]]

\* database::rows without a filter or sort, and shown: the cells of live fields.
RowsShown(database, index) ==
  [i \in DOMAIN index |->
     [id |-> index[i].id,
      cells |-> [f \in DOMAIN index[i].cells \cap Live(database.fields) |-> index[i].cells[f]]]]

\* Index::set.
IndexSet(index, row, field, cell) ==
  [i \in DOMAIN index |->
     IF index[i].id # row THEN index[i]
     ELSE [index[i] EXCEPT !.cells = IF KindOf(cell) = "empty" THEN [f \in DOMAIN @ \ {field} |-> @[f]]
                                     ELSE (field :> cell) @@ @]]

\* Loaded, before its View order or row indexes are read.
Loaded(doc, chunks) ==
  [doc |-> doc, chunks |-> chunks, order |-> [read |-> FALSE, placed |-> <<>>], databases |-> Empty]

\* Workspace::doc: what memory holds, or the store.
Held(d) == IF d \in DOMAIN mem THEN mem[d] ELSE Loaded(store[d].doc, store[d].chunks)

\* Workspace::page: with its View order.
WithOrder(d) ==
  LET held == Held(d) IN
  IF held.order.read THEN held
  ELSE [held EXCEPT !.order = [read |-> TRUE, placed |-> OrderRead(held.doc)]]

\* database::entry.
IsDatabase(doc, b) == b \in Live(doc.blocks) /\ doc.blocks[b].kind = "database"

\* Workspace::database_index: with the row index of one Database Block.
WithIndex(d, b) ==
  LET held == Held(d) IN
  IF b \in DOMAIN held.databases THEN held
  ELSE [held EXCEPT !.databases = (b :> IndexRead(held.doc.blocks[b])) @@ @]

------------------------------------------------------------------------------
(* What a mutation writes before it is committed: whether it is refused, the documents it loaded
   or wrote, those it makes, and the resources it names as changed. *)

Areas == <<"areas", 0, 0>>
Pages(a) == <<"pages", a, 0>>
Views(p) == <<"views", p, 0>>
Block(p, b) == <<"block", p, b>>

Written(docs, new, changed) ==
  [ok |-> TRUE, docs |-> docs, touched |-> DOMAIN docs, new |-> new, changed |-> changed]
Refused(docs) == [ok |-> FALSE, docs |-> docs, touched |-> {}, new |-> {}, changed |-> {}]
Outcome(done, d, changed) ==
  IF done.ok THEN Written(d :> done.held, {}, changed) ELSE Refused(d :> done.held)

CreateArea(m) ==
  LET workspace == Held(WS)
      area == [sort |-> SortAt(Keys(workspace.doc), Last), live |-> TRUE, name |-> m.name] IN
  Written((WS :> [workspace EXCEPT !.doc = (next :> area) @@ @]) @@ (Area(next) :> Loaded(Empty, 0)),
          {Area(next)}, {Areas})

\* Among the Pages with the same parent, which is live.
CreatePage(m) ==
  LET d == Area(m.area)
      area == Held(d)
      siblings == [p \in {q \in DOMAIN area.doc : area.doc[q].parent = m.parent} |-> area.doc[p]]
      page == [sort |-> SortAt(Keys(siblings), Last), live |-> TRUE, title |-> m.name, parent |-> m.parent] IN
  IF m.parent # 0 /\ m.parent \notin Live(area.doc) THEN Refused(d :> area)
  ELSE Written((d :> [area EXCEPT !.doc = (next :> page) @@ @])
                 @@ (Page(next) :> Loaded([views |-> Empty, blocks |-> Empty], 0)),
               {Page(next)}, {Pages(m.area)})

\* In the first Area, in Explorer order, that lists the Page; those before are loaded too.
RenamePage(m) ==
  LET areas == Sorted(Held(WS).doc)
      found == {i \in DOMAIN areas : m.page \in Live(Held(Area(areas[i])).doc)}
      at == IF found = {} THEN Len(areas) ELSE CHOOSE i \in found : \A j \in found : i <= j
      searched == [d \in {WS} \cup {Area(areas[i]) : i \in 1..at} |-> Held(d)] IN
  IF found = {} THEN Refused(searched)
  ELSE [Written([searched EXCEPT ![Area(areas[at])].doc[m.page].title = m.name], {}, {Pages(areas[at])})
          EXCEPT !.touched = {Area(areas[at])}]

------------------------------------------------------------------------------
(* Text Blocks and Views. *)

Styles == {"paragraph", "heading"}

\* A View with its sort key, in the document and in the order.
WithView(held, sort, block, kind, view) ==
  [held EXCEPT
     !.doc.views = (view :> [sort |-> sort, live |-> TRUE, block |-> block, boundary |-> FALSE]) @@ @,
     !.order.placed = Inserted(@, [id |-> view, sort |-> sort, block |-> block, boundary |-> FALSE,
                                   kind |-> kind])]

\* add_view, at a View of the order or first.
add_view(held, after, block, kind, view) ==
  IF ~PlaceKnown(held.order.placed, after) THEN [ok |-> FALSE, held |-> held]
  ELSE [ok |-> TRUE, held |-> WithView(held, SortAt(held.order.placed, after), block, kind, view)]

\* add_text_block: a heading of a level there is none of is refused first.
add_text_block(held, after, text, style) ==
  LET block == [kind |-> "text", live |-> TRUE, style |-> style, text |-> text] IN
  IF style \notin Styles THEN [ok |-> FALSE, held |-> held]
  ELSE add_view([held EXCEPT !.doc.blocks = (next :> block) @@ @], after, next, "text", next + 1)

SetBoundary(held, view, boundary) ==
  [held EXCEPT !.doc.views[view].boundary = boundary,
               !.order.placed = [i \in DOMAIN @ |-> IF @[i].id = view THEN [@[i] EXCEPT !.boundary = boundary]
                                                    ELSE @[i]]]

IsText(doc, b) == b \in Live(doc.blocks) /\ doc.blocks[b].kind = "text"

RECURSIVE Units(_)

\* The UTF-16 units of a text.
Units(text) == IF text = <<>> THEN 0 ELSE text[1] + Units(Tail(text))

\* model::on_boundary: the number of characters before the offset, if it is between two.
CharactersAt(text, at) == {n \in 0..Len(text) : Units(SubSeq(text, 1, n)) = at}

AddTextBlock(m) ==
  Outcome(add_text_block(WithOrder(Page(m.page)), m.place, m.text, "paragraph"), Page(m.page), {Views(m.page)})

\* At the start an empty Text Block goes above and takes over the Section that starts here;
\* elsewhere what follows moves to a new Text Block below.
SplitAt(m, held, i, text) ==
  LET placed == held.order.placed
      n == CHOOSE n \in CharactersAt(text, m.at) : TRUE
      after == IF m.at # 0 THEN m.view ELSE IF i = 1 THEN First ELSE placed[i - 1].id
      kept == IF m.at # 0 THEN [held EXCEPT !.doc.blocks[m.block].text = SubSeq(@, 1, n)] ELSE held
      added == add_text_block(kept, after, IF m.at # 0 THEN From(text, n + 1) ELSE <<>>, m.style) IN
  IF m.at = 0 /\ added.ok /\ placed[i].boundary
  THEN [added EXCEPT !.held = SetBoundary(SetBoundary(@, m.view, FALSE), next + 1, TRUE)]
  ELSE added

SplitTextBlock(m) ==
  LET d == Page(m.page)
      held == WithOrder(d)
      i == Position(held.order.placed, m.view)
      at == CHOOSE j \in i : TRUE
      text == held.doc.blocks[m.block].text IN
  IF \/ i = {} \/ held.order.placed[at].block # m.block \/ ~IsText(held.doc, m.block)
     \/ CharactersAt(text, m.at) = {}
  THEN Refused(d :> held)
  ELSE Outcome(SplitAt(m, held, at, text), d, {Views(m.page), Block(m.page, m.block)})

WithoutView(held, view) ==
  [held EXCEPT !.doc.views[view].live = FALSE, !.order.placed = Removed(@, view)]

\* Order::shows: another View than this one shows the Block.
Shows(held, block, view) ==
  \E i \in DOMAIN held.order.placed : held.order.placed[i].block = block /\ held.order.placed[i].id # view

\* A Block that no other View shows goes too, and has changed.
WithoutBlock(held, view, block) ==
  IF Shows(held, block, view) THEN held ELSE [held EXCEPT !.doc.blocks[block].live = FALSE]

Gone(held, page, view, block) == IF Shows(held, block, view) THEN {} ELSE {Block(page, block)}

\* Into the Text Block above, unless a Section starts here.
JoinTextBlock(m) ==
  LET d == Page(m.page)
      held == WithOrder(d)
      placed == held.order.placed
      i == CHOOSE j \in Position(placed, m.view) : TRUE
      block == placed[i].block
      above == placed[i - 1].block IN
  IF \/ Position(placed, m.view) = {} \/ placed[i].boundary \/ i = 1
     \/ ~IsText(held.doc, block) \/ ~IsText(held.doc, above)
  THEN Refused(d :> held)
  ELSE Written(d :> WithoutView(WithoutBlock([held EXCEPT !.doc.blocks[above].text = @ \o held.doc.blocks[block].text],
                                             m.view, block), m.view),
               {}, {Views(m.page), Block(m.page, above)} \cup Gone(held, m.page, m.view, block))

SetTextStyle(m) ==
  LET d == Page(m.page)
      held == WithOrder(d) IN
  IF m.style \notin Styles THEN Refused(Empty)
  ELSE IF ~IsText(held.doc, m.block) THEN Refused(d :> held)
  ELSE Written(d :> [held EXCEPT !.doc.blocks[m.block].style = m.style], {}, {Block(m.page, m.block)})

SetSectionBoundary(m) ==
  LET d == Page(m.page)
      held == WithOrder(d) IN
  IF m.view \notin Live(held.doc.views) THEN Refused(d :> held)
  ELSE Written(d :> SetBoundary(held, m.view, m.boundary), {}, {Views(m.page)})

EditText(m) ==
  LET d == Page(m.page)
      held == Held(d)
      text == held.doc.blocks[m.block].text
      from == CharactersAt(text, m.at)
      to == CharactersAt(text, m.at + m.delete)
      edited == SubSeq(text, 1, CHOOSE n \in from : TRUE) \o m.text \o From(text, (CHOOSE n \in to : TRUE) + 1) IN
  IF ~IsText(held.doc, m.block) \/ from = {} \/ to = {} THEN Refused(d :> held)
  ELSE Written(d :> [held EXCEPT !.doc.blocks[m.block].text = edited], {}, {Block(m.page, m.block)})

\* Mutant: a removed View's Block is not named.
RemoveView_viewsOnly(m) ==
  LET d == Page(m.page)
      held == WithOrder(d)
      block == held.doc.views[m.view].block IN
  IF m.view \notin Live(held.doc.views) THEN Refused(d :> held)
  ELSE Written(d :> WithoutView(WithoutBlock(held, m.view, block), m.view), {}, {Views(m.page)})

RemoveView(m) ==
  LET d == Page(m.page)
      held == WithOrder(d)
      block == held.doc.views[m.view].block IN
  IF m.view \notin Live(held.doc.views) THEN Refused(d :> held)
  ELSE Written(d :> WithoutView(WithoutBlock(held, m.view, block), m.view),
               {}, {Views(m.page)} \cup Gone(held, m.page, m.view, block))

------------------------------------------------------------------------------
(* Database Blocks: every write changes only its Block. *)

AddDatabaseBlock(m) ==
  LET held == WithOrder(Page(m.page))
      name == [sort |-> between(None, None), live |-> TRUE, kind |-> "text", name |-> 0, options |-> Empty]
      database == [kind |-> "database", live |-> TRUE, name |-> m.name,
                   fields |-> ((next + 2) :> name), rows |-> Empty] IN
  Outcome(add_view([held EXCEPT !.doc.blocks = (next :> database) @@ @], m.place, next, "database", next + 1),
          Page(m.page), {Views(m.page)})

\* A write to the Database Block's entry, made where `possible`.
OnDatabase(m, held, possible, database) ==
  IF ~possible THEN Refused(Page(m.page) :> held)
  ELSE Written(Page(m.page) :> [held EXCEPT !.doc.blocks[m.block] = database], {}, {Block(m.page, m.block)})

RenameDatabase(m) ==
  LET held == Held(Page(m.page)) IN
  OnDatabase(m, held, IsDatabase(held.doc, m.block), [held.doc.blocks[m.block] EXCEPT !.name = m.name])

AddField(m) ==
  LET held == Held(Page(m.page))
      database == held.doc.blocks[m.block]
      siblings == Keys(database.fields)
      field == [sort |-> SortAt(siblings, m.place), live |-> TRUE, kind |-> m.fieldKind, name |-> m.name,
                options |-> Empty] IN
  OnDatabase(m, held,
             IsDatabase(held.doc, m.block) /\ Len(siblings) < MaxFields /\ PlaceKnown(siblings, m.place),
             [database EXCEPT !.fields = (next :> field) @@ @])

\* database::field.
HasField(doc, m) == IsDatabase(doc, m.block) /\ m.field \in Live(doc.blocks[m.block].fields)

RenameField(m) ==
  LET held == Held(Page(m.page)) IN
  OnDatabase(m, held, HasField(held.doc, m), [held.doc.blocks[m.block] EXCEPT !.fields[m.field].name = m.name])

RemoveField(m) ==
  LET held == Held(Page(m.page)) IN
  OnDatabase(m, held, HasField(held.doc, m), [held.doc.blocks[m.block] EXCEPT !.fields[m.field].live = FALSE])

AddOption(m) ==
  LET held == Held(Page(m.page))
      database == held.doc.blocks[m.block]
      options == database.fields[m.field].options
      option == [sort |-> SortAt(Keys(options), Last), live |-> TRUE, name |-> m.name] IN
  OnDatabase(m, held,
             /\ HasField(held.doc, m) /\ database.fields[m.field].kind = "select"
             /\ Len(Keys(options)) < MaxFields,
             [database EXCEPT !.fields[m.field].options = (next :> option) @@ @])

\* Workspace::database_index, where the Block is a Database or its rows are already held.
Indexed(m) ==
  LET held == Held(Page(m.page)) IN
  IF IsDatabase(held.doc, m.block) THEN WithIndex(Page(m.page), m.block) ELSE held

AddRow(m) ==
  LET held == Indexed(m)
      index == held.databases[m.block]
      row == [sort |-> SortAt(index, m.place), live |-> TRUE, cells |-> Empty]
      indexed == [id |-> next, sort |-> row.sort, cells |-> Empty] IN
  IF ~IsDatabase(held.doc, m.block) \/ ~PlaceKnown(index, m.place) THEN Refused(Page(m.page) :> held)
  ELSE OnDatabase(m, [held EXCEPT !.databases[m.block] = Inserted(@, indexed)], TRUE,
                  [held.doc.blocks[m.block] EXCEPT !.rows = (next :> row) @@ @])

\* database::row.
HasRow(doc, m) == IsDatabase(doc, m.block) /\ m.row \in Live(doc.blocks[m.block].rows)

RemoveRow(m) ==
  LET held == Indexed(m) IN
  IF ~HasRow(held.doc, m) THEN Refused(Page(m.page) :> held)
  ELSE OnDatabase(m, [held EXCEPT !.databases[m.block] = Removed(@, m.row)], TRUE,
                  [held.doc.blocks[m.block] EXCEPT !.rows[m.row].live = FALSE])

\* The value has the field's kind, a Select's is one of its options; an empty one takes the cell away.
SetCell(m) ==
  LET held == Indexed(m)
      database == held.doc.blocks[m.block]
      field == database.fields[m.field]
      fits == \/ KindOf(m.cell) = "empty"
              \/ KindOf(m.cell) = field.kind /\ (field.kind = "select" => m.cell[2] \in Live(field.options)) IN
  IF ~HasField(held.doc, m) \/ ~HasRow(held.doc, m) \/ ~fits THEN Refused(Page(m.page) :> held)
  ELSE OnDatabase(m, [held EXCEPT !.databases[m.block] = IndexSet(@, m.row, m.field, m.cell)], TRUE,
                  [database EXCEPT !.rows[m.row].cells =
                     IF KindOf(m.cell) = "empty" THEN [f \in DOMAIN @ \ {m.field} |-> @[f]]
                     ELSE (m.field :> m.cell) @@ @])

------------------------------------------------------------------------------
(* The pipeline. *)

\* Workspace::write: the document a mutation names is loaded first, if there is one.
Write(m) ==
  IF m.kind = "CreatePage" /\ Area(m.area) \notin DOMAIN store THEN Refused(Empty)
  ELSE IF m.kind \notin {"CreateArea", "CreatePage", "RenamePage"} /\ Page(m.page) \notin DOMAIN store
  THEN Refused(Empty)
  ELSE CASE m.kind = "CreateArea" -> CreateArea(m)
         [] m.kind = "CreatePage" -> CreatePage(m)
         [] m.kind = "RenamePage" -> RenamePage(m)
         [] m.kind = "AddTextBlock" -> AddTextBlock(m)
         [] m.kind = "SplitTextBlock" -> SplitTextBlock(m)
         [] m.kind = "JoinTextBlock" -> JoinTextBlock(m)
         [] m.kind = "SetTextStyle" -> SetTextStyle(m)
         [] m.kind = "SetSectionBoundary" -> SetSectionBoundary(m)
         [] m.kind = "EditText" -> EditText(m)
         [] m.kind = "RemoveView" -> RemoveView(m)
         [] m.kind = "AddDatabaseBlock" -> AddDatabaseBlock(m)
         [] m.kind = "RenameDatabase" -> RenameDatabase(m)
         [] m.kind = "AddField" -> AddField(m)
         [] m.kind = "RenameField" -> RenameField(m)
         [] m.kind = "RemoveField" -> RemoveField(m)
         [] m.kind = "AddOption" -> AddOption(m)
         [] m.kind = "AddRow" -> AddRow(m)
         [] m.kind = "RemoveRow" -> RemoveRow(m)
         [] m.kind = "SetCell" -> SetCell(m)

\* Mutant: a refused mutation's writes stay in the document.
rollback_kept(docs) == docs

\* Workspace::rollback: what is kept beside the documents is not rolled back.
rollback(docs) == [d \in DOMAIN docs |-> [docs[d] EXCEPT !.doc = Held(d).doc]]

\* AutoCommit::pending_ops: writing the value already there is none.
Pending(m, w) ==
  w.new \cup {d \in w.touched \ w.new :
               \/ w.docs[d].doc # Held(d).doc
               \/ m.kind = "EditText" /\ (m.delete > 0 \/ m.text # <<>>)}

\* The document's new change, after its stored chunks; one that builds on a change the store does
\* not hold would not load.
Appended(w, d) ==
  [doc |-> IF d \in w.new \/ store[d].doc = Held(d).doc THEN w.docs[d].doc ELSE store[d].doc,
   chunks |-> 1 + IF d \in w.new THEN 0 ELSE store[d].chunks]

Replaced(w, d) == [doc |-> w.docs[d].doc, chunks |-> 1]

Compacts(w, d) == w.docs[d].chunks >= CompactAfter

\* Mutant: after a failed commit the documents stay in memory.
Dropped_kept(w) == w.docs @@ mem

\* The touched documents leave memory, to load again as the store holds them.
Dropped(w) ==
  LET all == w.docs @@ mem IN
  [d \in DOMAIN all \ w.touched |-> all[d]]

\* Workspace::record: every document and the Action, or nothing.
record(m, w) ==
  LET committed == Pending(m, w) IN
  \/ /\ store' = [d \in committed |-> IF Compacts(w, d) THEN Replaced(w, d) ELSE Appended(w, d)] @@ store
     /\ mem' = [d \in DOMAIN w.docs |->
                  IF d \notin committed THEN w.docs[d]
                  ELSE [w.docs[d] EXCEPT !.chunks = IF Compacts(w, d) THEN 1 ELSE @ + 1]] @@ mem
     /\ actions' = actions + 1
     /\ next' = next + 3
     /\ last' = [m |-> m, ok |-> TRUE, changed |-> w.changed]
  \/ /\ scene.faults /\ scene.script = <<>>
     /\ mem' = Dropped(w)
     /\ last' = [m |-> m, ok |-> FALSE, changed |-> {}]
     /\ UNCHANGED <<store, actions, next>>

\* A refused write is rolled back, one that changes nothing is refused too, and any other is
\* recorded.
Conclude(m, w) ==
  \/ /\ ~w.ok
     /\ mem' = rollback(w.docs) @@ mem
     /\ last' = [m |-> m, ok |-> FALSE, changed |-> {}]
     /\ UNCHANGED <<store, actions, next>>
  \/ /\ w.ok /\ Pending(m, w) = {}
     /\ mem' = w.docs @@ mem
     /\ last' = [m |-> m, ok |-> FALSE, changed |-> {}]
     /\ UNCHANGED <<store, actions, next>>
  \/ /\ w.ok /\ Pending(m, w) # {}
     /\ record(m, w)

\* Workspace::apply, by the owner.
apply(m) == Conclude(m, Write(m))

\* Workspace::permit: another actor is refused before anything is read.
NotAllowed(m) ==
  /\ last' = [m |-> m, ok |-> FALSE, changed |-> {}]
  /\ UNCHANGED <<mem, store, actions, next>>

------------------------------------------------------------------------------
(* The requests. *)

AreaIds == {d[2] : d \in {e \in DOMAIN store : e[1] = "area"}} \cup {Unknown}
PageIds == {d[2] : d \in {e \in DOMAIN store : e[1] = "page"}} \cup {Unknown}
Stored(p) == IF p = Unknown THEN [views |-> Empty, blocks |-> Empty] ELSE store[Page(p)].doc
ViewIds(p) == DOMAIN Stored(p).views \cup {Unknown}
BlockIds(p, kind) == {b \in DOMAIN Stored(p).blocks : Stored(p).blocks[b].kind = kind} \cup {Unknown}
FieldIds(p, b) == IF b = Unknown THEN {} ELSE DOMAIN Stored(p).blocks[b].fields
RowIds(p, b) == IF b = Unknown THEN {} ELSE DOMAIN Stored(p).blocks[b].rows
OptionIds(p, b) == UNION {DOMAIN Stored(p).blocks[b].fields[f].options : f \in FieldIds(p, b)}

\* Mutation, for a Page's structure and texts.
TextMutations(k, p) ==
  CASE k = "AddTextBlock" -> [kind : {k}, page : {p}, place : ViewIds(p) \cup {First}, text : {<<1, 2>>}]
    [] k = "SplitTextBlock" ->
         UNION {[kind : {k}, page : {p}, block : {b}, view : ViewIds(p), at : 0..3,
                 style : Styles \cup {"level7"}] : b \in BlockIds(p, "text")}
    [] k \in {"JoinTextBlock", "RemoveView"} -> [kind : {k}, page : {p}, view : ViewIds(p)]
    [] k = "SetTextStyle" -> [kind : {k}, page : {p}, block : BlockIds(p, "text"), style : Styles \cup {"level7"}]
    [] k = "SetSectionBoundary" -> [kind : {k}, page : {p}, view : ViewIds(p), boundary : BOOLEAN]
    [] k = "EditText" -> [kind : {k}, page : {p}, block : BlockIds(p, "text"), at : 0..3, delete : 0..1,
                          text : {<<>>, <<2>>}]
    [] OTHER -> {}

\* Mutation, for Database Blocks.
DatabaseMutations(k, p) ==
  UNION {
    CASE k = "RenameDatabase" -> [kind : {k}, page : {p}, block : {b}, name : {1}]
      [] k = "AddField" -> [kind : {k}, page : {p}, block : {b}, place : FieldIds(p, b) \cup {First, Last},
                            name : {1}, fieldKind : {"text", "select"}]
      [] k = "RenameField" -> [kind : {k}, page : {p}, block : {b}, field : FieldIds(p, b), name : {1}]
      [] k = "RemoveField" -> [kind : {k}, page : {p}, block : {b}, field : FieldIds(p, b)]
      [] k = "AddOption" -> [kind : {k}, page : {p}, block : {b}, field : FieldIds(p, b), name : {1}]
      [] k = "AddRow" -> [kind : {k}, page : {p}, block : {b}, place : RowIds(p, b) \cup {First, Last}]
      [] k = "RemoveRow" -> [kind : {k}, page : {p}, block : {b}, row : RowIds(p, b)]
      [] k = "SetCell" -> [kind : {k}, page : {p}, block : {b}, row : RowIds(p, b), field : FieldIds(p, b),
                           cell : {<<"empty", 0>>, <<"text", 1>>} \cup {<<"select", o>> : o \in OptionIds(p, b)}]
      [] OTHER -> {}
    : b \in BlockIds(p, "database")}

Mutations(k) ==
  CASE k = "CreateArea" -> [kind : {k}, name : {1}]
    [] k = "CreatePage" -> [kind : {k}, area : AreaIds, parent : {0} \cup PageIds, name : {1}]
    [] k = "RenamePage" -> [kind : {k}, page : PageIds, name : {1}]
    [] k = "AddDatabaseBlock" ->
         UNION {[kind : {k}, page : {p}, place : ViewIds(p) \cup {First}, name : {1}] : p \in PageIds}
    [] OTHER -> UNION {TextMutations(k, p) \cup DatabaseMutations(k, p) : p \in PageIds}

Init ==
  /\ mem = (WS :> Loaded(Empty, 1))
  /\ store = (WS :> [doc |-> Empty, chunks |-> 1])
  /\ actions = 1 /\ next = 1
  /\ last = [m |-> [kind |-> "none"], ok |-> FALSE, changed |-> {}]
  /\ scene \in Scenes

\* The scene's own writes, then any of its kinds.
Apply ==
  IF scene.script # <<>>
  THEN /\ apply(Head(scene.script))
       /\ scene' = [scene EXCEPT !.script = Tail(@)]
  ELSE /\ scene.calls > 0
       /\ scene' = [scene EXCEPT !.calls = @ - 1]
       /\ \E k \in scene.kinds : \E m \in Mutations(k) : apply(m) \/ NotAllowed(m)

\* A query loads its document, and the View order or the rows it reads.
Query ==
  /\ scene.script = <<>>
  /\ \E d \in DOMAIN store :
       /\ \/ mem' = (d :> Held(d)) @@ mem
          \/ d[1] = "page" /\ mem' = (d :> WithOrder(d)) @@ mem
          \/ /\ d[1] = "page"
             /\ \E b \in {b \in DOMAIN Held(d).doc.blocks : IsDatabase(Held(d).doc, b)} :
                  mem' = (d :> WithIndex(d, b)) @@ mem
  /\ UNCHANGED <<store, actions, next, last, scene>>

\* Workspace::close_page.
ClosePage ==
  /\ scene.script = <<>>
  /\ \E p \in PageIds : Page(p) \in DOMAIN mem /\ mem' = [d \in DOMAIN mem \ {Page(p)} |-> mem[d]]
  /\ UNCHANGED <<store, actions, next, last, scene>>

\* The process ends at any point and Workspace::open reads the Workspace document.
Reopen ==
  /\ scene.script = <<>> /\ DOMAIN mem # {WS}
  /\ mem' = (WS :> Loaded(store[WS].doc, store[WS].chunks))
  /\ UNCHANGED <<store, actions, next, last, scene>>

Next == Apply \/ Query \/ ClosePage \/ Reopen

Spec == Init /\ [][Next]_vars

------------------------------------------------------------------------------
\* model::pages: each Page followed by its descendants.
RECURSIVE Tree(_, _)
Tree(area, parent) ==
  LET children == Sorted([p \in {q \in DOMAIN area : area[q].parent = parent} |-> area[p]])
      RECURSIVE from(_)
      from(i) == IF i > Len(children) THEN <<>>
                 ELSE <<[id |-> children[i], parent |-> parent, title |-> area[children[i]].title]>>
                        \o Tree(area, children[i]) \o from(i + 1) IN
  from(1)

BlockAnswer(doc, b) ==
  IF b \notin Live(doc.blocks) THEN <<"none">>
  ELSE IF doc.blocks[b].kind = "text" THEN <<"text", doc.blocks[b].text, doc.blocks[b].style>>
  ELSE LET database == doc.blocks[b] IN
       <<"database", database.name, [f \in Live(database.fields) |-> database.fields[f]],
         RowsShown(database, IndexRead(database))>>

\* What a query of the stored documents answers, by resource.
Answers(docs) ==
  LET areas == [d \in {Areas} |-> [i \in DOMAIN Sorted(docs[WS].doc) |->
                                     <<Sorted(docs[WS].doc)[i], docs[WS].doc[Sorted(docs[WS].doc)[i]].name>>]]
      pages == [r \in {Pages(d[2]) : d \in {e \in DOMAIN docs : e[1] = "area"}} |->
                  Tree(docs[Area(r[2])].doc, 0)]
      views == [r \in {Views(d[2]) : d \in {e \in DOMAIN docs : e[1] = "page"}} |->
                  LET order == OrderRead(docs[Page(r[2])].doc) IN
                  [i \in DOMAIN order |-> <<order[i].id, order[i].block, order[i].boundary, order[i].kind>>]]
      blocks == [r \in UNION {{Block(d[2], b) : b \in DOMAIN docs[d].doc.blocks} :
                                d \in {e \in DOMAIN docs : e[1] = "page"}} |->
                   BlockAnswer(docs[Page(r[2])].doc, r[3])] IN
  areas @@ pages @@ views @@ blocks

\* What memory holds is what the store holds, and what it keeps beside a document is what the
\* document says: no refused or failed write, and no write to a Block since removed, leaves a View
\* order or a row index that differs, so a query never shows what is not stored.
MemoryTruthful ==
  \A d \in DOMAIN mem :
    /\ d \in DOMAIN store /\ mem[d].doc = store[d].doc /\ mem[d].chunks = store[d].chunks
    /\ mem[d].order.read => mem[d].order.placed = OrderRead(mem[d].doc)
    /\ \A b \in DOMAIN mem[d].databases :
         IsDatabase(mem[d].doc, b) =>
           RowsShown(mem[d].doc.blocks[b], mem[d].databases[b]) =
             RowsShown(mem[d].doc.blocks[b], IndexRead(mem[d].doc.blocks[b]))

\* Every Area and Page that is listed has its document: what a write makes in two documents is
\* stored in both or in neither.
ListedExist ==
  /\ \A a \in Live(store[WS].doc) : Area(a) \in DOMAIN store
  /\ \A d \in DOMAIN store : d[1] = "area" => \A p \in Live(store[d].doc) : Page(p) \in DOMAIN store

\* A write names every resource that a query would now answer differently, so that no subscriber
\* misses it; a refused one changes no answer and records no Action, an applied one records one.
ChangeNamed ==
  /\ store' # store => actions' = actions + 1
  /\ actions' # actions =>
       /\ last'.ok
       /\ \A r \in DOMAIN Answers(store) : Answers(store)[r] # Answers(store')[r] => r \in last'.changed
  /\ last' # last /\ last'.ok => actions' # actions

RECURSIVE ReadFrom(_, _, _)

\* A Page as it reads from the top: its texts, and where a Section starts or a Database stands.
ReadFrom(doc, order, i) ==
  IF i > Len(order) THEN <<>>
  ELSE (IF order[i].boundary THEN <<"section">> ELSE <<>>)
         \o (IF order[i].kind = "text" THEN doc.blocks[order[i].block].text ELSE <<"database">>)
         \o ReadFrom(doc, order, i + 1)

\* What a list shows just after a place.
Follows(list, place, id) ==
  LET at == {i \in DOMAIN list : list[i].id = place} IN
  IF place = First THEN list[1].id = id
  ELSE IF place = Last THEN list[Len(list)].id = id
  ELSE \E i \in at : i < Len(list) /\ list[i + 1].id = id

\* Splitting a Text Block and joining it to the one above never change how the Page reads: no
\* character is lost or doubled and every Section starts where it did; and a View or a row is
\* placed just where it was asked, whatever was placed and removed there before.
EditAsAsked ==
  actions' # actions =>
    LET m == last'.m IN
    /\ m.kind \in {"SplitTextBlock", "JoinTextBlock"} =>
         LET read(docs) == ReadFrom(docs[Page(m.page)].doc, OrderRead(docs[Page(m.page)].doc), 1) IN
         read(store) = read(store')
    /\ m.kind \in {"AddTextBlock", "AddDatabaseBlock"} =>
         Follows(OrderRead(store'[Page(m.page)].doc), m.place, next + 1)
    /\ m.kind = "AddRow" => Follows(IndexRead(store'[Page(m.page)].doc.blocks[m.block]), m.place, next)

==============================================================================
