--------------------------------- MODULE Ui ---------------------------------
(***************************************************************************)
(* kernel/src/ui.rs: the stack of screens, the key handler of each, the    *)
(* modal dialogues and the store operations they end in, the click targets *)
(* of the painted frame, and the cache of the Table Browser's rows.        *)
(*                                                                         *)
(* The store is Relational: an operation of it that succeeds is one of its *)
(* actions and advances the generation; any operation may also fail (the   *)
(* store refused it, or the device did) and then changes nothing.  The     *)
(* commit that fails behind its commit point (JournalIo) is left out.  A   *)
(* read of the volume may fail as well: most of this code goes on with a   *)
(* default in its place.                                                   *)
(*                                                                         *)
(* One event of the loop in `run` is one step: Key, Click or RightClick.   *)
(* Repaint is a render(): one event or many may be handled between two.  A  *)
(* click on a word of the shortcut bar is the step Key with the key it      *)
(* names, which the user may press just as well.                            *)
(*                                                                         *)
(* Text is not modelled: a prompt or an editor resolves with any text the  *)
(* user may have typed by then, and a new editor has the same fields,      *)
(* filled from its row or left blank because the row could not be read.    *)
(* Neither is layout: every item of a list is visible, and the column of   *)
(* the cell cursor is chosen where a key uses it.  Indices of items count  *)
(* from 0, as in the code.                                                 *)
(***************************************************************************)
EXTENDS Relational

CONSTANTS
    Start,      \* what the mounted volume may hold at boot
    Drive,      \* USB drives the autopilot may find
    NowTypes,   \* types with a calendar or a clock (is_datetime)
    NextTypes,  \* types whose keys can be counted on (next_unique_value)
    Parts,      \* number of parts of the builder for a type
    Page,       \* rows a PgUp or PgDn moves over
    Devices,    \* lines of the drive list and of the PCI list
    MaxGen,     \* bound: transactions committed
    MaxDepth    \* bound: screens on the stack

ASSUME UiAssumption ==
    /\ Num \subseteq Int
    /\ Null \notin TableName
    /\ IsFiniteSet(Type) /\ IsFiniteSet(Drive)
    /\ NowTypes \cap NextTypes = {}
    /\ \A t \in Type : Parts[t] \in Nat \ {0}
    /\ {Page, Devices, MaxGen} \subseteq Nat /\ MaxDepth \in Nat \ {0}

VARIABLES
    gen,        \* its generation
    stack,      \* App::stack
    hitmap,     \* App::hitmap, and whether what was painted is a Confirm
    cache,      \* App::row_cache
    power,      \* "on", "off" after shutdown(), "panic"
    installed   \* USB drives overwritten by an installation

vars == <<db, gen, stack, hitmap, cache, power, installed>>

None == <<>>

\* What a read of the volume gives: its value or, when it fails, one of those
\* that the caller goes on with.
Read(value, D) == {value} \cup D
-----------------------------------------------------------------------------
(* Screens *)

List(sel) == [kind |-> "List", sel |-> sel]
Browser(t, filter) == [kind |-> "Browser", table |-> t, row |-> 0, filter |-> filter, sort |-> None]
RowView(t, id) == [kind |-> "RowView", table |-> t, id |-> id, sel |-> 0]
Schema(t) == [kind |-> "Schema", table |-> t, sel |-> 0]
Prompt(act) == [kind |-> "Prompt", action |-> act]
Pick(options, act) == [kind |-> "Pick", options |-> options, sel |-> 0, action |-> act]
Confirm(act) == [kind |-> "Confirm", action |-> act]
Panel(kind) == [kind |-> kind]

\* The Row Editor; id 0 stands for None, the insertion of a row.
Editor(t, id) == [kind |-> "Editor", table |-> t, id |-> id, cols |-> db[t].columns, focus |-> 0]

Push(st, s) == Append(st, s)
Pop(st) == IF Len(st) > 1 THEN Front(st) ELSE st

\* Mutant of PopToList: only the screen on top is left.
PopToListOne(st) == Pop(st)

PopToList(st) == SubSeq(st, 1, SelectLastInSeq(st, LAMBDA s : s.kind = "List"))
SetTop(st, s) == Append(Front(st), s)

\* sel.min(n.saturating_sub(1))
Clamp(sel, n) == IF sel < n THEN sel ELSE IF n = 0 THEN 0 ELSE n - 1

\* The arrow and page keys of a list of n items.
Move(k, sel, n) ==
    CASE k = "Up" /\ sel > 0 -> sel - 1
      [] k = "Down" /\ sel + 1 < n -> sel + 1
      [] k = "PgUp" -> IF sel < Page THEN 0 ELSE sel - Page
      [] k = "PgDn" -> Clamp(sel + Page, n)
      [] OTHER -> sel
-----------------------------------------------------------------------------
(* What the screens read from the store *)

\* list_tables, in some fixed order.
Tables == SetToSeq(DOMAIN db)

ColNames(t) == [i \in DOMAIN db[t].columns |-> db[t].columns[i].name]

\* The order of the rows of table T: by the sort column, NULLs last in either direction,
\* ties in retrieval order.
Before(T, sort, r, q) ==
    LET key(id) == IF sort = None \/ sort[1] \notin DOMAIN T.rows[id] THEN Null
                   ELSE T.rows[id][sort[1]]
        x == key(r)
        y == key(q)
    IN  IF x = y THEN r < q
        ELSE IF x = Null \/ y = Null THEN y = Null
        ELSE IF sort[2] THEN x[2] < y[2] ELSE y[2] < x[2]

\* The rows a filter lets through; one on a column that no longer exists under
\* its name is not applied.
Kept(T, filter) ==
    {id \in DOMAIN T.rows : filter # None /\ filter[1] \in Names(T) =>
        CellOf(T, id, filter[1]) = filter[2]}

\* The ids a Browser lists; the n-th has n - 1 before it.
Listed(T, filter, sort) ==
    LET kept == Kept(T, filter) IN
    [n \in 1..Cardinality(kept) |->
        CHOOSE id \in kept : Cardinality({q \in kept : Before(T, sort, q, id)}) = n - 1]

\* What a Browser shows whose rows, or whose filter's column, could not be read.
Defaults(T, filter, sort) ==
    {<<>>} \cup (IF filter = None THEN {} ELSE {Listed(T, None, sort)})

\* `rows`, with the reads' success.
rows(T, filter, sort) ==
    Read([ids |-> Listed(T, filter, sort), ok |-> TRUE],
         {[ids |-> ids, ok |-> FALSE] : ids \in Defaults(T, filter, sort)})

\* A new entry.  Its field ok, not in the code, tells whether the reads behind
\* it succeeded.
Entry(t, filter, sort, r) ==
    [table |-> t, filter |-> filter, sort |-> sort, gen |-> gen, rows |-> r.ids, ok |-> r.ok]

\* Mutant of cached_rows: the generation is not part of the cache's key.
cached_rowsAnyGen(c, t, filter, sort) ==
    IF <<c.table, c.filter, c.sort>> = <<t, filter, sort>> THEN {[c EXCEPT !.gen = gen]}
    ELSE {Entry(t, filter, sort, r) : r \in rows(db[t], filter, sort)}

\* The cache entries that cached_rows may leave where it found c.
cached_rows(c, t, filter, sort) ==
    IF <<c.table, c.filter, c.sort, c.gen>> = <<t, filter, sort, gen>> THEN {c}
    ELSE {Entry(t, filter, sort, r) : r \in rows(db[t], filter, sort)}

\* Mutant of RowAt: the position is looked up in retrieval order.
RowAtUnsorted(c, row) == Listed(db[c.table], c.filter, None)[row + 1]

\* The row at a position of the Browser.
RowAt(c, row) == c.rows[row + 1]

\* Row View's targets: the referenced rows, then the referencing ones, each as
\* the table and filter of the Browser it opens.  Rows that open the same
\* Browser count once.  A read that fails loses the former together, or some of
\* the latter.
Outgoing(t, id) ==
    {<<f.to_table, f.to_col, CellOf(db[t], id, f.from_col)>> :
        f \in {f \in ToSet(db[t].fks) : CellOf(db[t], id, f.from_col) # Null}}

Incoming(t, id) ==
    {<<r[1], r[2].from_col, CellOf(db[t], id, r[2].to_col)>> : r \in referencing_rows(t, id)}

\* One set after the other.
Listings(A, B) == {SetToSeq(out) \o SetToSeq(into) : out \in A, into \in B}

nav_targets(t, id) ==
    IF id \notin DOMAIN db[t].rows THEN {<<>>}
    ELSE Listings(Read(Outgoing(t, id), {{}}), Read(Incoming(t, id), SUBSET Incoming(t, id)))

\* FieldBuilder::new and the buttons below its parts.
Builder(ed, next) ==
    LET ty == ed.cols[ed.focus + 1].ty IN
    [kind |-> "Builder", field |-> ed.focus, parts |-> Parts[ty], focus |-> 0,
     now |-> ty \in NowTypes, next |-> next]

Buttons(b) == (IF b.now THEN 1 ELSE 0) + (IF b.next THEN 1 ELSE 0)
ok_index(b) == b.parts + Buttons(b)
cancel_index(b) == ok_index(b) + 1
total(b) == cancel_index(b) + 1
-----------------------------------------------------------------------------
(* Store calls and navigation *)

\* A Store operation that returned Ok, in a step that also takes it.
Committed == gen < MaxGen /\ gen' = gen + 1 /\ UNCHANGED <<cache, power, installed>>

\* A handler that called no operation of the store, or one that returned Err.
NoCommit == UNCHANGED <<db, gen, cache, power, installed>>

Goto(st) == Len(st) <= MaxDepth /\ stack' = st /\ NoCommit
-----------------------------------------------------------------------------
(* dispatch: one handler for each screen.  st is the stack the handler finds, *)
(* k the key; a key a screen does not know leaves the screen as it is.        *)

ListKey(k, st, tables) ==
    LET n == Len(tables)
        sel == Clamp(Last(st).sel, n)
        here == SetTop(st, List(sel))
    IN  CASE k \in {"Up", "Down"} -> Goto(SetTop(st, List(Move(k, sel, n))))
          [] k = "Enter" /\ n > 0 -> Goto(Push(here, Browser(tables[sel + 1], None)))
          [] k = "c" -> Goto(Push(here, Prompt([op |-> "CreateTable"])))
          [] k = "s" -> Goto(Push(here, Confirm([op |-> "Shutdown"])))
          [] k = "d" -> Goto(Push(here, Panel("Drives")))
          [] k = "p" -> Goto(Push(here, Panel("Pci")))
          [] k = "a" -> Goto(Push(here, Panel("About")))
          [] k = "n" -> \E found \in SUBSET Drive :
                            Goto(IF found = {} THEN here
                                 ELSE Push(here, [kind |-> "CreateOsPick", sel |-> 0,
                                                  candidates |-> SetToSeq(found)]))
          [] OTHER -> Goto(here)

key_list(k, st) == \E tables \in Read(Tables, {<<>>}) : ListKey(k, st, tables)

\* Cycling the order on a column: ascending, descending, unsorted.
NextSort(sort, col) ==
    CASE sort = <<col, TRUE>> -> <<col, FALSE>>
      [] sort = <<col, FALSE>> -> None
      [] OTHER -> <<col, TRUE>>

\* The stacks open_editor may leave: without the table's columns, no editor.
open_editor(st, t, id) == Read(Push(st, Editor(t, id)), {st})

\* c is the cache entry of the rows the Browser on top shows.
BrowserKey(k, st, c) ==
    LET b == Last(st)
        n == Len(c.rows)
        row == Clamp(b.row, n)
        here == SetTop(st, [b EXCEPT !.row = row])
        id == RowAt(c, row)
        Show(st2, c2) == /\ Len(st2) <= MaxDepth /\ stack' = st2 /\ cache' = c2
                         /\ UNCHANGED <<db, gen, power, installed>>
        \* The cursor stays on its row, if the new list has it.
        Sorted(sort) ==
            IF n = 0 THEN Show(SetTop(st, [b EXCEPT !.row = row, !.sort = sort]), c)
            ELSE \E c2 \in cached_rows(c, b.table, b.filter, sort) :
                    LET at == SelectInSeq(c2.rows, LAMBDA x : x = id) IN
                    Show(SetTop(st, [b EXCEPT !.row = IF at = 0 THEN row ELSE at - 1,
                                              !.sort = sort]), c2)
    IN  CASE k \in {"Up", "Down", "PgUp", "PgDn"} ->
                Show(SetTop(st, [b EXCEPT !.row = Move(k, row, n)]), c)
          [] k = "Esc" -> Show(Pop(here), c)
          [] k = "o" -> \/ \E col \in DOMAIN db[b.table].columns : Sorted(NextSort(b.sort, col))
                        \/ Show(here, c)   \* no columns, or none could be read
          [] k = "Enter" /\ n > 0 -> Show(Push(here, RowView(b.table, id)), c)
          [] k = "i" -> \E st2 \in open_editor(here, b.table, 0) : Show(st2, c)
          [] k = "u" /\ n > 0 -> \E st2 \in open_editor(here, b.table, id) : Show(st2, c)
          [] k = "d" /\ n > 0 ->
                Show(Push(here, Confirm([op |-> "DeleteRow", table |-> b.table, id |-> id])), c)
          [] k = "s" -> Show(Push(here, Schema(b.table)), c)
          [] OTHER -> Show(here, c)

key_browser(k, st) ==
    LET b == Last(st) IN
    \E c \in cached_rows(cache, b.table, b.filter, b.sort) : BrowserKey(k, st, c)

RowViewKey(k, st, navs) ==
    LET v == Last(st)
        sel == Clamp(v.sel, Len(navs))
        here == SetTop(st, [v EXCEPT !.sel = sel])
    IN  CASE k = "Esc" -> Goto(Pop(here))
          [] k \in {"Up", "Down"} -> Goto(SetTop(st, [v EXCEPT !.sel = Move(k, sel, Len(navs))]))
          [] k = "Enter" /\ navs # <<>> ->
                LET to == navs[sel + 1] IN Goto(Push(here, Browser(to[1], <<to[2], to[3]>>)))
          [] OTHER -> Goto(here)

key_rowview(k, st) ==
    \E navs \in nav_targets(Last(st).table, Last(st).id) : RowViewKey(k, st, navs)

\* The Schema Editor's own store operations: the UNIQUE flag and the order of
\* the columns change at once, without a modal.
ToggleUnique(t, sel) ==
    LET c == db[t].columns[sel + 1] IN
    set_unique(t, c.name, ~c.unique) /\ Committed

MoveColumn(t, sel, to) == move_column(t, db[t].columns[sel + 1].name, to + 1) /\ Committed

\* The parts of a table's schema that the Schema Editor uses, and what it has of
\* a table that could not be read.
SchemaOf(t) == [columns |-> db[t].columns, fks |-> db[t].fks, ref_cols |-> db[t].ref_cols]
NoSchema == [columns |-> <<>>, fks |-> <<>>, ref_cols |-> <<>>]

SchemaKey(k, st, T) ==
    LET s == Last(st)
        t == s.table
        n == Len(T.columns)
        sel == Clamp(s.sel, n)
        At(i) == SetTop(st, [s EXCEPT !.sel = i])
        Ask(modal) == Goto(Push(At(sel), modal))
        col == T.columns[sel + 1].name
        to == IF k = "," THEN sel - 1 ELSE sel + 1
    IN  CASE k = "Esc" -> Goto(Pop(At(sel)))
          [] k \in {"Up", "Down"} -> Goto(At(Move(k, sel, n)))
          [] k = "a" -> Ask(Prompt([op |-> "AddColumn", table |-> t]))
          [] k = "x" /\ n > 0 -> Ask(Confirm([op |-> "DropColumn", table |-> t, col |-> col]))
          [] k = "r" /\ n > 0 -> Ask(Prompt([op |-> "RenameColumn", table |-> t, col |-> col]))
          [] k = "w" /\ n > 0 -> Ask(Prompt([op |-> "SetDisplayWidth", table |-> t, col |-> col]))
          [] k = "u" /\ n > 0 -> \/ ToggleUnique(t, sel) /\ stack' = At(sel)
                                 \/ Goto(At(sel))
          [] k \in {",", "."} /\ to \in 0..(n - 1) ->
                \/ MoveColumn(t, sel, to) /\ stack' = At(to)
                \/ Goto(At(sel))
          [] k = "k" -> \E cols \in Read(ColNames(t), {<<>>}) :
                            Ask(Pick(cols, [op |-> "AddFkPickFrom", table |-> t]))
          [] k = "K" /\ T.fks # <<>> ->
                Ask(Pick([i \in DOMAIN T.fks |-> T.fks[i].name], [op |-> "DropFk", table |-> t]))
          [] k = "D" -> Ask(Confirm([op |-> "DropTable", table |-> t]))
          [] k = "R" -> Ask([kind |-> "RefCols", table |-> t, order |-> T.ref_cols, sel |-> 0])
          [] OTHER -> Goto(At(sel))

key_schema(k, st) ==
    \E T \in Read(SchemaOf(Last(st).table), {NoSchema}) : SchemaKey(k, st, T)

\* The label order after a key of the reference-columns picker; c is the column
\* under its cursor, Null when the table has none.
Relabelled(k, order, c) ==
    LET p == SelectInSeq(order, LAMBDA x : x = c)
        Swap(i, j) == [order EXCEPT ![i] = order[j], ![j] = order[i]]
    IN  CASE k = "Enter" /\ c # Null -> IF p = 0 THEN Append(order, c) ELSE RemoveAt(order, p)
          [] k = "," /\ p > 1 -> Swap(p, p - 1)
          [] k = "." /\ p \in 1..(Len(order) - 1) -> Swap(p, p + 1)
          [] k = "c" -> <<>>
          [] OTHER -> order

\* An edit is saved at once; the working order keeps it also when saving fails.
RefColsKey(k, st, cols) ==
    LET s == Last(st)
        sel == IF cols = <<>> THEN s.sel ELSE Clamp(s.sel, Len(cols))
        order == Relabelled(k, s.order, IF cols = <<>> THEN Null ELSE cols[sel + 1])
        here == SetTop(st, [s EXCEPT !.sel = sel, !.order = order])
    IN  CASE k = "Esc" -> Goto(Pop(here))
          [] k \in {"Up", "Down"} -> Goto(SetTop(st, [s EXCEPT !.sel = Move(k, sel, Len(cols))]))
          [] order # s.order ->
                \/ set_reference_columns(s.table, order) /\ Committed /\ stack' = here
                \/ Goto(here)
          [] OTHER -> Goto(here)

key_refcols(k, st) ==
    \E cols \in Read(ColNames(Last(st).table), {<<>>}) : RefColsKey(k, st, cols)

\* Drives, Pci, Xhci and About only look at the hardware; Enter on the PCI list
\* opens the inspection of an xHCI controller.
key_panel(k, st) ==
    CASE k = "Esc" -> Goto(Pop(st))
      [] k = "Enter" /\ Last(st).kind = "Pci" -> Goto(st) \/ Goto(Push(st, Panel("Xhci")))
      [] OTHER -> Goto(st)

key_create_os_pick(k, st) ==
    LET s == Last(st)
        n == Len(s.candidates)
        sel == Clamp(s.sel, n)
        here == SetTop(st, [s EXCEPT !.sel = sel])
    IN  CASE k = "Esc" -> Goto(Pop(here))
          [] k \in {"Up", "Down"} -> Goto(SetTop(st, [s EXCEPT !.sel = Move(k, sel, n)]))
          [] k = "Enter" -> Goto(Push(here, Confirm([op |-> "CreateOs", drive |-> s.candidates[sel + 1]])))
          [] OTHER -> Goto(here)

\* fk_select: the picked value goes into the nearest editor, whose focus moves
\* to the field; without a value (NULL, or a row that is gone or cannot be read)
\* nothing happens.
fk_select(p, id, st) ==
    LET e == SelectLastInSeq(st, LAMBDA s : s.kind = "Editor") IN
    IF /\ p.to_col \in Names(db[p.to_table])
       /\ id \in DOMAIN db[p.to_table].rows
       /\ CellOf(db[p.to_table], id, p.to_col) # Null
       /\ e > 0 /\ p.field < Len(st[e].cols)
    THEN Pop([st EXCEPT ![e].focus = p.field])
    ELSE st

key_fk_pick(k, st) ==
    LET s == Last(st)
        n == Len(s.rows)
        sel == Clamp(s.sel, n)
        here == SetTop(st, [s EXCEPT !.sel = sel])
    IN  CASE k = "Esc" -> Goto(Pop(here))
          [] k \in {"Up", "Down", "PgUp", "PgDn"} ->
                Goto(SetTop(st, [s EXCEPT !.sel = Move(k, sel, n)]))
          [] k = "Enter" -> \E st2 \in Read(fk_select(s, s.rows[sel + 1], here), {here}) : Goto(st2)
          [] OTHER -> Goto(here)

key_install_result(k, st) == Goto(IF k \in {"Esc", "Enter"} THEN PopToList(st) ELSE st)
-----------------------------------------------------------------------------
(* Modals.  st is the stack without the modal.                               *)

resolve_prompt(act, st) ==
    CASE act.op = "CreateTable" ->
            \/ \E t \in TableName :
                  /\ create_table(t) /\ Committed
                  /\ Len(st) < MaxDepth /\ stack' = Push(st, Schema(t))
            \/ Goto(st)
      [] act.op = "AddColumn" ->
            \/ Goto(st)
            \/ \E c \in ColName : Goto(Push(st, Pick(SetToSeq(Type),
                    [op |-> "AddColPickType", table |-> act.table, col |-> c])))
      [] act.op = "RenameColumn" ->
            \/ \E c \in ColName : rename_column(act.table, act.col, c) /\ Committed /\ stack' = st
            \/ Goto(st)
      [] act.op = "SetDisplayWidth" ->
            \/ \E w \in Width : set_display_width(act.table, act.col, w) /\ Committed /\ stack' = st
            \/ Goto(st)

\* Columns are added nullable and not UNIQUE.
NewColumn(name, ty) ==
    [name |-> name, ty |-> ty, nullable |-> TRUE, unique |-> FALSE,
     width |-> CHOOSE w \in Width : TRUE]

UniqueCols(t) ==
    Retained(ColNames(t), {i \in DOMAIN db[t].columns : db[t].columns[i].unique})

resolve_pick(act, choice, st) ==
    CASE act.op = "AddColPickType" ->
            \/ add_column(act.table, NewColumn(act.col, choice)) /\ Committed /\ stack' = st
            \/ Goto(st)
      [] act.op = "AddFkPickFrom" ->
            \E tables \in Read(Tables, {<<>>}) :
                Goto(Push(st, Pick(tables, [op |-> "AddFkPickToTable", table |-> act.table, col |-> choice])))
      [] act.op = "AddFkPickToTable" ->
            \E cols \in Read(UniqueCols(choice), {<<>>}) :
                Goto(IF cols = <<>> THEN st
                     ELSE Push(st, Pick(cols, [op |-> "AddFkPickToCol", table |-> act.table,
                                               col |-> act.col, to_table |-> choice])))
      [] act.op = "AddFkPickToCol" ->
            \/ add_fk(act.table, act.col, act.to_table, choice) /\ Committed /\ stack' = st
            \/ Goto(st)
      [] act.op = "DropFk" ->
            \/ drop_fk(act.table, choice) /\ Committed /\ stack' = st
            \/ Goto(st)

resolve_confirm(act, st) ==
    CASE act.op = "Shutdown" ->
            power' = "off" /\ stack' = st /\ UNCHANGED <<db, gen, cache, installed>>
      [] act.op = "DeleteRow" ->
            \/ delete(act.table, act.id) /\ Committed /\ stack' = st
            \/ Goto(st)
      [] act.op = "DropTable" ->
            \/ drop_table(act.table) /\ Committed /\ stack' = PopToList(st)
            \/ Goto(st)
      [] act.op = "DropColumn" ->
            \/ drop_column(act.table, act.col) /\ Committed /\ stack' = st
            \/ Goto(st)
      [] act.op = "CreateOs" ->   \* install_to_usb may fail before it writes
            /\ installed' \in {installed, installed \cup {act.drive}}
            /\ stack' = Push(PopToList(st), Panel("InstallResult"))
            /\ UNCHANGED <<db, gen, cache, power>>

key_prompt(k, st) ==
    CASE k = "Esc" -> Goto(Pop(st))
      [] k = "Enter" -> resolve_prompt(Last(st).action, Pop(st))
      [] OTHER -> Goto(st)

\* options[*sel] panics when sel, which a click sets, is past the end.
key_pick(k, st) ==
    LET p == Last(st)
        n == Len(p.options)
    IN  CASE k = "Esc" -> Goto(Pop(st))
          [] k \in {"Up", "Down"} -> Goto(SetTop(st, [p EXCEPT !.sel = Move(k, p.sel, n)]))
          [] k = "Enter" /\ p.sel < n -> resolve_pick(p.action, p.options[p.sel + 1], Pop(st))
          [] k = "Enter" /\ n > 0 /\ p.sel >= n ->
                power' = "panic" /\ stack' = st /\ UNCHANGED <<db, gen, cache, installed>>
          [] OTHER -> Goto(st)

key_confirm(k, st) ==
    CASE k = "Esc" -> Goto(Pop(st))
      [] k = "Enter" -> resolve_confirm(Last(st).action, Pop(st))
      [] OTHER -> Goto(st)
-----------------------------------------------------------------------------
(* Row Editor and builder *)

\* Mutant of commit_editor: the placeholder is not popped.
commit_editorPlaceholder(ed, st) ==
    \/ /\ \E cells \in Rows(ed.table) :
             IF ed.id = 0 THEN insert(ed.table, cells) ELSE update(ed.table, ed.id, cells)
       /\ Committed
       /\ stack' = SetTop(st, List(0))
    \/ Goto(st)

\* commit_editor: some field is not acceptable or the store refuses the row and
\* the editor stays open, or the row is written and the editor closed.
commit_editor(ed, st) ==
    \/ /\ \E cells \in Rows(ed.table) :
             IF ed.id = 0 THEN insert(ed.table, cells) ELSE update(ed.table, ed.id, cells)
       /\ Committed
       /\ stack' = Pop(st)
    \/ Goto(st)

\* open_builder: a foreign-key field gets the picker of the target's rows, or
\* none when they cannot be read.  A field that is not found to be one gets the
\* builder; the next free key is offered when the table's rows can be read.
open_builder(ed, st) ==
    LET fks == db[ed.table].fks
        col == ed.cols[ed.focus + 1]
        own == {i \in DOMAIN fks : fks[i].from_col = col.name}
        fk == fks[Min(own)]
        target == db[fk.to_table]
        build == {Push(st, Builder(ed, next)) :
                    next \in Read(ed.id = 0 /\ col.unique /\ col.ty \in NextTypes, {FALSE})}
        pick == IF DOMAIN target.rows = {} THEN st
                ELSE Push(st, [kind |-> "FkPick", field |-> ed.focus, to_table |-> fk.to_table,
                               to_col |-> fk.to_col, rows |-> Listed(target, None, None), sel |-> 0])
    IN  IF own = {} THEN build ELSE Read(pick, {st} \cup build)

key_editor(k, st) ==
    LET ed == Last(st)
        nf == Len(ed.cols)
        Focus(i) == Goto(SetTop(st, [ed EXCEPT !.focus = i]))
    IN  CASE k = "Esc" -> Goto(Pop(st))
          [] k \in {"Tab", "Down"} -> Focus((ed.focus + 1) % (nf + 2))
          [] k = "Up" -> Focus((ed.focus + nf + 1) % (nf + 2))
          [] k = "PgDn" /\ ed.focus < nf -> \E st2 \in open_builder(ed, st) : Goto(st2)
          [] k = "Enter" -> IF ed.focus = nf + 1 THEN Goto(Pop(st)) ELSE commit_editor(ed, st)
          [] OTHER -> Goto(st)

\* commit_builder: the composed parts are a value and go into the editor below,
\* or the builder shows the error.
commit_builder(b, st) ==
    LET below == Pop(st) IN
    \/ Goto(IF Last(below).kind = "Editor"
            THEN SetTop(below, [Last(below) EXCEPT !.focus = b.field])
            ELSE below)
    \/ Goto(st)

key_builder(k, st) ==
    LET b == Last(st)
        Focus(i) == Goto(SetTop(st, [b EXCEPT !.focus = i]))
    IN  CASE k = "Esc" -> Goto(Pop(st))
          [] k \in {"Tab", "Down"} -> Focus((b.focus + 1) % total(b))
          [] k = "Up" -> Focus((b.focus + total(b) - 1) % total(b))
          [] k = "Enter" ->
                IF b.focus = cancel_index(b) THEN Goto(Pop(st))
                ELSE IF b.focus \in b.parts..(ok_index(b) - 1) THEN Goto(st)
                ELSE commit_builder(b, st)
          [] OTHER -> Goto(st)
-----------------------------------------------------------------------------
(* Events *)

on_key(k, st) ==
    LET kind == Last(st).kind IN
    CASE kind = "List" -> key_list(k, st)
      [] kind = "Browser" -> key_browser(k, st)
      [] kind = "RowView" -> key_rowview(k, st)
      [] kind = "Schema" -> key_schema(k, st)
      [] kind = "RefCols" -> key_refcols(k, st)
      [] kind = "Prompt" -> key_prompt(k, st)
      [] kind = "Pick" -> key_pick(k, st)
      [] kind = "Confirm" -> key_confirm(k, st)
      [] kind = "Editor" -> key_editor(k, st)
      [] kind = "Builder" -> key_builder(k, st)
      [] kind = "FkPick" -> key_fk_pick(k, st)
      [] kind = "CreateOsPick" -> key_create_os_pick(k, st)
      [] kind = "InstallResult" -> key_install_result(k, st)
      [] kind \in {"Drives", "Pci", "Xhci", "About"} -> key_panel(k, st)

\* The click targets of a painted screen: items that take the focus and items
\* that are activated.  The lines of a table, row or list that could not be read
\* are missing.
Hits(focus, activate) == [focus |-> focus, activate |-> activate, confirm |-> FALSE]

Items(n) == 0..(n - 1)

frame_list(s) == {Hits({}, Items(Len(tables))) : tables \in Read(Tables, {<<>>})}
frame_browser(s, c) == {Hits({}, Items(Len(c.rows)))}
frame_rowview(s) == {Hits({}, Items(Len(navs))) : navs \in nav_targets(s.table, s.id)}
frame_schema(s) == {Hits(Items(Len(cols)), {}) : cols \in Read(ColNames(s.table), {<<>>})}
frame_refcols(s) == {Hits({}, Items(Len(cols))) : cols \in Read(ColNames(s.table), {<<>>})}
frame_editor(s) == LET nf == Len(s.cols) IN {Hits(Items(nf), {nf, nf + 1})}
frame_builder(s) == {Hits(Items(s.parts), s.parts..cancel_index(s))}
frame_fk_pick(s) == {Hits({}, Items(Len(s.rows)))}
frame_pick(s) == {Hits({}, Items(Len(s.options)))}
frame_create_os_pick(s) == {Hits({}, Items(Len(s.candidates)))}
frame_prompt(s) == {Hits({}, {})}
frame_confirm(s) == {[Hits({}, {}) EXCEPT !.confirm = TRUE]}
frame_panel(s) == {CASE s.kind = "Drives" -> Hits(Items(Devices), {})
                     [] s.kind = "Pci" -> Hits({}, Items(Devices))
                     [] OTHER -> Hits({}, {})}

\* The frames of a screen; c is the row cache.
build_frame(s, c) ==
    CASE s.kind = "List" -> frame_list(s)
      [] s.kind = "Browser" -> frame_browser(s, c)
      [] s.kind = "RowView" -> frame_rowview(s)
      [] s.kind = "Schema" -> frame_schema(s)
      [] s.kind = "RefCols" -> frame_refcols(s)
      [] s.kind = "Editor" -> frame_editor(s)
      [] s.kind = "Builder" -> frame_builder(s)
      [] s.kind = "FkPick" -> frame_fk_pick(s)
      [] s.kind = "Pick" -> frame_pick(s)
      [] s.kind = "CreateOsPick" -> frame_create_os_pick(s)
      [] s.kind = "Prompt" -> frame_prompt(s)
      [] s.kind = "Confirm" -> frame_confirm(s)
      [] OTHER -> frame_panel(s)

\* set_cursor: item i of the screen that is on top now.
set_cursor(st, i) ==
    LET s == Last(st) IN
    CASE s.kind = "Browser" -> SetTop(st, [s EXCEPT !.row = i])
      [] s.kind \in {"Editor", "Builder"} -> SetTop(st, [s EXCEPT !.focus = i])
      [] s.kind \in {"List", "RowView", "Schema", "RefCols", "Pick", "CreateOsPick", "FkPick"} ->
            SetTop(st, [s EXCEPT !.sel = i])
      [] OTHER -> st

Keys == {"Up", "Down", "PgUp", "PgDn", "Tab", "Enter", "Esc", "a", "c", "d", "i", "k", "K", "D",
         "n", "o", "p", "r", "R", "s", "u", "w", "x", ",", "."}

\* One event taken from the queue, whatever was painted last.
Event == power = "on" /\ hitmap' = hitmap

Key == Event /\ \E k \in Keys : on_key(k, stack)
RightClick == Event /\ on_key("Esc", stack)

\* on_click: a line of the last painted frame, applied to the screen on top.
Click ==
    /\ Event
    /\ \/ \E i \in hitmap.focus : Goto(set_cursor(stack, i))
       \/ \E i \in hitmap.activate : on_key("Enter", set_cursor(stack, i))

\* render: building the Browser's frame may refresh the row cache.
Repaint ==
    LET s == Last(stack) IN
    /\ power = "on"
    /\ cache' \in IF s.kind = "Browser" THEN cached_rows(cache, s.table, s.filter, s.sort) ELSE {cache}
    /\ hitmap' \in build_frame(s, cache')
    /\ UNCHANGED <<db, gen, stack, power, installed>>

\* The mounted volume was written by the store's operations.
VolumeSound == TypeOK /\ SchemaSound /\ RowsFit /\ UniqueHolds /\ RefIntegrity

UiInit ==
    /\ db \in Start /\ VolumeSound
    /\ gen = 0
    /\ stack = <<List(0)>>
    /\ hitmap \in frame_list(List(0))
    /\ cache = [table |-> Null, filter |-> None, sort |-> None, gen |-> 0, rows |-> <<>>, ok |-> TRUE]
    /\ power = "on"
    /\ installed = {}

UiNext == Click \/ RightClick \/ Key \/ Repaint

UiSpec == UiInit /\ [][UiNext]_vars
-----------------------------------------------------------------------------
(* Properties *)

Kinds == {"List", "Browser", "RowView", "Schema", "RefCols", "Prompt", "Pick", "Confirm", "Editor",
          "Builder", "FkPick", "CreateOsPick", "InstallResult", "Drives", "Pci", "Xhci", "About"}

\* The table list is at the bottom of the stack and nowhere else: the loops
\* that pop "while the top is not the List" end, and pop() never refuses.
StackOK ==
    /\ gen \in 0..MaxGen
    /\ Len(stack) \in 1..MaxDepth
    /\ \A i \in DOMAIN stack : stack[i].kind \in Kinds /\ (stack[i].kind = "List" <=> i = 1)
    /\ installed \subseteq Drive
    /\ power \in {"on", "off", "panic"}

\* An entry that would be reused "while the table, filter, sort and store
\* generation all match" (row_cache) is what the table holds now, unless a read
\* behind it failed: then it is one of the lists that `rows` falls back to.
CacheFresh ==
    cache.table # Null /\ cache.gen = gen =>
        /\ cache.table \in DOMAIN db
        /\ LET T == db[cache.table] IN
           cache.rows \in IF cache.ok THEN {Listed(T, cache.filter, cache.sort)}
                          ELSE Defaults(T, cache.filter, cache.sort)

\* The table and the column of a screen, or of the action a modal waits to do,
\* and the row a confirmation was opened for.
NamesLive(s) ==
    LET x == IF s.kind \in {"Prompt", "Pick", "Confirm"} THEN s.action ELSE s
    IN  /\ "table" \in DOMAIN x => x.table \in DOMAIN db
        /\ "col" \in DOMAIN x /\ x.op # "AddColPickType" => x.col \in Names(db[x.table])
        /\ s.kind = "Confirm" /\ "id" \in DOMAIN x => x.id \in DOMAIN db[x.table].rows

\* An editor is open on a live row under the table's columns; `below` is the
\* editor into whose focused field a builder or foreign-key picker writes.
EditorLive(s, below) ==
    /\ s.kind = "Editor" =>
         /\ s.cols = db[s.table].columns
         /\ s.id = 0 \/ s.id \in DOMAIN db[s.table].rows
    /\ s.kind \in {"Builder", "FkPick"} =>
         /\ below.kind = "Editor"
         /\ s.field = below.focus
         /\ s.field < Len(below.cols)
    /\ s.kind = "FkPick" => ToSet(s.rows) \subseteq DOMAIN db[s.to_table].rows

\* What an answer would act on is still there, whatever events were handled
\* since it was painted: every screen and every open modal names a table that
\* exists, a modal a column that exists, a confirmation a row that exists; a Row
\* Editor is open on its row under the schema it has now, and a builder or a
\* foreign-key picker lies on the editor it writes into.  (A RowId of a dropped
\* table would be read from pages that now hold something else.)  Two screens
\* may outlive what they show, and the code looks it up again: a Row View its
\* row, and a Browser the column of its filter.
ScreensLive ==
    \A i \in DOMAIN stack :
        NamesLive(stack[i]) /\ EditorLive(stack[i], stack[IF i = 1 THEN 1 ELSE i - 1])

\* The step switches off, overwrites a drive, or loses a table, column or row.
Remaining == DOMAIN db \cap DOMAIN db'
DropsTable == DOMAIN db \ DOMAIN db' # {}
DropsColumn == \E t \in Remaining : Len(db'[t].columns) < Len(db[t].columns)
DeletesRow == \E t \in Remaining : DOMAIN db[t].rows \ DOMAIN db'[t].rows # {}
Destroys ==
    DropsTable \/ DropsColumn \/ DeletesRow \/ installed' # installed \/ power' = "off"

\* The step is what the confirmation on top of st was opened for.
Answers(st) ==
    /\ Last(st).kind = "Confirm"
    /\ LET x == Last(st).action
           b == st[Len(st) - 1]
       IN  /\ x.op = CASE DropsTable -> "DropTable"
                       [] DropsColumn -> "DropColumn"
                       [] DeletesRow -> "DeleteRow"
                       [] installed' # installed -> "CreateOs"
                       [] OTHER -> "Shutdown"
           /\ DropsTable => DOMAIN db \ DOMAIN db' = {x.table}
           /\ DropsColumn => Names(db[x.table]) \ {db'[x.table].columns[i].name :
                                i \in DOMAIN db'[x.table].columns} = {x.col}
           /\ DeletesRow => /\ DOMAIN db[x.table].rows \ DOMAIN db'[x.table].rows = {x.id}
                            /\ b.kind = "Browser" /\ b.table = x.table
                            /\ <<cache.table, cache.filter, cache.sort, cache.gen>> =
                                    <<b.table, b.filter, b.sort, gen>>
                            /\ cache.rows[b.row + 1] = x.id

\* UI.md:181-183, "Destructive actions (delete row, drop column, drop FK, drop
\* table, overwrite a USB drive when installing a new OS, shutdown) open a
\* confirmation", except for "drop FK", where it is false (resolve_pick drops the
\* key that was picked): anything else that is lost is what the confirmation on
\* top was opened for, and a row that is deleted is the one on which the Browser
\* below has its cursor, in the list it has now.
DestroysOnlyConfirmed == [][Destroys => Answers(stack)]_vars

\* UI.md:204, "Confirm - a modal warns that the chosen drive will be
\* overwritten", and the comment on the hit map, "so `on_click` can resolve a
\* pointer position against exactly what is on screen": a drive is overwritten by
\* the answer to a warning that was on the screen.
OverwriteWarned == [][installed' # installed => hitmap.confirm]_vars
=============================================================================
