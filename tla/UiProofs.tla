------------------------------ MODULE UiProofs ------------------------------
(***************************************************************************)
(* Proofs about the user interface.                                        *)
(*                                                                         *)
(* The inductive invariant UiInv says of every screen on the stack, kind   *)
(* by kind, what it names in the database and what lies below it, of a     *)
(* confirmation that it is about the row under the cursor; that the        *)
(* database is sound (RelationalProofs), and that a cache entry of the     *)
(* present generation is the table's rows or a failed read's default.      *)
(* Handles(st) is what a key handler may rely on, After what it must       *)
(* establish.  A handler that is not the one of a confirmation is shown    *)
(* Harmless as well: it loses no table, column or row.                     *)
(***************************************************************************)
EXTENDS Ui, RelationalProofs

(* Stacks *)

IsStack(st) == st \in Seq({st[i] : i \in DOMAIN st})

\* The length and the positions of a stack.
LEMMA StackBasics ==
    ASSUME NEW st, IsStack(st)
    PROVE  Len(st) \in Nat /\ DOMAIN st = 1..Len(st)
  BY DEF IsStack

\* App::push, screen by screen.
LEMMA PushElements ==
    ASSUME NEW st, IsStack(st), NEW s
    PROVE  /\ IsStack(Push(st, s))
           /\ Len(Push(st, s)) = Len(st) + 1
           /\ \A i \in 1..Len(st) : Push(st, s)[i] = st[i]
           /\ Push(st, s)[Len(st) + 1] = s
  <1> DEFINE E == {st[i] : i \in DOMAIN st} \cup {s}
             u == Append(st, s)
  <1>1. st \in Seq(E) /\ s \in E
    BY DEF IsStack
  <1> HIDE DEF E
  <1>2. /\ u \in Seq(E) /\ Len(u) = Len(st) + 1 /\ u[Len(st) + 1] = s
        /\ \A i \in 1..Len(st) : u[i] = st[i]
    BY <1>1
  <1> HIDE DEF u
  <1>3. u \in Seq({u[i] : i \in DOMAIN u})
    BY <1>2
  <1>4. QED
    BY <1>2, <1>3 DEF IsStack, Push, u

\* What App::pop leaves.
LEMMA FrontElements ==
    ASSUME NEW st, IsStack(st), Len(st) > 0
    PROVE  /\ IsStack(Front(st))
           /\ Len(Front(st)) = Len(st) - 1
           /\ \A i \in 1..(Len(st) - 1) : Front(st)[i] = st[i]
  <1> DEFINE E == {st[i] : i \in DOMAIN st}
             u == SubSeq(st, 1, Len(st) - 1)
  <1>1. st \in Seq(E)
    BY DEF IsStack
  <1> HIDE DEF E
  <1>2. /\ u \in Seq(E) /\ Len(u) = Len(st) - 1
        /\ \A i \in 1..(Len(st) - 1) : u[i] = st[i]
    <2> DEFINE n == Len(st) - 1
    <2>1. n \in Nat /\ \A i \in 1..n : st[i] \in E
      BY <1>1
    <2>2. u = SubSeq(st, 1, n) /\ n \in Int
      BY <2>1
    <2> HIDE DEF n, u
    <2>3. /\ u \in Seq(E) /\ Len(u) = IF 1 <= n THEN n - 1 + 1 ELSE 0
          /\ \A i \in 1..(n - 1 + 1) : u[i] = st[1 + i - 1]
      BY <2>1, <2>2, SubSeqProperties
    <2>4. u \in Seq(E) /\ Len(u) = n /\ \A i \in 1..n : u[i] = st[i]
      BY <2>1, <2>3
    <2>5. QED
      BY <2>4 DEF n
  <1> HIDE DEF u
  <1>3. u \in Seq({u[i] : i \in DOMAIN u})
    BY <1>2
  <1>4. QED
    BY <1>2, <1>3 DEF IsStack, Front, u

\* A screen restored or replaced on top.
LEMMA SetTopElements ==
    ASSUME NEW st, IsStack(st), Len(st) > 0, NEW s
    PROVE  /\ IsStack(SetTop(st, s))
           /\ Len(SetTop(st, s)) = Len(st)
           /\ \A i \in 1..(Len(st) - 1) : SetTop(st, s)[i] = st[i]
           /\ SetTop(st, s)[Len(st)] = s
  <1> DEFINE u == Front(st)
             n == Len(st)
  <1>1. n \in Nat
    BY StackBasics
  <1>2. IsStack(u) /\ Len(u) = n - 1 /\ \A i \in 1..(n - 1) : u[i] = st[i]
    BY FrontElements
  <1>3. SetTop(st, s) = Push(u, s)
    BY DEF SetTop, Push
  <1>4. /\ IsStack(Push(u, s)) /\ Len(Push(u, s)) = Len(u) + 1
        /\ \A i \in 1..Len(u) : Push(u, s)[i] = u[i]
        /\ Push(u, s)[Len(u) + 1] = s
    BY <1>2, PushElements
  <1> HIDE DEF u, n
  <1>5. /\ IsStack(SetTop(st, s)) /\ Len(SetTop(st, s)) = n
        /\ \A i \in 1..(n - 1) : SetTop(st, s)[i] = st[i]
        /\ SetTop(st, s)[n] = s
    BY <1>1, <1>2, <1>3, <1>4
  <1>6. QED
    BY <1>5 DEF n

\* Nav::PopToList ends at the list, which is at the bottom.
LEMMA LastOne ==
    ASSUME NEW st, IsStack(st), Len(st) > 0, st[1].kind = "List",
           \A i \in 2..Len(st) : st[i].kind # "List"
    PROVE  PopToList(st) = <<st[1]>>
  <1> DEFINE I == {i \in 1..Len(st) : st[i].kind = "List"}
  <1>1. I = {1}
    BY StackBasics
  <1>2. Max(I) = 1
    BY <1>1 DEF Max
  <1>3. SelectLastInSeq(st, LAMBDA s : s.kind = "List") = IF I # {} THEN Max(I) ELSE 0
    BY DEF SelectLastInSeq
  <1>4. PopToList(st) = SubSeq(st, 1, 1)
    BY <1>1, <1>2, <1>3 DEF PopToList
  <1>5. \A i \in 1..1 : st[i] \in {st[1]}
    OBVIOUS
  <1> DEFINE u == SubSeq(st, 1, 1)
  <1>6. u \in Seq({st[1]}) /\ Len(u) = 1 /\ u[1] = st[1]
    <2>1. /\ u \in Seq({st[1]}) /\ Len(u) = IF 1 <= 1 THEN 1 - 1 + 1 ELSE 0
          /\ \A i \in 1..(1 - 1 + 1) : u[i] = st[1 + i - 1]
      BY <1>5, SubSeqProperties
    <2>2. QED
      BY <2>1
  <1> HIDE DEF u
  <1>7. u = <<st[1]>>
    BY <1>6
  <1>8. QED
    BY <1>4, <1>7 DEF u

\* The search for the editor below finds the only one.
LEMMA EditorBelow ==
    ASSUME NEW st, IsStack(st), NEW e \in 1..Len(st), st[e].kind = "Editor",
           \A i \in 1..Len(st) : i # e => st[i].kind # "Editor"
    PROVE  SelectLastInSeq(st, LAMBDA s : s.kind = "Editor") = e
  <1> DEFINE I == {i \in 1..Len(st) : st[i].kind = "Editor"}
  <1>1. I = {e} /\ e \in Nat
    BY StackBasics
  <1>2. Max(I) = e
    BY <1>1 DEF Max
  <1>3. SelectLastInSeq(st, LAMBDA s : s.kind = "Editor") = IF I # {} THEN Max(I) ELSE 0
    BY DEF SelectLastInSeq
  <1>4. QED
    BY <1>1, <1>2, <1>3

-----------------------------------------------------------------------------
(* Screens, by kind.  d is the database they are about, c the row cache and g  *)
(* the generation, b the screen below.                                        *)

IsList(s) == s = [kind |-> "List", sel |-> s.sel] /\ s.sel \in Nat

IsBrowser(s, d) ==
    /\ s = [kind |-> "Browser", table |-> s.table, row |-> s.row, filter |-> s.filter,
            sort |-> s.sort]
    /\ s.table \in DOMAIN d /\ s.row \in Nat

IsRowView(s, d) ==
    /\ s = [kind |-> "RowView", table |-> s.table, id |-> s.id, sel |-> s.sel]
    /\ s.table \in DOMAIN d /\ s.sel \in Nat

IsSchema(s, d) ==
    /\ s = [kind |-> "Schema", table |-> s.table, sel |-> s.sel]
    /\ s.table \in DOMAIN d /\ s.sel \in Nat

IsRefCols(s, d) ==
    /\ s = [kind |-> "RefCols", table |-> s.table, order |-> s.order, sel |-> s.sel]
    /\ s.table \in DOMAIN d /\ s.sel \in Nat /\ s.order \in Seq(ColName)

PromptAct(a, d) ==
    \/ a = [op |-> "CreateTable"]
    \/ a = [op |-> "AddColumn", table |-> a.table] /\ a.table \in DOMAIN d
    \/ /\ a = [op |-> a.op, table |-> a.table, col |-> a.col]
       /\ a.op \in {"RenameColumn", "SetDisplayWidth"}
       /\ a.table \in DOMAIN d /\ a.col \in Names(d[a.table])

IsPrompt(s, d) == s = [kind |-> "Prompt", action |-> s.action] /\ PromptAct(s.action, d)

PickAct(a, o, d) ==
    \/ /\ a = [op |-> "AddColPickType", table |-> a.table, col |-> a.col]
       /\ a.table \in DOMAIN d /\ a.col \in ColName /\ o \in Seq(Type)
    \/ /\ a = [op |-> "AddFkPickFrom", table |-> a.table]
       /\ a.table \in DOMAIN d /\ o \in Seq(Names(d[a.table]))
    \/ /\ a = [op |-> "AddFkPickToTable", table |-> a.table, col |-> a.col]
       /\ a.table \in DOMAIN d /\ a.col \in Names(d[a.table]) /\ o \in Seq(DOMAIN d)
    \/ /\ a = [op |-> "AddFkPickToCol", table |-> a.table, col |-> a.col, to_table |-> a.to_table]
       /\ a.table \in DOMAIN d /\ a.col \in Names(d[a.table]) /\ a.to_table \in DOMAIN d
       /\ o \in Seq(Names(d[a.to_table]))
    \/ /\ a = [op |-> "DropFk", table |-> a.table]
       /\ a.table \in DOMAIN d /\ o \in Seq(FkName)

IsPick(s, d) ==
    /\ s = [kind |-> "Pick", options |-> s.options, sel |-> s.sel, action |-> s.action]
    /\ s.sel \in Nat
    /\ PickAct(s.action, s.options, d)

\* A row to be deleted is the one under the cursor of the Browser below, in the
\* list that is cached.
ConfirmAct(a, b, d, c, g) ==
    \/ a = [op |-> "Shutdown"]
    \/ /\ a = [op |-> "DeleteRow", table |-> a.table, id |-> a.id]
       /\ b.kind = "Browser" /\ b.table = a.table /\ a.table \in DOMAIN d
       /\ a.id \in DOMAIN d[a.table].rows
       /\ <<c.table, c.filter, c.sort, c.gen>> = <<b.table, b.filter, b.sort, g>>
       /\ c.rows[b.row + 1] = a.id
    \/ a = [op |-> "DropTable", table |-> a.table] /\ a.table \in DOMAIN d
    \/ /\ a = [op |-> "DropColumn", table |-> a.table, col |-> a.col]
       /\ a.table \in DOMAIN d /\ a.col \in Names(d[a.table])
    \/ a = [op |-> "CreateOs", drive |-> a.drive] /\ a.drive \in Drive

IsConfirm(s, b, d, c, g) ==
    s = [kind |-> "Confirm", action |-> s.action] /\ ConfirmAct(s.action, b, d, c, g)

IsEditor(s, d) ==
    /\ s = [kind |-> "Editor", table |-> s.table, id |-> s.id, cols |-> s.cols, focus |-> s.focus]
    /\ s.table \in DOMAIN d /\ s.cols = d[s.table].columns
    /\ s.id = 0 \/ s.id \in DOMAIN d[s.table].rows
    /\ s.focus \in Nat

IsBuilder(s, b, d) ==
    /\ s = [kind |-> "Builder", field |-> s.field, parts |-> s.parts, focus |-> s.focus,
            now |-> s.now, next |-> s.next]
    /\ s.parts \in Nat /\ s.focus \in Nat
    /\ b.kind = "Editor" /\ s.field = b.focus /\ s.field < Len(b.cols)

IsFkPick(s, b, d) ==
    /\ s = [kind |-> "FkPick", field |-> s.field, to_table |-> s.to_table, to_col |-> s.to_col,
            rows |-> s.rows, sel |-> s.sel]
    /\ s.sel \in Nat /\ s.to_table \in DOMAIN d /\ s.rows \in Seq(DOMAIN d[s.to_table].rows)
    /\ b.kind = "Editor" /\ s.field = b.focus /\ s.field < Len(b.cols)

IsCreateOsPick(s) ==
    /\ s = [kind |-> "CreateOsPick", sel |-> s.sel, candidates |-> s.candidates]
    /\ s.sel \in Nat /\ s.candidates \in Seq(Drive) /\ s.candidates # <<>>

IsPanel(s) ==
    s = [kind |-> s.kind] /\ s.kind \in {"Drives", "Pci", "Xhci", "About", "InstallResult"}

\* The screens that others are opened from and that stay below them.
Base(s, d) == IsBrowser(s, d) \/ IsRowView(s, d) \/ IsSchema(s, d) \/ IsRefCols(s, d)

Modal(s, b, d, c, g) ==
    \/ IsPrompt(s, d) \/ IsPick(s, d) \/ IsConfirm(s, b, d, c, g)
    \/ IsEditor(s, d) \/ IsBuilder(s, b, d) \/ IsFkPick(s, b, d)
    \/ IsCreateOsPick(s) \/ IsPanel(s)

TopOk(s, b, d, c, g) == Base(s, d) \/ Modal(s, b, d, c, g)

\* The other screens that one may lie on.
Covered(s, top, d) ==
    \/ IsEditor(s, d) /\ top.kind \in {"Builder", "FkPick"}
    \/ IsCreateOsPick(s) /\ top.kind = "Confirm" /\ top.action.op = "CreateOs"
    \/ IsPanel(s) /\ s.kind = "Pci" /\ top.kind = "Xhci"

StackInv(st, d, c, g) ==
    /\ IsStack(st) /\ Len(st) > 0 /\ IsList(st[1])
    /\ \A i \in 2..(Len(st) - 1) :
         Base(st[i], d) \/ (i = Len(st) - 1 /\ Covered(st[i], st[i + 1], d))
    /\ Len(st) > 1 => TopOk(st[Len(st)], st[Len(st) - 1], d, c, g)

\* Nothing but the list and base screens.
Solid(st, d) ==
    /\ IsStack(st) /\ Len(st) > 0 /\ IsList(st[1])
    /\ \A i \in 2..Len(st) : Base(st[i], d)

BaseKinds == {"Browser", "RowView", "Schema", "RefCols"}
ModalKinds == {"Prompt", "Pick", "Confirm", "Editor", "Builder", "FkPick", "CreateOsPick",
               "InstallResult", "Drives", "Pci", "Xhci", "About"}

\* What a screen others are opened from is, by its kind.
LEMMA BaseKind ==
    ASSUME NEW s, NEW d, Base(s, d)
    PROVE  /\ s.kind \in BaseKinds
           /\ s.kind = "Browser" => IsBrowser(s, d)
           /\ s.kind = "RowView" => IsRowView(s, d)
           /\ s.kind = "Schema" => IsSchema(s, d)
           /\ s.kind = "RefCols" => IsRefCols(s, d)
           /\ s.table \in DOMAIN d
  <1>1. IsBrowser(s, d) => s.kind = "Browser" /\ s.table \in DOMAIN d
    BY DEF IsBrowser
  <1>2. IsRowView(s, d) => s.kind = "RowView" /\ s.table \in DOMAIN d
    BY DEF IsRowView
  <1>3. IsSchema(s, d) => s.kind = "Schema" /\ s.table \in DOMAIN d
    BY DEF IsSchema
  <1>4. IsRefCols(s, d) => s.kind = "RefCols" /\ s.table \in DOMAIN d
    BY DEF IsRefCols
  <1>5. QED
    BY <1>1, <1>2, <1>3, <1>4 DEF Base, BaseKinds

\* What a modal or panel is, by its kind.
LEMMA ModalKind ==
    ASSUME NEW s, NEW b, NEW d, NEW c, NEW g, Modal(s, b, d, c, g)
    PROVE  /\ s.kind \in ModalKinds
           /\ s.kind = "Prompt" => IsPrompt(s, d)
           /\ s.kind = "Pick" => IsPick(s, d)
           /\ s.kind = "Confirm" => IsConfirm(s, b, d, c, g)
           /\ s.kind = "Editor" => IsEditor(s, d)
           /\ s.kind = "Builder" => IsBuilder(s, b, d)
           /\ s.kind = "FkPick" => IsFkPick(s, b, d)
           /\ s.kind = "CreateOsPick" => IsCreateOsPick(s)
           /\ s.kind \in {"Drives", "Pci", "Xhci", "About", "InstallResult"} => IsPanel(s)
  <1>1. IsPrompt(s, d) => s.kind = "Prompt"
    BY DEF IsPrompt
  <1>2. IsPick(s, d) => s.kind = "Pick"
    BY DEF IsPick
  <1>3. IsConfirm(s, b, d, c, g) => s.kind = "Confirm"
    BY DEF IsConfirm
  <1>4. IsEditor(s, d) => s.kind = "Editor"
    BY DEF IsEditor
  <1>5. IsBuilder(s, b, d) => s.kind = "Builder"
    BY DEF IsBuilder
  <1>6. IsFkPick(s, b, d) => s.kind = "FkPick"
    BY DEF IsFkPick
  <1>7. IsCreateOsPick(s) => s.kind = "CreateOsPick"
    BY DEF IsCreateOsPick
  <1>8. IsPanel(s) => s.kind \in {"Drives", "Pci", "Xhci", "About", "InstallResult"}
    BY DEF IsPanel
  <1>9. QED
    BY <1>1, <1>2, <1>3, <1>4, <1>5, <1>6, <1>7, <1>8 DEF Modal, ModalKinds

\* What a screen that is not one of the base screens may lie under.
LEMMA CoveredKind ==
    ASSUME NEW s, NEW top, NEW d, Covered(s, top, d)
    PROVE  /\ s.kind \in {"Editor", "CreateOsPick", "Pci"}
           /\ top.kind \in {"Builder", "FkPick", "Confirm", "Xhci"}
           /\ top.kind = "Confirm" => top.action.op = "CreateOs"
           /\ top.kind \in {"Builder", "FkPick"} => IsEditor(s, d)
  <1>1. IsEditor(s, d) => s.kind = "Editor"
    BY DEF IsEditor
  <1>2. IsCreateOsPick(s) => s.kind = "CreateOsPick"
    BY DEF IsCreateOsPick
  <1>3. QED
    BY <1>1, <1>2 DEF Covered

\* It could be on top as well.
LEMMA CoveredTop ==
    ASSUME NEW s, NEW top, NEW d, Covered(s, top, d), NEW b, NEW c, NEW g
    PROVE  TopOk(s, b, d, c, g)
  BY DEF Covered, TopOk, Modal

\* A stack that is not empty has one screen or several.
LEMMA OneOrMore ==
    ASSUME NEW n \in Nat \ {0}
    PROVE  n = 1 \/ n > 1
  OBVIOUS

\* The list is on top exactly when it is alone.
LEMMA OnTop ==
    ASSUME NEW st, NEW d, NEW c, NEW g, StackInv(st, d, c, g)
    PROVE  /\ Len(st) \in Nat \ {0} /\ Last(st) = st[Len(st)]
           /\ Len(st) = 1 => IsList(Last(st)) /\ Last(st).kind = "List"
           /\ Len(st) > 1 => /\ TopOk(Last(st), st[Len(st) - 1], d, c, g)
                             /\ Last(st).kind \in BaseKinds \cup ModalKinds
           /\ Last(st).kind = "List" => Len(st) = 1 /\ IsList(Last(st))
  <1>1. Len(st) \in Nat \ {0} /\ Last(st) = st[Len(st)]
    BY StackBasics DEF StackInv, Last
  <1>2. IsList(st[1]) /\ st[1].kind = "List"
    BY DEF StackInv, IsList
  <1>3. Len(st) > 1 => TopOk(Last(st), st[Len(st) - 1], d, c, g)
    BY <1>1 DEF StackInv
  <1>4. Len(st) > 1 => Last(st).kind \in BaseKinds \cup ModalKinds
    BY <1>3, BaseKind, ModalKind DEF TopOk
  <1>5. Len(st) > 1 => Last(st).kind # "List"
    BY <1>4 DEF BaseKinds, ModalKinds
  <1>6. Len(st) = 1 => IsList(Last(st)) /\ Last(st).kind = "List"
    BY <1>1, <1>2
  <1>7. Last(st).kind = "List" => Len(st) = 1
    BY <1>1, <1>5, OneOrMore, Zenon
  <1>8. QED
    BY <1>1, <1>3, <1>4, <1>6, <1>7

\* A screen opened on the list or on a base screen.
LEMMA StackPush ==
    ASSUME NEW st, NEW d, NEW c, NEW g, StackInv(st, d, c, g), NEW s, TopOk(s, Last(st), d, c, g),
           Len(st) = 1 \/ Base(Last(st), d) \/ Covered(Last(st), s, d)
    PROVE  StackInv(Push(st, s), d, c, g)
  <1> DEFINE n == Len(st)
             u == Push(st, s)
  <1>1. n \in Nat \ {0} /\ Last(st) = st[n] /\ IsStack(st)
    BY OnTop DEF StackInv
  <1>2. IsStack(u) /\ Len(u) = n + 1 /\ u[n + 1] = s /\ \A i \in 1..n : u[i] = st[i]
    BY <1>1, PushElements
  <1>3. IsList(u[1])
    BY <1>1, <1>2 DEF StackInv
  <1>4. \A i \in 2..(n - 1) : Base(st[i], d) \/ (i = n - 1 /\ Covered(st[i], st[i + 1], d))
    BY DEF StackInv
  <1> HIDE DEF n, u
  <1>5. n > 1 => ~Covered(st[n - 1], st[n], d)
    <2>1. Base(st[n], d) => st[n].kind \in BaseKinds
      BY BaseKind
    <2>2. Covered(st[n], s, d) => st[n].kind \in {"Editor", "CreateOsPick", "Pci"}
      BY CoveredKind
    <2>3. Covered(st[n - 1], st[n], d) => st[n].kind \in {"Builder", "FkPick", "Confirm", "Xhci"}
      BY CoveredKind
    <2>4. QED
      BY <1>1, <2>1, <2>2, <2>3 DEF BaseKinds, n
  <1>6. ASSUME NEW i \in 2..n
        PROVE  Base(u[i], d) \/ (i = n /\ Covered(u[i], u[i + 1], d))
    <2>1. CASE i = n
      BY <1>1, <1>2, <2>1 DEF n
    <2>2. CASE i # n
      <3>1. i \in 2..(n - 1) /\ u[i] = st[i] /\ (i = n - 1 => st[i + 1] = st[n])
        BY <1>1, <1>2, <2>2
      <3>2. QED
        BY <1>1, <1>4, <1>5, <3>1
    <2>3. QED
      BY <2>1, <2>2
  <1>7. Len(u) > 0 /\ Len(u) - 1 = n /\ u[Len(u)] = s /\ u[Len(u) - 1] = Last(st)
    BY <1>1, <1>2
  <1>8. TopOk(u[Len(u)], u[Len(u) - 1], d, c, g)
    BY <1>7
  <1>9. QED
    BY <1>2, <1>3, <1>6, <1>7, <1>8 DEF StackInv, u

\* Closing the screen on top leaves a stack.
LEMMA StackPop ==
    ASSUME NEW st, NEW d, NEW c, NEW g, StackInv(st, d, c, g)
    PROVE  /\ StackInv(Pop(st), d, c, g)
           /\ Len(st) > 1 => Len(Pop(st)) = Len(st) - 1 /\ Last(Pop(st)) = st[Len(st) - 1]
           /\ Len(Pop(st)) <= Len(st)
  <1> DEFINE n == Len(st)
             u == Pop(st)
  <1>1. n \in Nat \ {0} /\ Last(st) = st[n] /\ IsStack(st)
    BY OnTop DEF StackInv
  <1>2. CASE n = 1
    <2>1. u = st /\ ~(n > 1) /\ n <= n
      BY <1>2 DEF Pop
    <2> HIDE DEF u
    <2>2. QED
      BY <2>1 DEF n, u
  <1>3. CASE n > 1
    <2>1. IsStack(u) /\ Len(u) = n - 1 /\ \A i \in 1..(n - 1) : u[i] = st[i]
      BY <1>1, <1>3, FrontElements DEF Pop
    <2>2. IsList(u[1])
      BY <1>1, <1>3, <2>1 DEF StackInv
    <2>3. \A i \in 2..(n - 1) : Base(st[i], d) \/ (i = n - 1 /\ Covered(st[i], st[i + 1], d))
      BY DEF StackInv
    <2> HIDE DEF n, u
    <2>4. \A i \in 2..(Len(u) - 1) : Base(u[i], d)
      BY <1>1, <2>1, <2>3
    <2>5. ASSUME Len(u) > 1
          PROVE  TopOk(u[Len(u)], u[Len(u) - 1], d, c, g)
      <3>1. Len(u) \in 2..(n - 1) /\ u[Len(u)] = st[Len(u)]
        BY <1>1, <1>3, <2>1, <2>5
      <3>2. Base(st[Len(u)], d) \/ Covered(st[Len(u)], st[Len(u) + 1], d)
        BY <2>3, <3>1
      <3>3. QED
        BY <3>1, <3>2, CoveredTop DEF TopOk
    <2>6. StackInv(u, d, c, g)
      BY <1>1, <1>3, <2>1, <2>2, <2>4, <2>5 DEF StackInv
    <2>7. Last(u) = st[n - 1]
      BY <1>1, <1>3, <2>1 DEF Last
    <2>8. QED
      BY <1>1, <1>3, <2>1, <2>6, <2>7 DEF u, n
  <1>4. n = 1 \/ n > 1
    BY <1>1, OneOrMore, Zenon
  <1>5. QED
    BY <1>2, <1>3, <1>4

\* A screen of the same kind takes the place of the one on top.
LEMMA StackSetTop ==
    ASSUME NEW st, NEW d, NEW c, NEW g, StackInv(st, d, c, g), NEW s,
           Len(st) = 1 => IsList(s),
           Len(st) > 1 => TopOk(s, st[Len(st) - 1], d, c, g),
           Len(st) > 1 => s.kind = Last(st).kind /\ s.kind # "Confirm"
    PROVE  /\ StackInv(SetTop(st, s), d, c, g)
           /\ Len(SetTop(st, s)) = Len(st)
           /\ Last(SetTop(st, s)) = s
           /\ \A i \in 1..(Len(st) - 1) : SetTop(st, s)[i] = st[i]
  <1> DEFINE n == Len(st)
             u == SetTop(st, s)
  <1>1. n \in Nat \ {0} /\ Last(st) = st[n] /\ IsStack(st)
    BY OnTop DEF StackInv
  <1>2. IsStack(u) /\ Len(u) = n /\ u[n] = s /\ \A i \in 1..(n - 1) : u[i] = st[i]
    BY <1>1, SetTopElements
  <1>3. IsList(u[1])
    BY <1>1, <1>2 DEF StackInv
  <1>4. \A i \in 2..(n - 1) : Base(st[i], d) \/ (i = n - 1 /\ Covered(st[i], st[i + 1], d))
    BY DEF StackInv
  <1>5. n > 1 => TopOk(s, st[n - 1], d, c, g) /\ s.kind = st[n].kind /\ s.kind # "Confirm"
    BY <1>1
  <1> HIDE DEF n, u
  <1>6. ASSUME NEW i \in 2..(n - 1)
        PROVE  Base(u[i], d) \/ (i = n - 1 /\ Covered(u[i], u[i + 1], d))
    <2>1. u[i] = st[i]
      BY <1>1, <1>2
    <2>2. CASE Base(st[i], d)
      BY <2>1, <2>2
    <2>3. CASE i = n - 1 /\ Covered(st[i], st[i + 1], d)
      <3>1. u[i + 1] = s /\ st[i + 1] = st[n] /\ n > 1
        BY <1>1, <1>2, <2>3
      <3>2. Covered(st[i], s, d)
        BY <1>5, <2>3, <3>1 DEF Covered
      <3>3. QED
        BY <2>1, <2>3, <3>1, <3>2
    <2>4. QED
      BY <1>4, <2>2, <2>3
  <1>7. n > 1 => TopOk(u[n], u[n - 1], d, c, g)
    BY <1>1, <1>2, <1>5
  <1>8. StackInv(u, d, c, g)
    BY <1>1, <1>2, <1>3, <1>6, <1>7 DEF StackInv
  <1>9. Last(u) = s
    BY <1>2 DEF Last
  <1>10. QED
    BY <1>2, <1>8, <1>9 DEF u, n

\* A base screen, or the list, has only such screens below it.
LEMMA SolidBase ==
    ASSUME NEW st, NEW d, NEW c, NEW g, StackInv(st, d, c, g), Len(st) = 1 \/ Base(Last(st), d)
    PROVE  Solid(st, d)
  <1> DEFINE n == Len(st)
  <1>1. n \in Nat \ {0} /\ Last(st) = st[n] /\ IsStack(st) /\ IsList(st[1])
    BY OnTop DEF StackInv
  <1>2. \A i \in 2..(n - 1) : Base(st[i], d) \/ (i = n - 1 /\ Covered(st[i], st[i + 1], d))
    BY DEF StackInv
  <1>3. n = 1 \/ Base(st[n], d)
    BY <1>1
  <1>4. Len(st) = n
    OBVIOUS
  <1> HIDE DEF n
  <1>5. n > 1 => ~Covered(st[n - 1], st[n], d)
    BY <1>3, BaseKind, CoveredKind DEF BaseKinds
  <1>6. \A i \in 2..n : Base(st[i], d)
    BY <1>1, <1>2, <1>3, <1>5
  <1>7. QED
    BY <1>1, <1>4, <1>6 DEF Solid

\* So has a modal that may change the database, once it is gone.
LEMMA SolidPop ==
    ASSUME NEW st, NEW d, NEW c, NEW g, StackInv(st, d, c, g), Len(st) > 1,
           Last(st).kind \notin {"Builder", "FkPick", "Xhci"},
           Last(st).kind = "Confirm" => Last(st).action.op # "CreateOs"
    PROVE  Solid(Pop(st), d)
  <1> DEFINE n == Len(st)
  <1>1. n \in Nat \ {0} /\ n > 1 /\ Last(st) = st[n]
    BY OnTop
  <1>2. StackInv(Pop(st), d, c, g) /\ Len(Pop(st)) = n - 1 /\ Last(Pop(st)) = st[n - 1]
    BY StackPop
  <1>3. \A i \in 2..(n - 1) : Base(st[i], d) \/ (i = n - 1 /\ Covered(st[i], st[i + 1], d))
    BY DEF StackInv
  <1> HIDE DEF n
  <1>4. n > 2 => Base(st[n - 1], d)
    <2>1. n > 2 => n - 1 \in 2..(n - 1) /\ st[n - 1 + 1] = st[n]
      BY <1>1
    <2>2. ~Covered(st[n - 1], st[n], d)
      BY <1>1, CoveredKind
    <2>3. QED
      BY <1>3, <2>1, <2>2
  <1>5. Len(Pop(st)) = 1 \/ Base(Last(Pop(st)), d)
    BY <1>1, <1>2, <1>4
  <1>6. QED
    BY <1>2, <1>5, SolidBase

\* A stack of base screens is a stack.
LEMMA SolidStack ==
    ASSUME NEW st, NEW d, NEW c, NEW g, Solid(st, d)
    PROVE  StackInv(st, d, c, g) /\ (Len(st) = 1 \/ Base(Last(st), d))
  <1>1. StackInv(st, d, c, g)
    BY StackBasics DEF Solid, StackInv, TopOk
  <1>2. Len(st) = 1 \/ Base(Last(st), d)
    BY StackBasics DEF Solid, Last
  <1>3. QED
    BY <1>1, <1>2

\* Base screens only name tables.
LEMMA SolidKept ==
    ASSUME NEW st, NEW d, NEW e, NEW c, NEW g, Solid(st, d), DOMAIN d \subseteq DOMAIN e
    PROVE  Solid(st, e) /\ StackInv(st, e, c, g)
  <1>1. ASSUME NEW s, Base(s, d) PROVE Base(s, e)
    <2>1. IsBrowser(s, d) => IsBrowser(s, e)
      BY DEF IsBrowser
    <2>2. IsRowView(s, d) => IsRowView(s, e)
      BY DEF IsRowView
    <2>3. IsSchema(s, d) => IsSchema(s, e)
      BY DEF IsSchema
    <2>4. IsRefCols(s, d) => IsRefCols(s, e)
      BY DEF IsRefCols
    <2>5. QED
      BY <1>1, <2>1, <2>2, <2>3, <2>4 DEF Base
  <1>2. Solid(st, e)
    BY <1>1 DEF Solid
  <1>3. QED
    BY <1>2, SolidStack

\* What is left of a stack that is popped down to the list.
LEMMA ListAlone ==
    ASSUME NEW st, NEW d, NEW c, NEW g, StackInv(st, d, c, g), NEW e, NEW c2, NEW g2
    PROVE  StackInv(PopToList(st), e, c2, g2) /\ Len(PopToList(st)) = 1
  <1> DEFINE n == Len(st)
  <1>1. n \in Nat \ {0} /\ IsStack(st) /\ IsList(st[1]) /\ st[1].kind = "List"
    BY OnTop DEF StackInv, IsList
  <1>2. ASSUME NEW i \in 2..n PROVE st[i].kind # "List"
    <2>1. CASE i = n
      BY <1>1, <2>1, OnTop
    <2>2. CASE i # n
      <3>1. i \in 2..(n - 1)
        BY <1>1, <2>2
      <3>2. Base(st[i], d) \/ Covered(st[i], st[i + 1], d)
        BY <3>1 DEF StackInv
      <3>3. QED
        BY <3>2, BaseKind, CoveredKind DEF BaseKinds
    <2>3. QED
      BY <2>1, <2>2
  <1>3. PopToList(st) = <<st[1]>>
    BY <1>1, <1>2, LastOne
  <1> DEFINE x == st[1]
  <1> HIDE DEF x
  <1>4. IsList(x) => StackInv(<<x>>, e, c2, g2) /\ Len(<<x>>) = 1
    BY DEF StackInv, IsStack
  <1>5. QED
    BY <1>1, <1>3, <1>4 DEF x

-----------------------------------------------------------------------------
(* The order of a Browser's rows *)

\* Cells of one column are NULL or of one type, and so compare by their second
\* component; ties go by the id.
LEMMA BeforeOrders ==
    ASSUME NEW T, Sound(T), NEW sort
    PROVE  /\ \A r \in DOMAIN T.rows : ~Before(T, sort, r, r)
           /\ \A r, q \in DOMAIN T.rows : r = q \/ Before(T, sort, r, q) \/ Before(T, sort, q, r)
           /\ \A r, q, p \in DOMAIN T.rows :
                Before(T, sort, r, q) /\ Before(T, sort, q, p) => Before(T, sort, r, p)
  <1> DEFINE D == DOMAIN T.rows
             k(id) == IF sort = None \/ sort[1] \notin DOMAIN T.rows[id] THEN Null
                      ELSE T.rows[id][sort[1]]
             up == sort[2]
             v(id) == k(id)[2]
  <1>1. \A r, q : Before(T, sort, r, q) <=>
            IF k(r) = k(q) THEN r < q
            ELSE IF k(r) = Null \/ k(q) = Null THEN k(q) = Null
            ELSE IF up THEN v(r) < v(q) ELSE v(q) < v(r)
    BY DEF Before
  <1>2. D \subseteq Nat
    BY DEF Sound, IsTable
  <1>3. ASSUME NEW r \in D, k(r) # Null
        PROVE  v(r) \in Int
    <2>1. k(r) \in Cell
      BY <1>3 DEF Sound, IsTable
    <2>2. k(r) \in Type \X Num
      BY <1>3, <2>1 DEF Cell, Value
    <2>3. QED
      BY <2>2, UiAssumption
  <1>4. ASSUME NEW r \in D, NEW q \in D, k(r) # Null, k(q) # Null, v(r) = v(q)
        PROVE  k(r) = k(q)
    <2> DEFINE i == sort[1]
    <2>1. T.rows[r] \in Seq(Cell) /\ T.rows[q] \in Seq(Cell)
      BY DEF Sound, IsTable
    <2>2. i \in DOMAIN T.rows[r] /\ i \in DOMAIN T.rows[q] /\ k(r) = T.rows[r][i] /\ k(q) = T.rows[q][i]
      BY <1>4
    <2>3. i \in DOMAIN T.columns
      <3>1. Len(T.rows[r]) = Len(T.columns) /\ T.columns \in Seq(Column)
        BY DEF Sound, DataOk, IsTable
      <3>2. DOMAIN T.rows[r] = 1..Len(T.rows[r]) /\ DOMAIN T.columns = 1..Len(T.columns)
        BY <2>1, <3>1
      <3>3. QED
        BY <2>2, <3>1, <3>2
    <2>4. k(r) \in Type \X Num /\ k(q) \in Type \X Num
      BY <1>4, <2>1, <2>2 DEF Cell, Value
    <2>5. CellFits(T.columns[i], k(r)) /\ CellFits(T.columns[i], k(q))
      BY <2>2, <2>3 DEF Sound, DataOk
    <2> HIDE DEF k
    <2>6. k(r)[1] = k(q)[1]
      BY <1>4, <2>5 DEF CellFits
    <2>7. k(r)[2] = k(q)[2]
      BY <1>4
    <2>8. QED
      BY <2>4, <2>6, <2>7
  <1> HIDE DEF k, v, up, D
  <1>5. \A r \in D : ~Before(T, sort, r, r)
    BY <1>1, <1>2
  <1>6. \A r, q \in D : r = q \/ Before(T, sort, r, q) \/ Before(T, sort, q, r)
    BY <1>1, <1>2, <1>3, <1>4
  <1>7. ASSUME NEW r \in D, NEW q \in D, NEW p \in D,
               Before(T, sort, r, q), Before(T, sort, q, p)
        PROVE  Before(T, sort, r, p)
    <2>1. r \in Nat /\ q \in Nat /\ p \in Nat
      BY <1>2
    <2>2. CASE k(r) = k(q)
      <3>1. r < q /\ v(r) = v(q)
        BY <1>1, <1>7, <2>2 DEF v
      <3>2. CASE k(q) = k(p)
        <4>1. q < p
          BY <1>1, <1>7, <3>2
        <4>2. r < p
          BY <2>1, <3>1, <4>1
        <4>3. QED
          BY <1>1, <2>2, <3>2, <4>2
      <3>3. CASE k(q) # k(p)
        <4>1. IF k(r) = Null \/ k(p) = Null THEN k(p) = Null
              ELSE IF up THEN v(r) < v(p) ELSE v(p) < v(r)
          BY <1>1, <1>7, <2>2, <3>1, <3>3
        <4>2. QED
          BY <1>1, <2>2, <3>3, <4>1
      <3>4. QED
        BY <3>2, <3>3
    <2>3. CASE k(r) # k(q) /\ k(q) = k(p)
      <3>1. v(q) = v(p)
        BY <2>3 DEF v
      <3>2. IF k(r) = Null \/ k(p) = Null THEN k(p) = Null
            ELSE IF up THEN v(r) < v(p) ELSE v(p) < v(r)
        BY <1>1, <1>7, <2>3, <3>1
      <3>3. QED
        BY <1>1, <2>3, <3>2
    <2>4. CASE k(r) # k(q) /\ k(q) # k(p)
      <3>1. k(r) # Null /\ k(q) # Null
        BY <1>1, <1>7, <2>4
      <3>2. CASE k(p) = Null
        BY <1>1, <3>1, <3>2
      <3>3. CASE k(p) # Null
        <4>1. v(r) \in Int /\ v(q) \in Int /\ v(p) \in Int
          BY <1>3, <3>1, <3>3
        <4>2. IF up THEN v(r) < v(q) /\ v(q) < v(p) ELSE v(q) < v(r) /\ v(p) < v(q)
          BY <1>1, <1>7, <2>4, <3>1, <3>3
        <4>3. IF up THEN v(r) < v(p) ELSE v(p) < v(r)
          BY <4>1, <4>2
        <4>4. v(r) # v(p)
          BY <4>1, <4>3
        <4>5. k(r) # k(p)
          BY <4>4 DEF v
        <4>6. QED
          BY <1>1, <3>1, <3>3, <4>3, <4>5
      <3>4. QED
        BY <3>2, <3>3
    <2>5. QED
      BY <2>2, <2>3, <2>4
  <1>8. QED
    BY <1>5, <1>6, <1>7 DEF D

\* `Listed` has every row the filter lets through and no other, each once.
LEMMA RowsListed ==
    ASSUME NEW T, Sound(T), NEW filter, NEW sort
    PROVE  /\ Listed(T, filter, sort) \in Seq(Kept(T, filter))
           /\ Len(Listed(T, filter, sort)) = Cardinality(Kept(T, filter))
           /\ \A id \in Kept(T, filter) : \E i \in DOMAIN Listed(T, filter, sort) :
                Listed(T, filter, sort)[i] = id
  <1> DEFINE K == Kept(T, filter)
             N == Cardinality(K)
             R == {x \in K \X K : Before(T, sort, x[1], x[2])}
             below(id) == {q \in K : Before(T, sort, q, id)}
             ranked(id) == {q \in K : <<q, id>> \in R}
             L == Listed(T, filter, sort)
  <1>1. K \subseteq DOMAIN T.rows
    BY DEF Kept
  <1>2. IsFiniteSet(K)
    <2>1. IsFiniteSet(DOMAIN T.rows)
      BY RowsFinite DEF Sound
    <2>2. QED
      BY <1>1, <2>1, FS_Subset
  <1> HIDE DEF K
  <1>3. \A r, q \in K : <<r, q>> \in R <=> Before(T, sort, r, q)
    OBVIOUS
  <1>4. /\ \A r \in DOMAIN T.rows : ~Before(T, sort, r, r)
        /\ \A r, q \in DOMAIN T.rows : r = q \/ Before(T, sort, r, q) \/ Before(T, sort, q, r)
        /\ \A r, q, p \in DOMAIN T.rows :
             Before(T, sort, r, q) /\ Before(T, sort, q, p) => Before(T, sort, r, p)
    BY BeforeOrders
  <1>5. \A id \in K : ranked(id) = below(id)
    BY <1>3
  <1>6. L = [n \in 1..N |-> CHOOSE id \in K : Cardinality(below(id)) = n - 1]
    BY DEF Listed, K
  <1> HIDE DEF R
  <1>7. /\ \A x \in K : <<x, x>> \notin R
        /\ \A x, y \in K : x = y \/ <<x, y>> \in R \/ <<y, x>> \in R
        /\ \A x, y, z \in K : <<x, y>> \in R /\ <<y, z>> \in R => <<x, z>> \in R
    BY <1>1, <1>3, <1>4
  <1>8. /\ N \in Nat
        /\ \A x \in K : Cardinality(below(x)) \in 0..(N - 1)
        /\ \A n \in 0..(N - 1) : \E x \in K : Cardinality(below(x)) = n
        /\ \A x, z \in K : Cardinality(below(x)) = Cardinality(below(z)) => x = z
    <2>1. /\ N \in Nat
          /\ \A x \in K : Cardinality(ranked(x)) \in 0..(N - 1)
          /\ \A n \in 0..(N - 1) : \E x \in K : Cardinality(ranked(x)) = n
          /\ \A x, z \in K : Cardinality(ranked(x)) = Cardinality(ranked(z)) => x = z
      BY <1>2, <1>7, Ranked
    <2> HIDE DEF ranked, below, N
    <2>2. QED
      BY <1>5, <2>1
  <1> HIDE DEF below, L, N
  <1>9. ASSUME NEW n \in 1..N
        PROVE  L[n] \in K /\ Cardinality(below(L[n])) = n - 1
    <2>1. n - 1 \in 0..(N - 1)
      BY <1>8
    <2>2. PICK x \in K : Cardinality(below(x)) = n - 1
      BY <1>8, <2>1
    <2>3. L[n] = CHOOSE id \in K : Cardinality(below(id)) = n - 1
      BY <1>6
    <2>4. QED
      BY <2>2, <2>3
  <1>10. L \in [1..N -> K]
    BY <1>6, <1>9
  <1>11. L \in Seq(K) /\ Len(L) = N /\ DOMAIN L = 1..N
    BY <1>8, <1>10
  <1>12. ASSUME NEW id \in K
         PROVE  \E i \in DOMAIN L : L[i] = id
    <2> DEFINE n == Cardinality(below(id)) + 1
    <2>1. n \in 1..N /\ n - 1 = Cardinality(below(id))
      BY <1>8
    <2>2. L[n] \in K /\ Cardinality(below(L[n])) = Cardinality(below(id))
      BY <1>9, <2>1
    <2>3. L[n] = id
      BY <1>8, <2>2
    <2>4. QED
      BY <1>11, <2>1, <2>3
  <1>13. QED
    BY <1>11, <1>12 DEF L, K, N

-----------------------------------------------------------------------------
(* What the screens read from the store *)

\* The elements of a set listed in some order.
LEMMA SetToSeqElements ==
    ASSUME NEW A, IsFiniteSet(A)
    PROVE  /\ SetToSeq(A) \in Seq(A) /\ Len(SetToSeq(A)) = Cardinality(A)
           /\ A # {} => SetToSeq(A) # <<>>
  <1> DEFINE n == Cardinality(A)
             f == SetToSeq(A)
  <1>1. n \in Nat /\ \E g : g \in Bijection(1..n, A)
    BY FS_CardinalityType DEF ExistsBijection
  <1>2. \E g \in [1..n -> A] : IsInjective(g)
    BY <1>1 DEF Bijection, Injection
  <1>3. f \in [1..n -> A]
    BY <1>2 DEF SetToSeq
  <1>4. A # {} => n # 0
    BY FS_EmptySet
  <1> HIDE DEF n, f
  <1>5. f \in Seq(A) /\ Len(f) = n /\ (A # {} => f # <<>>)
    BY <1>1, <1>3, <1>4
  <1>6. QED
    BY <1>5 DEF f, n

\* A list, or none when it could not be read.
LEMMA ReadList ==
    ASSUME NEW A, NEW s \in Seq(A), NEW r \in Read(s, {<<>>})
    PROVE  r \in Seq(A) /\ Len(r) \in Nat
  <1>1. r = s \/ r = <<>>
    BY DEF Read
  <1>2. <<>> \in Seq(A) /\ Len(<<>>) \in Nat /\ Len(s) \in Nat
    OBVIOUS
  <1>3. QED
    BY <1>1, <1>2, Zenon

\* The image of a finite set is finite.
LEMMA ImageFinite ==
    ASSUME NEW A, IsFiniteSet(A), NEW f, DOMAIN f = A
    PROVE  IsFiniteSet({f[x] : x \in A})
  <1> DEFINE B == {f[x] : x \in A}
             g == [x \in A |-> f[x]]
  <1>1. g \in Surjection(A, B)
    BY DEF Surjection
  <1> HIDE DEF B, g
  <1>2. IsFiniteSet(B)
    BY <1>1, FS_Surjection
  <1>3. QED
    BY <1>2 DEF B

\* A sequence has finitely many elements.
LEMMA SeqFinite ==
    ASSUME NEW A, NEW s \in Seq(A)
    PROVE  IsFiniteSet(ToSet(s))
  <1>1. Len(s) \in Nat /\ DOMAIN s = 1..Len(s)
    OBVIOUS
  <1>2. IsFiniteSet(1..Len(s))
    BY <1>1, FS_Interval
  <1>3. QED
    BY <1>1, <1>2, ImageFinite DEF ToSet

\* sel.min(n.saturating_sub(1)) is an item of the list.
LEMMA ClampRange ==
    ASSUME NEW sel \in Nat, NEW n \in Nat
    PROVE  Clamp(sel, n) \in Nat /\ (n > 0 => Clamp(sel, n) < n) /\ (n = 0 => Clamp(sel, n) = 0)
  BY DEF Clamp

\* The arrow and page keys stay in the list.
LEMMA MoveRange ==
    ASSUME NEW k, NEW sel \in Nat, NEW n \in Nat
    PROVE  Move(k, sel, n) \in Nat /\ (n > 0 /\ sel < n => Move(k, sel, n) < n)
  <1>1. Page \in Nat
    BY UiAssumption
  <1>2. Clamp(sel + Page, n) \in Nat /\ (n > 0 => Clamp(sel + Page, n) < n)
    BY <1>1 DEF Clamp
  <1>3. CASE k = "Up" /\ sel > 0
    BY <1>3 DEF Move
  <1>4. CASE k = "Down" /\ sel + 1 < n
    BY <1>4 DEF Move
  <1>5. CASE k = "PgUp"
    BY <1>1, <1>5 DEF Move
  <1>6. CASE k = "PgDn"
    BY <1>2, <1>6 DEF Move
  <1>7. CASE ~(k = "Up" /\ sel > 0) /\ ~(k = "Down" /\ sel + 1 < n) /\ k # "PgUp" /\ k # "PgDn"
    BY <1>7 DEF Move
  <1>8. QED
    BY <1>3, <1>4, <1>5, <1>6, <1>7

\* What the clean store says about a table a screen is open on.
LEMMA TableFacts ==
    ASSUME NEW d, Good(d), NEW t \in DOMAIN d
    PROVE  /\ Sound(d[t]) /\ t # Null /\ t \in TableName /\ IsFiniteSet(DOMAIN d)
           /\ d[t].columns \in Seq(Column) /\ d[t].fks \in Seq(ForeignKey)
           /\ d[t].ref_cols \in Seq(ColName)
           /\ DOMAIN d[t].columns = 1..Len(d[t].columns) /\ Len(d[t].columns) \in Nat
           /\ Names(d[t]) \subseteq ColName
           /\ \A i \in DOMAIN d[t].columns : d[t].columns[i].name \in Names(d[t])
           /\ DOMAIN d[t].rows \subseteq 1..MaxSlots
           /\ \A i \in DOMAIN d[t].fks : d[t].fks[i].to_table \in DOMAIN d
  <1>1. Sound(d[t]) /\ IsTable(d[t]) /\ t \in TableName /\ IsFiniteSet(DOMAIN d)
    BY DEF Good, Shape, Sound
  <1>2. t # Null
    BY <1>1, UiAssumption
  <1>3. /\ d[t].columns \in Seq(Column) /\ d[t].fks \in Seq(ForeignKey)
        /\ d[t].ref_cols \in Seq(ColName)
        /\ DOMAIN d[t].columns = 1..Len(d[t].columns) /\ Len(d[t].columns) \in Nat
        /\ DOMAIN d[t].rows \subseteq 1..d[t].slots /\ d[t].slots \in 0..MaxSlots
    BY <1>1 DEF IsTable
  <1>4. DOMAIN d[t].rows \subseteq 1..MaxSlots
    BY <1>3, RelationalAssumption
  <1>5. ASSUME NEW i \in DOMAIN d[t].columns PROVE d[t].columns[i].name \in ColName
    <2>1. d[t].columns[i] \in Column
      BY <1>3
    <2>2. QED
      BY <2>1 DEF Column
  <1>6. /\ Names(d[t]) \subseteq ColName
        /\ \A i \in DOMAIN d[t].columns : d[t].columns[i].name \in Names(d[t])
    BY <1>5 DEF Names
  <1>7. \A i \in DOMAIN d[t].fks : d[t].fks[i].to_table \in DOMAIN d
    BY DEF Good, KeyOk
  <1>8. QED
    BY <1>1, <1>2, <1>3, <1>4, <1>6, <1>7

\* Every target of a Row View is a table that exists.
LEMMA NavTargets ==
    ASSUME Good(db), NEW t \in DOMAIN db, NEW id
    PROVE  \E N : nav_targets(t, id) \subseteq Seq(N) /\ \A x \in N : x[1] \in DOMAIN db
  <1>1. CASE id \notin DOMAIN db[t].rows
    <2>1. nav_targets(t, id) \subseteq Seq({})
      BY <1>1 DEF nav_targets
    <2>2. QED
      BY <2>1
  <1>2. CASE id \in DOMAIN db[t].rows
    <2> DEFINE F == {f \in ToSet(db[t].fks) : CellOf(db[t], id, f.from_col) # Null}
               g == [f \in F |-> <<f.to_table, f.to_col, CellOf(db[t], id, f.from_col)>>]
               Q == referencing_rows(t, id)
               h == [r \in Q |-> <<r[1], r[2].from_col, CellOf(db[t], id, r[2].to_col)>>]
               out == {<<f.to_table, f.to_col, CellOf(db[t], id, f.from_col)>> : f \in F}
               into == {<<r[1], r[2].from_col, CellOf(db[t], id, r[2].to_col)>> : r \in Q}
    <2>1. ASSUME NEW x \in nav_targets(t, id)
          PROVE  \E o \in Read(out, {{}}), i \in Read(into, SUBSET into) :
                    x = SetToSeq(o) \o SetToSeq(i)
      <3> DEFINE A == Read(Outgoing(t, id), {{}})
                 B == Read(Incoming(t, id), SUBSET Incoming(t, id))
      <3>1. x \in Listings(A, B)
        BY <1>2, Zenon DEF nav_targets
      <3>2. A = Read(out, {{}}) /\ B = Read(into, SUBSET into)
        BY Zenon DEF Outgoing, Incoming
      <3> HIDE DEF A, B
      <3>3. \E o \in A, i \in B : x = SetToSeq(o) \o SetToSeq(i)
        BY <3>1 DEF Listings
      <3>4. QED
        BY <3>2, <3>3, Zenon
    <2>2. IsFiniteSet(F)
      <3>1. IsFiniteSet(ToSet(db[t].fks))
        BY TableFacts, SeqFinite
      <3>2. QED
        BY <3>1, FS_Subset
    <2>3. \A x \in out : x[1] \in DOMAIN db
      <3>1. \A f \in F : f.to_table \in DOMAIN db
        BY TableFacts DEF ToSet
      <3> HIDE DEF F
      <3>2. QED
        BY <3>1
    <2>4. IsFiniteSet(Q) /\ \A r \in Q : r[1] \in DOMAIN db
      <3> DEFINE D == DOMAIN db
                 K == UNION {ToSet(db[o].fks) : o \in D}
                 W == 1..MaxSlots
                 J == (D \X K) \X W
                 e == [x \in J |-> <<x[1][1], x[1][2], x[2]>>]
                 E == {e[x] : x \in J}
      <3>1. IsFiniteSet(D)
        BY TableFacts
      <3>2. IsFiniteSet(K)
        <4> DEFINE fk == [o \in D |-> ToSet(db[o].fks)]
        <4>1. IsFiniteSet({fk[o] : o \in D})
          BY <3>1, ImageFinite
        <4>2. \A o \in D : IsFiniteSet(fk[o])
          BY TableFacts, SeqFinite
        <4>3. K = UNION {fk[o] : o \in D}
          OBVIOUS
        <4> HIDE DEF fk, K
        <4>4. QED
          BY <4>1, <4>2, <4>3, FS_UNION
      <3>3. IsFiniteSet(W)
        BY RelationalAssumption, FS_Interval
      <3> HIDE DEF K, W
      <3>4. IsFiniteSet(J)
        BY <3>1, <3>2, <3>3, FS_Product
      <3>5. IsFiniteSet(E)
        <4>1. DOMAIN e = J
          OBVIOUS
        <4> HIDE DEF e, J
        <4>2. QED
          BY <3>4, <4>1, ImageFinite
      <3>6. ASSUME NEW o \in D, NEW f \in ToSet(db[o].fks), NEW r \in DOMAIN db[o].rows
            PROVE  <<o, f, r>> \in E
        <4>1. f \in K
          BY DEF K
        <4>2. r \in W
          BY TableFacts DEF W
        <4>3. <<<<o, f>>, r>> \in J
          BY <4>1, <4>2
        <4>4. e[<<<<o, f>>, r>>] = <<o, f, r>>
          BY <4>3
        <4>5. QED
          BY <4>3, <4>4
      <3>7. \A q \in Q : \E o \in D : \E f \in ToSet(db[o].fks) : \E r \in DOMAIN db[o].rows :
                q = <<o, f, r>>
        BY DEF referencing_rows
      <3> HIDE DEF Q, E, D
      <3>8. Q \subseteq E /\ \A r \in Q : r[1] \in D
        BY <3>6, <3>7
      <3>9. QED
        BY <3>5, <3>8, FS_Subset DEF D
    <2>5. \A x \in into : x[1] \in DOMAIN db
      <3> HIDE DEF Q
      <3>1. QED
        BY <2>4
    <2>6. IsFiniteSet(out)
      <3> HIDE DEF F
      <3>1. out = {g[f] : f \in F}
        OBVIOUS
      <3>2. DOMAIN g = F
        OBVIOUS
      <3> HIDE DEF out, g
      <3>3. QED
        BY <2>2, <3>1, <3>2, ImageFinite
    <2>7. IsFiniteSet(into)
      <3> HIDE DEF Q
      <3>1. into = {h[r] : r \in Q}
        OBVIOUS
      <3>2. DOMAIN h = Q
        OBVIOUS
      <3> HIDE DEF into, h
      <3>3. QED
        BY <2>4, <3>1, <3>2, ImageFinite
    <2> DEFINE N == out \cup into
    <2> HIDE DEF out, into
    <2>8. nav_targets(t, id) \subseteq Seq(N)
      <3> SUFFICES ASSUME NEW o \in Read(out, {{}}), NEW i \in Read(into, SUBSET into)
                   PROVE  SetToSeq(o) \o SetToSeq(i) \in Seq(N)
        BY <2>1, Zenon
      <3>1. o \subseteq out /\ i \subseteq into
        BY DEF Read
      <3>2. IsFiniteSet(o) /\ IsFiniteSet(i)
        BY <2>6, <2>7, <3>1, FS_Subset
      <3>3. SetToSeq(o) \in Seq(o) /\ SetToSeq(i) \in Seq(i)
        BY <3>2, SetToSeqElements
      <3> DEFINE p == SetToSeq(o)
                 q == SetToSeq(i)
      <3>4. p \in Seq(N) /\ q \in Seq(N)
        BY <3>1, <3>3
      <3> HIDE DEF p, q, N
      <3>5. p \o q \in Seq(N)
        BY <3>4
      <3>6. QED
        BY <3>5 DEF p, q
    <2>9. \A x \in N : x[1] \in DOMAIN db
      BY <2>3, <2>5
    <2>10. QED
      BY <2>8, <2>9
  <1>3. QED
    BY <1>1, <1>2

\* The columns the pick lists offer are columns of the table.
LEMMA UniqueColumns ==
    ASSUME Good(db), NEW t \in DOMAIN db
    PROVE  UniqueCols(t) \in Seq(Names(db[t])) /\ ColNames(t) \in Seq(Names(db[t]))
  <1> DEFINE s == ColNames(t)
             kept == {i \in DOMAIN db[t].columns : db[t].columns[i].unique}
             n == Len(db[t].columns)
  <1>1. n \in Nat /\ DOMAIN db[t].columns = 1..n
    BY TableFacts
  <1>2. \A i \in 1..n : db[t].columns[i].name \in Names(db[t])
    BY <1>1, TableFacts
  <1> HIDE DEF n
  <1>3. s \in Seq(Names(db[t])) /\ Len(s) = n
    BY <1>1, <1>2 DEF ColNames
  <1>4. kept \in SUBSET (1..Len(s))
    BY <1>1, <1>3
  <1>5. UniqueCols(t) = Retained(s, kept)
    BY DEF UniqueCols
  <1> HIDE DEF s, kept
  <1>6. Retained(s, kept) \in Seq(Names(db[t]))
    BY <1>3, <1>4, RetainedElements
  <1>7. QED
    BY <1>3, <1>5, <1>6 DEF s

-----------------------------------------------------------------------------
(* The invariant and what a handler does to it *)

\* What `rows` makes of table T, whether the reads succeeded (ok) or not.
Shown(T, filter, sort, ids, ok) ==
    ids \in IF ok THEN {Listed(T, filter, sort)} ELSE Defaults(T, filter, sort)

\* An entry that would be found again is the table's rows, or what was shown for
\* those that could not be read.
CacheOk(c, d, g) ==
    /\ c.gen \in Nat /\ c.gen <= g
    /\ c.table # Null /\ c.gen = g =>
         c.table \in DOMAIN d /\ Shown(d[c.table], c.filter, c.sort, c.rows, c.ok)

RestOk(d, g, c, p, i) ==
    /\ Good(d) /\ g \in 0..MaxGen /\ CacheOk(c, d, g) /\ i \subseteq Drive
    /\ p \in {"on", "off", "panic"}

\* The lines of a painted frame count from 0.
LinesNat(hits) == hits.focus \subseteq Nat /\ hits.activate \subseteq Nat

\* The inductive invariant.
UiInv ==
    /\ RestOk(db, gen, cache, power, installed)
    /\ StackInv(stack, db, cache, gen) /\ Len(stack) <= MaxDepth
    /\ LinesNat(hitmap)

Running == RestOk(db, gen, cache, power, installed) /\ power = "on"

After ==
    /\ RestOk(db', gen', cache', power', installed')
    /\ StackInv(stack', db', cache', gen') /\ Len(stack') <= MaxDepth

\* No table, column or row is gone, no drive overwritten, the power on.
NothingLost ==
    \A t \in DOMAIN db :
        /\ t \in DOMAIN db'
        /\ Len(db'[t].columns) >= Len(db[t].columns)
        /\ DOMAIN db[t].rows \subseteq DOMAIN db'[t].rows

Harmless == NothingLost /\ installed' = installed /\ power' # "off"

\* A handler that only changes the stack.
LEMMA GotoKeeps ==
    ASSUME Running, NEW st, StackInv(st, db, cache, gen), Goto(st)
    PROVE  After /\ Harmless
  <1>1. /\ db' = db /\ gen' = gen /\ cache' = cache /\ power' = power /\ installed' = installed
        /\ stack' = st /\ Len(st) <= MaxDepth
    BY DEF Goto, NoCommit
  <1>2. NothingLost
    <2>1. \A t \in DOMAIN db : Len(db[t].columns) \in Nat
      BY TableFacts DEF Running, RestOk
    <2>2. QED
      BY <1>1, <2>1 DEF NothingLost
  <1>3. QED
    BY <1>1, <1>2 DEF Running, After, Harmless

\* A committed operation of the store, with the stack it leaves.
LEMMA CommittedStack ==
    ASSUME Running, NEW st, StackInv(st, db', cache', gen'), Len(st) <= MaxDepth,
           Good(db'), Committed, stack' = st
    PROVE  After /\ installed' = installed /\ power' = "on"
  <1>1. gen < MaxGen /\ gen' = gen + 1 /\ cache' = cache /\ power' = power /\ installed' = installed
    BY DEF Committed
  <1>2. gen \in Nat /\ MaxGen \in Nat /\ gen + 1 \in 0..MaxGen
    BY <1>1, UiAssumption DEF Running, RestOk
  <1>3. CacheOk(cache, db', gen + 1)
    BY <1>2 DEF Running, RestOk, CacheOk
  <1>4. QED
    BY <1>1, <1>2, <1>3 DEF Running, RestOk, After

\* A committed operation under base screens, which stay open.
LEMMA CommitKeeps ==
    ASSUME Running, NEW st, Solid(st, db), Len(st) <= MaxDepth,
           Good(db'), NothingLost, Committed, stack' = st
    PROVE  After /\ Harmless
  <1>1. StackInv(st, db', cache', gen')
    BY SolidKept DEF NothingLost
  <1>2. QED
    BY <1>1, CommittedStack DEF Harmless

-----------------------------------------------------------------------------
(* The store operations the screens call *)

\* A step that changes one table.
LEMMA OneTableChanged ==
    ASSUME Good(db), NEW t \in DOMAIN db, NEW T2, db' = [db EXCEPT ![t] = T2],
           Len(T2.columns) >= Len(db[t].columns), DOMAIN db[t].rows \subseteq DOMAIN T2.rows
    PROVE  NothingLost
  <1>1. \A u \in DOMAIN db : Len(db[u].columns) \in Nat
    BY TableFacts
  <1>2. QED
    BY <1>1 DEF NothingLost

\* ... and keeps the number of its columns.
LEMMA OneTableKept ==
    ASSUME Good(db), NEW t \in DOMAIN db, NEW T2, db' = [db EXCEPT ![t] = T2],
           Len(T2.columns) = Len(db[t].columns), DOMAIN db[t].rows \subseteq DOMAIN T2.rows
    PROVE  NothingLost
  <1>1. Len(T2.columns) >= Len(db[t].columns)
    BY TableFacts
  <1>2. QED
    BY <1>1, OneTableChanged

\* create_table loses nothing.
LEMMA CreateTableCall ==
    ASSUME Good(db), NEW t \in TableName, create_table(t)
    PROVE  Good(db') /\ NothingLost /\ t \in DOMAIN db'
  <1>1. Good(db')
    BY CreateTableKeeps
  <1>2. \A u \in DOMAIN db : u \in DOMAIN db' /\ db'[u] = db[u]
    BY DEF create_table
  <1>3. \A u \in DOMAIN db : Len(db[u].columns) \in Nat
    BY TableFacts
  <1>4. t \in DOMAIN db'
    BY DEF create_table
  <1>5. QED
    BY <1>1, <1>2, <1>3, <1>4 DEF NothingLost

\* add_column loses nothing.
LEMMA AddColumnCall ==
    ASSUME Good(db), NEW t \in DOMAIN db, NEW c \in Column, add_column(t, c)
    PROVE  Good(db') /\ NothingLost
  <1> DEFINE T2 == [db[t] EXCEPT !.columns = Append(db[t].columns, c), !.rows = Widened(t)]
  <1>1. Good(db')
    BY AddColumnKeeps
  <1>2. db' = [db EXCEPT ![t] = T2]
    BY DEF add_column, PutSchema
  <1>3. IsTable(db[t]) /\ db[t].columns \in Seq(Column) /\ Len(db[t].columns) \in Nat
    BY TableFacts DEF Sound
  <1>4. T2.columns = Append(db[t].columns, c) /\ T2.rows = Widened(t)
    BY <1>3 DEF IsTable
  <1>5. Len(T2.columns) >= Len(db[t].columns)
    <2>1. Len(Append(db[t].columns, c)) = Len(db[t].columns) + 1
      BY <1>3
    <2>2. QED
      BY <1>3, <1>4, <2>1
  <1>6. DOMAIN db[t].rows \subseteq DOMAIN T2.rows
    BY <1>4 DEF Widened
  <1> HIDE DEF T2
  <1>7. QED
    BY <1>1, <1>2, <1>5, <1>6, OneTableChanged

\* move_column loses nothing.
LEMMA MoveColumnCall ==
    ASSUME Good(db), NEW t \in DOMAIN db, NEW c \in ColName, NEW to \in Nat, move_column(t, c, to)
    PROVE  Good(db') /\ NothingLost
  <1> DEFINE from == column_index(db[t], c)
             cols == Moved(db[t].columns, from, to)
             new == [id \in DOMAIN db[t].rows |-> Moved(db[t].rows[id], from, to)]
             T2 == [db[t] EXCEPT !.columns = cols, !.rows = new]
  <1>1. Good(db')
    BY MoveColumnKeeps
  <1>2. db' = [db EXCEPT ![t] = T2]
    BY DEF move_column, PutSchema
  <1>3. IsTable(db[t]) /\ db[t].columns \in Seq(Column) /\ Len(db[t].columns) \in Nat
    BY TableFacts DEF Sound
  <1>4. from \in DOMAIN db[t].columns /\ to \in DOMAIN db[t].columns
    <2>1. NamesDiffer(db[t].columns) /\ c \in Names(db[t]) /\ to \in DOMAIN db[t].columns
      BY TableFacts DEF Sound, move_column
    <2>2. QED
      BY <1>3, <2>1, LookedUp
  <1>5. DOMAIN new = DOMAIN db[t].rows
    OBVIOUS
  <1>6. Len(cols) = Len(db[t].columns)
    <2> DEFINE s == db[t].columns
    <2>1. s \in Seq(Column) /\ from \in 1..Len(s) /\ to \in 1..Len(s)
      BY <1>3, <1>4
    <2> HIDE DEF s, from
    <2>2. Len(Moved(s, from, to)) = Len(s)
      BY <2>1, MovedElements
    <2>3. QED
      BY <2>2 DEF s
  <1> HIDE DEF cols, new
  <1>7. T2.columns = cols /\ T2.rows = new
    BY <1>3 DEF IsTable
  <1> HIDE DEF T2
  <1>8. Len(T2.columns) = Len(db[t].columns) /\ DOMAIN db[t].rows \subseteq DOMAIN T2.rows
    BY <1>5, <1>6, <1>7
  <1>9. QED
    BY <1>1, <1>2, <1>8, OneTableKept

\* A column under a new name, width or UNIQUE mark.
LEMMA ColumnEdited ==
    ASSUME Good(db), NEW t \in DOMAIN db, NEW i, NEW e,
           db' = [db EXCEPT ![t].columns[i] = e]
    PROVE  NothingLost
  <1> DEFINE cols == [db[t].columns EXCEPT ![i] = e]
             T2 == [db[t] EXCEPT !.columns = cols]
  <1>1. db' = [db EXCEPT ![t] = T2]
    OBVIOUS
  <1>2. IsTable(db[t]) /\ db[t].columns \in Seq(Column) /\ Len(db[t].columns) \in Nat
    BY TableFacts DEF Sound
  <1>3. Len(cols) = Len(db[t].columns)
    BY <1>2
  <1> HIDE DEF cols
  <1>4. T2.columns = cols /\ T2.rows = db[t].rows
    BY <1>2 DEF IsTable
  <1> HIDE DEF T2
  <1>5. Len(T2.columns) = Len(db[t].columns) /\ DOMAIN db[t].rows \subseteq DOMAIN T2.rows
    BY <1>3, <1>4
  <1>6. QED
    BY <1>1, <1>5, OneTableKept

\* set_unique loses nothing.
LEMMA SetUniqueCall ==
    ASSUME Good(db), NEW t \in DOMAIN db, NEW c \in ColName, NEW u \in BOOLEAN, set_unique(t, c, u)
    PROVE  Good(db') /\ NothingLost
  <1>1. Good(db')
    BY SetUniqueKeeps
  <1> DEFINE i == column_index(db[t], c)
             e == [db[t].columns[i] EXCEPT !.unique = u]
  <1>2. db' = [db EXCEPT ![t].columns[i] = e]
    BY DEF set_unique
  <1> HIDE DEF i, e
  <1>3. QED
    BY <1>1, <1>2, ColumnEdited

\* set_display_width loses nothing.
LEMMA SetDisplayWidthCall ==
    ASSUME Good(db), NEW t \in DOMAIN db, NEW c \in ColName, NEW w \in Width,
           set_display_width(t, c, w)
    PROVE  Good(db') /\ NothingLost
  <1>1. Good(db')
    BY SetDisplayWidthKeeps
  <1> DEFINE i == column_index(db[t], c)
             e == [db[t].columns[i] EXCEPT !.width = w]
  <1>2. db' = [db EXCEPT ![t].columns[i] = e]
    BY DEF set_display_width
  <1> HIDE DEF i, e
  <1>3. QED
    BY <1>1, <1>2, ColumnEdited

\* rename_column loses nothing.
LEMMA RenameColumnCall ==
    ASSUME Good(db), NEW t \in DOMAIN db, NEW old \in ColName, NEW new \in ColName,
           rename_column(t, old, new)
    PROVE  Good(db') /\ NothingLost
  <1>1. Good(db')
    BY RenameColumnKeeps
  <1> DEFINE cols(o) == IF o = t THEN [db[o].columns EXCEPT ![column_index(db[t], old)].name = new]
                        ELSE db[o].columns
             labels(o) == IF o = t THEN [i \in DOMAIN db[o].ref_cols |->
                                            IF db[o].ref_cols[i] = old THEN new ELSE db[o].ref_cols[i]]
                          ELSE db[o].ref_cols
             fks(o) == [i \in DOMAIN db[o].fks |-> RenamedFk(o, db[o].fks[i], t, old, new)]
  <1>2. db' = [o \in DOMAIN db |-> WithLabels(db[o], cols(o), labels(o), fks(o))]
    BY DEF rename_column, WithLabels
  <1>3. \A o \in DOMAIN db : Len(cols(o)) = Len(db[o].columns) /\ Len(db[o].columns) \in Nat
    BY TableFacts
  <1>4. \A o \in DOMAIN db : IsTable(db[o])
    BY TableFacts DEF Sound
  <1> HIDE DEF cols, labels, fks
  <1>5. \A o \in DOMAIN db : /\ WithLabels(db[o], cols(o), labels(o), fks(o)).columns = cols(o)
                             /\ WithLabels(db[o], cols(o), labels(o), fks(o)).rows = db[o].rows
    BY <1>4 DEF IsTable, WithLabels
  <1>6. QED
    BY <1>1, <1>2, <1>3, <1>5 DEF NothingLost

\* A step that leaves columns and rows alone.
LEMMA KeysChanged ==
    ASSUME Good(db), NEW t \in DOMAIN db, NEW fks, NEW labels,
           db' = [db EXCEPT ![t] = [db[t] EXCEPT !.fks = fks, !.ref_cols = labels]]
    PROVE  NothingLost
  <1> DEFINE T2 == [db[t] EXCEPT !.fks = fks, !.ref_cols = labels]
  <1>1. IsTable(db[t]) /\ Len(db[t].columns) \in Nat
    BY TableFacts DEF Sound
  <1>2. T2.columns = db[t].columns /\ T2.rows = db[t].rows
    BY <1>1 DEF IsTable
  <1>3. db' = [db EXCEPT ![t] = T2]
    OBVIOUS
  <1> HIDE DEF T2
  <1>4. Len(T2.columns) = Len(db[t].columns) /\ DOMAIN db[t].rows \subseteq DOMAIN T2.rows
    BY <1>2
  <1>5. QED
    BY <1>3, <1>4, OneTableKept

\* add_fk loses nothing.
LEMMA AddFkCall ==
    ASSUME Good(db), NEW t \in DOMAIN db, NEW from_col \in ColName, NEW to_table \in TableName,
           NEW to_col \in ColName, add_fk(t, from_col, to_table, to_col)
    PROVE  Good(db') /\ NothingLost
  <1>1. Good(db')
    BY AddFkKeeps
  <1> DEFINE fks == Append(db[t].fks, [name |-> FreshFkName(t, from_col), from_col |-> from_col,
                                       to_table |-> to_table, to_col |-> to_col])
             T2 == [db[t] EXCEPT !.fks = fks, !.ref_cols = db[t].ref_cols]
  <1>2. db' = [db EXCEPT ![t] = [db[t] EXCEPT !.fks = fks]]
    BY DEF add_fk
  <1>3. IsTable(db[t])
    BY TableFacts DEF Sound
  <1> HIDE DEF fks
  <1>4. [db[t] EXCEPT !.fks = fks] = T2
    BY <1>3 DEF IsTable
  <1>5. NothingLost
    BY <1>2, <1>4, KeysChanged
  <1>6. QED
    BY <1>1, <1>5

\* drop_fk loses no table, column or row.
LEMMA DropFkCall ==
    ASSUME Good(db), NEW t \in DOMAIN db, NEW name, drop_fk(t, name)
    PROVE  Good(db') /\ NothingLost
  <1>1. Good(db')
    BY DropFkKeeps
  <1> DEFINE fks == Retained(db[t].fks, {k \in DOMAIN db[t].fks : db[t].fks[k].name # name})
             T2 == [db[t] EXCEPT !.fks = fks, !.ref_cols = db[t].ref_cols]
  <1>2. db' = [db EXCEPT ![t] = [db[t] EXCEPT !.fks = fks]]
    BY DEF drop_fk
  <1>3. IsTable(db[t])
    BY TableFacts DEF Sound
  <1> HIDE DEF fks
  <1>4. [db[t] EXCEPT !.fks = fks] = T2
    BY <1>3 DEF IsTable
  <1>5. NothingLost
    BY <1>2, <1>4, KeysChanged
  <1>6. QED
    BY <1>1, <1>5

\* set_reference_columns loses nothing.
LEMMA SetReferenceColumnsCall ==
    ASSUME Good(db), NEW t \in DOMAIN db, NEW cols \in Seq(ColName), set_reference_columns(t, cols)
    PROVE  Good(db') /\ NothingLost
  <1>1. Good(db')
    BY SetReferenceColumnsKeeps
  <1> DEFINE T2 == [db[t] EXCEPT !.fks = db[t].fks, !.ref_cols = cols]
  <1>2. db' = [db EXCEPT ![t] = [db[t] EXCEPT !.ref_cols = cols]]
    BY DEF set_reference_columns
  <1>3. IsTable(db[t])
    BY TableFacts DEF Sound
  <1>4. [db[t] EXCEPT !.ref_cols = cols] = T2
    BY <1>3 DEF IsTable
  <1>5. NothingLost
    BY <1>2, <1>4, KeysChanged
  <1>6. QED
    BY <1>1, <1>5

\* insert loses nothing.
LEMMA InsertCall ==
    ASSUME Good(db), NEW t \in DOMAIN db, NEW cells \in Rows(t), insert(t, cells)
    PROVE  Good(db') /\ NothingLost
  <1>1. Good(db')
    BY InsertKeeps
  <1> DEFINE id == db[t].slots + 1
             new == [r \in DOMAIN db[t].rows \cup {id} |-> IF r = id THEN cells ELSE db[t].rows[r]]
             T2 == Stored(db[t], new, id, db[t].row_count + 1)
  <1>2. db' = [db EXCEPT ![t] = T2]
    BY DEF insert, Stored
  <1>3. IsTable(db[t]) /\ Len(db[t].columns) \in Nat
    BY TableFacts DEF Sound
  <1>4. DOMAIN db[t].rows \subseteq DOMAIN new
    OBVIOUS
  <1> HIDE DEF new, id
  <1>5. T2.columns = db[t].columns /\ T2.rows = new
    BY <1>3 DEF IsTable, Stored
  <1> HIDE DEF T2
  <1>6. Len(T2.columns) = Len(db[t].columns) /\ DOMAIN db[t].rows \subseteq DOMAIN T2.rows
    BY <1>4, <1>5
  <1>7. QED
    BY <1>1, <1>2, <1>6, OneTableKept

\* update keeps the rows under their ids.
LEMMA UpdateCall ==
    ASSUME Good(db), NEW t \in DOMAIN db, NEW id \in DOMAIN db[t].rows, NEW cells \in Rows(t),
           update(t, id, cells)
    PROVE  Good(db') /\ NothingLost
  <1>1. Good(db')
    BY UpdateKeeps
  <1> DEFINE new == [db[t].rows EXCEPT ![id] = cells]
             T2 == [db[t] EXCEPT !.rows = new]
  <1>2. db' = [db EXCEPT ![t] = T2]
    BY DEF update
  <1>3. IsTable(db[t]) /\ Len(db[t].columns) \in Nat
    BY TableFacts DEF Sound
  <1>4. DOMAIN new = DOMAIN db[t].rows
    OBVIOUS
  <1> HIDE DEF new
  <1>5. T2.columns = db[t].columns /\ T2.rows = new
    BY <1>3 DEF IsTable
  <1> HIDE DEF T2
  <1>6. Len(T2.columns) = Len(db[t].columns) /\ DOMAIN db[t].rows \subseteq DOMAIN T2.rows
    BY <1>4, <1>5
  <1>7. QED
    BY <1>1, <1>2, <1>6, OneTableKept

-----------------------------------------------------------------------------
(* Screens with the cursor elsewhere *)

\* A Browser under another cursor, filter or order.
LEMMA BrowserEdited ==
    ASSUME NEW b, NEW d, IsBrowser(b, d), NEW i \in Nat, NEW s
    PROVE  /\ IsBrowser([b EXCEPT !.row = i, !.sort = s], d) /\ IsBrowser([b EXCEPT !.row = i], d)
           /\ [b EXCEPT !.row = i, !.sort = s].kind = "Browser" /\ [b EXCEPT !.row = i].kind = "Browser"
  <1> DEFINE t == b.table
             r == b.row
             f == b.filter
             o == b.sort
             e == [b EXCEPT !.row = i, !.sort = s]
             g == [b EXCEPT !.row = i]
  <1>1. b = [kind |-> "Browser", table |-> t, row |-> r, filter |-> f, sort |-> o] /\ t \in DOMAIN d
    BY DEF IsBrowser
  <1> HIDE DEF t, r, f, o
  <1>2. g = [kind |-> "Browser", table |-> t, row |-> i, filter |-> f, sort |-> o]
    BY <1>1
  <1>3. e = [kind |-> "Browser", table |-> t, row |-> i, filter |-> f, sort |-> s]
    <2>1. e = [g EXCEPT !.sort = s]
      OBVIOUS
    <2> HIDE DEF e, g
    <2>2. QED
      BY <1>2, <2>1
  <1> HIDE DEF e, g
  <1>4. IsBrowser(e, d) /\ IsBrowser(g, d) /\ e.kind = "Browser" /\ g.kind = "Browser"
    BY <1>1, <1>2, <1>3 DEF IsBrowser
  <1>5. QED
    BY <1>4 DEF e, g

\* A Row View with its cursor elsewhere.
LEMMA RowViewAt ==
    ASSUME NEW v, NEW d, IsRowView(v, d), NEW i \in Nat
    PROVE  IsRowView([v EXCEPT !.sel = i], d) /\ [v EXCEPT !.sel = i].kind = "RowView"
  <1> DEFINE t == v.table
             r == v.id
             j == v.sel
             g == [v EXCEPT !.sel = i]
  <1>1. v = [kind |-> "RowView", table |-> t, id |-> r, sel |-> j] /\ t \in DOMAIN d
    BY DEF IsRowView
  <1> HIDE DEF t, r, j
  <1>2. g = [kind |-> "RowView", table |-> t, id |-> r, sel |-> i]
    BY <1>1
  <1> HIDE DEF g
  <1>3. IsRowView(g, d) /\ g.kind = "RowView"
    BY <1>1, <1>2 DEF IsRowView
  <1>4. QED
    BY <1>3 DEF g

\* A Schema Editor with its cursor elsewhere.
LEMMA SchemaAt ==
    ASSUME NEW s, NEW d, IsSchema(s, d), NEW i \in Nat
    PROVE  IsSchema([s EXCEPT !.sel = i], d) /\ [s EXCEPT !.sel = i].kind = "Schema"
  <1> DEFINE t == s.table
             j == s.sel
             g == [s EXCEPT !.sel = i]
  <1>1. s = [kind |-> "Schema", table |-> t, sel |-> j] /\ t \in DOMAIN d
    BY DEF IsSchema
  <1> HIDE DEF t, j
  <1>2. g = [kind |-> "Schema", table |-> t, sel |-> i]
    BY <1>1
  <1> HIDE DEF g
  <1>3. IsSchema(g, d) /\ g.kind = "Schema"
    BY <1>1, <1>2 DEF IsSchema
  <1>4. QED
    BY <1>3 DEF g

\* The label editor with another cursor or draft.
LEMMA RefColsAt ==
    ASSUME NEW s, NEW d, IsRefCols(s, d), NEW i \in Nat, NEW order \in Seq(ColName)
    PROVE  /\ IsRefCols([s EXCEPT !.sel = i], d) /\ [s EXCEPT !.sel = i].kind = "RefCols"
           /\ IsRefCols([s EXCEPT !.sel = i, !.order = order], d)
           /\ [s EXCEPT !.sel = i, !.order = order].kind = "RefCols"
  <1> DEFINE t == s.table
             o == s.order
             j == s.sel
             g == [s EXCEPT !.sel = i]
             e == [s EXCEPT !.sel = i, !.order = order]
  <1>1. /\ s = [kind |-> "RefCols", table |-> t, order |-> o, sel |-> j]
        /\ t \in DOMAIN d /\ o \in Seq(ColName)
    BY DEF IsRefCols
  <1> HIDE DEF t, o, j
  <1>2. g = [kind |-> "RefCols", table |-> t, order |-> o, sel |-> i]
    BY <1>1
  <1>3. e = [kind |-> "RefCols", table |-> t, order |-> order, sel |-> i]
    <2>1. e = [g EXCEPT !.order = order]
      OBVIOUS
    <2> HIDE DEF e, g
    <2>2. QED
      BY <1>2, <2>1
  <1> HIDE DEF e, g
  <1>4. IsRefCols(g, d) /\ g.kind = "RefCols" /\ IsRefCols(e, d) /\ e.kind = "RefCols"
    BY <1>1, <1>2, <1>3 DEF IsRefCols
  <1>5. QED
    BY <1>4 DEF e, g

\* A pick list with its cursor on another option.
LEMMA PickAt ==
    ASSUME NEW p, NEW d, IsPick(p, d), NEW i \in Nat
    PROVE  IsPick([p EXCEPT !.sel = i], d) /\ [p EXCEPT !.sel = i].kind = "Pick"
  <1> DEFINE o == p.options
             a == p.action
             j == p.sel
             g == [p EXCEPT !.sel = i]
  <1>1. /\ p = [kind |-> "Pick", options |-> o, sel |-> j, action |-> a] /\ PickAct(a, o, d)
    BY DEF IsPick
  <1> HIDE DEF o, a, j
  <1>2. g = [kind |-> "Pick", options |-> o, sel |-> i, action |-> a]
    BY <1>1
  <1> HIDE DEF g
  <1>3. IsPick(g, d) /\ g.kind = "Pick"
    BY <1>1, <1>2 DEF IsPick
  <1>4. QED
    BY <1>3 DEF g

\* The list of drives with its cursor elsewhere.
LEMMA CreateOsPickAt ==
    ASSUME NEW s, IsCreateOsPick(s), NEW i \in Nat
    PROVE  IsCreateOsPick([s EXCEPT !.sel = i]) /\ [s EXCEPT !.sel = i].kind = "CreateOsPick"
  <1> DEFINE c == s.candidates
             j == s.sel
             g == [s EXCEPT !.sel = i]
  <1>1. s = [kind |-> "CreateOsPick", sel |-> j, candidates |-> c] /\ c \in Seq(Drive) /\ c # <<>>
    BY DEF IsCreateOsPick
  <1> HIDE DEF c, j
  <1>2. g = [kind |-> "CreateOsPick", sel |-> i, candidates |-> c]
    BY <1>1
  <1> HIDE DEF g
  <1>3. IsCreateOsPick(g) /\ g.kind = "CreateOsPick"
    BY <1>1, <1>2 DEF IsCreateOsPick
  <1>4. QED
    BY <1>3 DEF g

\* A Row Editor with its focus elsewhere.
LEMMA EditorFocused ==
    ASSUME NEW e, NEW d, IsEditor(e, d), NEW i \in Nat
    PROVE  IsEditor([e EXCEPT !.focus = i], d) /\ [e EXCEPT !.focus = i].kind = "Editor"
  <1> DEFINE t == e.table
             r == e.id
             c == e.cols
             f == e.focus
             g == [e EXCEPT !.focus = i]
  <1>1. /\ e = [kind |-> "Editor", table |-> t, id |-> r, cols |-> c, focus |-> f]
        /\ t \in DOMAIN d /\ c = d[t].columns /\ (r = 0 \/ r \in DOMAIN d[t].rows)
    BY DEF IsEditor
  <1> HIDE DEF t, r, c, f
  <1>2. g = [kind |-> "Editor", table |-> t, id |-> r, cols |-> c, focus |-> i]
    BY <1>1
  <1> HIDE DEF g
  <1>3. /\ g = [kind |-> "Editor", table |-> g.table, id |-> g.id, cols |-> g.cols, focus |-> g.focus]
        /\ g.table = t /\ g.id = r /\ g.cols = c /\ g.focus = i /\ g.kind = "Editor"
    BY <1>2
  <1>4. IsEditor(g, d)
    BY <1>1, <1>3 DEF IsEditor
  <1>5. QED
    BY <1>3, <1>4 DEF g

\* A builder with its focus elsewhere.
LEMMA BuilderFocused ==
    ASSUME NEW s, NEW b, NEW d, IsBuilder(s, b, d), NEW i \in Nat
    PROVE  IsBuilder([s EXCEPT !.focus = i], b, d) /\ [s EXCEPT !.focus = i].kind = "Builder"
  <1> DEFINE f == s.field
             p == s.parts
             w == s.now
             x == s.next
             c == s.focus
             g == [s EXCEPT !.focus = i]
  <1>1. /\ s = [kind |-> "Builder", field |-> f, parts |-> p, focus |-> c, now |-> w, next |-> x]
        /\ p \in Nat /\ b.kind = "Editor" /\ f = b.focus /\ f < Len(b.cols)
    BY DEF IsBuilder
  <1> HIDE DEF f, p, w, x, c
  <1>2. g = [kind |-> "Builder", field |-> f, parts |-> p, focus |-> i, now |-> w, next |-> x]
    BY <1>1
  <1> HIDE DEF g
  <1>3. /\ g = [kind |-> "Builder", field |-> g.field, parts |-> g.parts, focus |-> g.focus,
                now |-> g.now, next |-> g.next]
        /\ g.kind = "Builder" /\ g.field = f /\ g.parts = p /\ g.focus = i
    BY <1>2
  <1>4. IsBuilder(g, b, d)
    BY <1>1, <1>3 DEF IsBuilder
  <1>5. QED
    BY <1>3, <1>4 DEF g

\* A foreign-key picker with its cursor elsewhere.
LEMMA FkPickAt ==
    ASSUME NEW s, NEW b, NEW d, IsFkPick(s, b, d), NEW i \in Nat
    PROVE  IsFkPick([s EXCEPT !.sel = i], b, d) /\ [s EXCEPT !.sel = i].kind = "FkPick"
  <1> DEFINE f == s.field
             t == s.to_table
             c == s.to_col
             q == s.rows
             j == s.sel
             g == [s EXCEPT !.sel = i]
  <1>1. /\ s = [kind |-> "FkPick", field |-> f, to_table |-> t, to_col |-> c, rows |-> q, sel |-> j]
        /\ t \in DOMAIN d /\ q \in Seq(DOMAIN d[t].rows)
        /\ b.kind = "Editor" /\ f = b.focus /\ f < Len(b.cols)
    BY DEF IsFkPick
  <1> HIDE DEF f, t, c, q, j
  <1>2. g = [kind |-> "FkPick", field |-> f, to_table |-> t, to_col |-> c, rows |-> q, sel |-> i]
    BY <1>1
  <1> HIDE DEF g
  <1>3. /\ g = [kind |-> "FkPick", field |-> g.field, to_table |-> g.to_table, to_col |-> g.to_col,
                rows |-> g.rows, sel |-> g.sel]
        /\ g.kind = "FkPick" /\ g.field = f /\ g.to_table = t /\ g.rows = q /\ g.sel = i
    BY <1>2
  <1>4. IsFkPick(g, b, d)
    BY <1>1, <1>3 DEF IsFkPick
  <1>5. QED
    BY <1>3, <1>4 DEF g

-----------------------------------------------------------------------------
(* The key handlers: each leaves a stack of the same kind over the database   *)
(* it leaves.                                                                 *)

Handles(st) == Running /\ StackInv(st, db, cache, gen) /\ Len(st) <= MaxDepth

\* The screen on top gives way to another of its kind.
LEMMA Retouched ==
    ASSUME NEW st, NEW d, NEW c, NEW g, StackInv(st, d, c, g), Base(Last(st), d), NEW s, Base(s, d),
           s.kind = Last(st).kind
    PROVE  /\ Solid(SetTop(st, s), d) /\ StackInv(SetTop(st, s), d, c, g)
           /\ Len(SetTop(st, s)) = Len(st) /\ Last(SetTop(st, s)) = s
           /\ StackInv(Pop(SetTop(st, s)), d, c, g)
           /\ \A x : TopOk(x, s, d, c, g) => StackInv(Push(SetTop(st, s), x), d, c, g)
  <1> DEFINE u == SetTop(st, s)
  <1>1. Last(st).kind \in BaseKinds /\ Last(st).kind # "List" /\ s.kind # "Confirm"
    BY BaseKind DEF BaseKinds
  <1>2. Len(st) # 1
    BY <1>1, OnTop
  <1>3. TopOk(s, st[Len(st) - 1], d, c, g)
    BY DEF TopOk
  <1>4. StackInv(u, d, c, g) /\ Len(u) = Len(st) /\ Last(u) = s
    BY <1>1, <1>2, <1>3, StackSetTop
  <1> HIDE DEF u
  <1>5. Solid(u, d)
    BY <1>4, SolidBase
  <1>6. StackInv(Pop(u), d, c, g)
    BY <1>4, StackPop
  <1>7. ASSUME NEW x, TopOk(x, s, d, c, g) PROVE StackInv(Push(u, x), d, c, g)
    BY <1>4, <1>7, StackPush
  <1>8. QED
    BY <1>4, <1>5, <1>6, <1>7 DEF u

\* dispatch, the arm of List.
LEMMA KeyList ==
    ASSUME NEW st, Handles(st), Last(st).kind = "List", NEW k, key_list(k, st)
    PROVE  After /\ Harmless
  <1>0. PICK tables \in Read(Tables, {<<>>}) : ListKey(k, st, tables)
    BY DEF key_list
  <1> DEFINE n == Len(tables)
             sel == Clamp(Last(st).sel, n)
             here == SetTop(st, List(sel))
  <1>1. Running /\ StackInv(st, db, cache, gen) /\ Good(db)
    BY DEF Handles, Running, RestOk
  <1>2. Len(st) = 1 /\ IsList(Last(st)) /\ Last(st).sel \in Nat
    BY <1>1, OnTop DEF IsList
  <1>3. tables \in Seq(DOMAIN db) /\ n \in Nat
    <2>1. IsFiniteSet(DOMAIN db)
      BY <1>1 DEF Good, Shape
    <2>2. Tables \in Seq(DOMAIN db)
      BY <2>1, SetToSeqElements DEF Tables
    <2>3. QED
      BY <1>0, <2>2, ReadList
  <1>4. sel \in Nat /\ (n > 0 => sel < n)
    BY <1>2, <1>3, ClampRange
  <1>5. ASSUME NEW i \in Nat
        PROVE  StackInv(SetTop(st, List(i)), db, cache, gen) /\ Len(SetTop(st, List(i))) = 1
    <2>1. IsList(List(i))
      BY DEF IsList, List
    <2>2. ~(Len(st) > 1)
      BY <1>2
    <2>3. StackInv(SetTop(st, List(i)), db, cache, gen) /\ Len(SetTop(st, List(i))) = Len(st)
      BY <1>1, <2>1, <2>2, StackSetTop
    <2>4. QED
      BY <1>2, <2>3
  <1>6. Move(k, sel, n) \in Nat
    BY <1>3, <1>4, MoveRange
  <1>7. StackInv(SetTop(st, List(Move(k, sel, n))), db, cache, gen)
    BY <1>5, <1>6
  <1>8. StackInv(here, db, cache, gen) /\ Len(here) = 1
    BY <1>4, <1>5
  <1>9. \A x : TopOk(x, Last(here), db, cache, gen) => StackInv(Push(here, x), db, cache, gen)
    BY <1>8, StackPush
  <1>10. \A b : /\ n > 0 => TopOk(Browser(tables[sel + 1], None), b, db, cache, gen)
                /\ TopOk(Prompt([op |-> "CreateTable"]), b, db, cache, gen)
                /\ TopOk(Confirm([op |-> "Shutdown"]), b, db, cache, gen)
                /\ TopOk(Panel("Drives"), b, db, cache, gen) /\ TopOk(Panel("Pci"), b, db, cache, gen)
                /\ TopOk(Panel("About"), b, db, cache, gen)
    <2>1. n > 0 => IsBrowser(Browser(tables[sel + 1], None), db)
      <3>1. n > 0 => tables[sel + 1] \in DOMAIN db
        BY <1>3, <1>4
      <3>2. QED
        BY <3>1 DEF IsBrowser, Browser
    <2>2. IsPrompt(Prompt([op |-> "CreateTable"]), db)
      BY DEF IsPrompt, Prompt, PromptAct
    <2>3. \A b : IsConfirm(Confirm([op |-> "Shutdown"]), b, db, cache, gen)
      BY DEF IsConfirm, Confirm, ConfirmAct
    <2>4. IsPanel(Panel("Drives")) /\ IsPanel(Panel("Pci")) /\ IsPanel(Panel("About"))
      BY DEF IsPanel, Panel
    <2>5. QED
      BY <2>1, <2>2, <2>3, <2>4 DEF TopOk, Base, Modal
  <1>11. ASSUME NEW found \in SUBSET Drive, found # {}, NEW b
         PROVE  TopOk([kind |-> "CreateOsPick", sel |-> 0, candidates |-> SetToSeq(found)], b, db, cache, gen)
    <2>1. IsFiniteSet(found)
      BY UiAssumption, FS_Subset
    <2>2. SetToSeq(found) \in Seq(found) /\ SetToSeq(found) # <<>>
      BY <1>11, <2>1, SetToSeqElements
    <2>3. SetToSeq(found) \in Seq(Drive)
      BY <2>2
    <2>4. IsCreateOsPick([kind |-> "CreateOsPick", sel |-> 0, candidates |-> SetToSeq(found)])
      BY <2>2, <2>3 DEF IsCreateOsPick
    <2>5. QED
      BY <2>4 DEF TopOk, Modal
  <1>12. PICK u : Goto(u) /\ StackInv(u, db, cache, gen)
    <2>1. \/ Goto(SetTop(st, List(Move(k, sel, n)))) \/ Goto(here)
          \/ n > 0 /\ Goto(Push(here, Browser(tables[sel + 1], None)))
          \/ Goto(Push(here, Prompt([op |-> "CreateTable"])))
          \/ Goto(Push(here, Confirm([op |-> "Shutdown"])))
          \/ Goto(Push(here, Panel("Drives"))) \/ Goto(Push(here, Panel("Pci")))
          \/ Goto(Push(here, Panel("About")))
          \/ \E found \in SUBSET Drive : found # {} /\
                Goto(Push(here, [kind |-> "CreateOsPick", sel |-> 0, candidates |-> SetToSeq(found)]))
      BY <1>0 DEF ListKey
    <2> HIDE DEF n, sel, here
    <2>2. QED
      BY <2>1, <1>7, <1>8, <1>9, <1>10, <1>11
  <1>13. QED
    BY <1>1, <1>12, GotoKeeps

\* What a Browser shows are rows of the table; if they are not what the reads
\* gave, the cache says so.
LEMMA ShownRows ==
    ASSUME NEW T, Sound(T), NEW f, NEW s, NEW ids, NEW ok, Shown(T, f, s, ids, ok)
    PROVE  ids \in Seq(DOMAIN T.rows)
  <1>1. \A g, o : Listed(T, g, o) \in Seq(DOMAIN T.rows)
    <2> SUFFICES ASSUME NEW g, NEW o PROVE Listed(T, g, o) \in Seq(DOMAIN T.rows)
      OBVIOUS
    <2>1. Listed(T, g, o) \in Seq(Kept(T, g))
      BY RowsListed
    <2>2. Kept(T, g) \subseteq DOMAIN T.rows
      BY DEF Kept
    <2>3. QED
      BY <2>1, <2>2
  <1>2. <<>> \in Seq(DOMAIN T.rows)
    OBVIOUS
  <1>3. QED
    BY <1>1, <1>2 DEF Shown, Defaults

\* cached_rows returns what the table holds now, or a failed read's default.
LEMMA CachedRows ==
    ASSUME Good(db), NEW g \in Nat, g = gen, NEW c, CacheOk(c, db, g),
           NEW t \in DOMAIN db, NEW f, NEW s, NEW e \in cached_rows(c, t, f, s)
    PROVE  /\ CacheOk(e, db, g) /\ e.rows \in Seq(DOMAIN db[t].rows)
           /\ <<e.table, e.filter, e.sort, e.gen>> = <<t, f, s, gen>>
  <1>1. t # Null /\ Sound(db[t])
    BY TableFacts
  <1>2. CASE <<c.table, c.filter, c.sort, c.gen>> = <<t, f, s, gen>>
    <2>1. e = c
      BY <1>2, Zenon DEF cached_rows
    <2>2. c.table = t /\ c.filter = f /\ c.sort = s /\ c.gen = g
      BY <1>2
    <2>3. Shown(db[t], f, s, c.rows, c.ok)
      BY <1>1, <2>2 DEF CacheOk
    <2>4. QED
      BY <1>1, <1>2, <2>1, <2>3, ShownRows
  <1>3. CASE <<c.table, c.filter, c.sort, c.gen>> # <<t, f, s, gen>>
    <2>1. e \in {Entry(t, f, s, r) : r \in rows(db[t], f, s)}
      BY <1>3, Zenon DEF cached_rows
    <2>2. PICK r \in rows(db[t], f, s) : e = Entry(t, f, s, r)
      BY <2>1, Zenon
    <2>3. Shown(db[t], f, s, r.ids, r.ok)
      BY DEF rows, Read, Shown, Defaults
    <2>4. /\ e.table = t /\ e.filter = f /\ e.sort = s /\ e.gen = gen
          /\ e.rows = r.ids /\ e.ok = r.ok
      BY <2>2 DEF Entry
    <2>5. CacheOk(e, db, g)
      BY <2>3, <2>4 DEF CacheOk
    <2>6. QED
      BY <1>1, <2>3, <2>4, <2>5, ShownRows
  <1>4. QED
    BY <1>2, <1>3

\* A step that changes only the stack and the cache.
LEMMA ShowKeeps ==
    ASSUME Running, NEW st, NEW c, StackInv(st, db, c, gen), CacheOk(c, db, gen),
           Len(st) <= MaxDepth, stack' = st, cache' = c, UNCHANGED <<db, gen, power, installed>>
    PROVE  After /\ Harmless
  <1>1. NothingLost
    <2>1. \A t \in DOMAIN db : Len(db[t].columns) \in Nat
      BY TableFacts DEF Running, RestOk
    <2>2. QED
      BY <2>1 DEF NothingLost
  <1>2. QED
    BY <1>1 DEF Running, RestOk, After, Harmless

\* Where an item is in a list, 0 if it is not there.
FoundAt(q, x) ==
    LET I == {i \in 1..Len(q) : q[i] = x} IN IF I # {} THEN Min(I) ELSE 0

\* It is a position of the list.
LEMMA FoundAtIn ==
    ASSUME NEW S, NEW q \in Seq(S), NEW x
    PROVE  FoundAt(q, x) \in 0..Len(q)
  <1> DEFINE I == {i \in 1..Len(q) : q[i] = x}
  <1>1. FoundAt(q, x) = IF I # {} THEN Min(I) ELSE 0
    BY DEF FoundAt
  <1>2. CASE I = {}
    BY <1>1, <1>2
  <1>3. CASE I # {}
    <2>1. I \subseteq Nat
      OBVIOUS
    <2>2. Min(I) \in I
      <3>1. \E i \in I : \A j \in I : i <= j
        BY <1>3, <2>1, LeastNumber
      <3>2. QED
        BY <3>1 DEF Min
    <2>3. QED
      BY <1>1, <1>3, <2>2
  <1>4. QED
    BY <1>2, <1>3

\* dispatch, the arm of Browser.
LEMMA KeyBrowser ==
    ASSUME NEW st, Handles(st), Last(st).kind = "Browser", NEW k, key_browser(k, st)
    PROVE  After /\ Harmless
  <1> DEFINE b == Last(st)
  <1>0. PICK c \in cached_rows(cache, b.table, b.filter, b.sort) : BrowserKey(k, st, c)
    BY DEF key_browser
  <1> DEFINE n == Len(c.rows)
             row == Clamp(b.row, n)
             At(i) == [b EXCEPT !.row = i]
             here == SetTop(st, At(row))
             id == RowAt(c, row)
             Show(st2, c2) == /\ Len(st2) <= MaxDepth /\ stack' = st2 /\ cache' = c2
                              /\ UNCHANGED <<db, gen, power, installed>>
  <1>1. Running /\ StackInv(st, db, cache, gen) /\ Good(db) /\ gen \in Nat /\ CacheOk(cache, db, gen)
    BY DEF Handles, Running, RestOk
  <1>2. IsBrowser(b, db) /\ Base(b, db)
    <2>1. Len(st) # 1 /\ TopOk(b, st[Len(st) - 1], db, cache, gen)
      BY <1>1, OnTop, OneOrMore, Zenon
    <2>2. ~Modal(b, st[Len(st) - 1], db, cache, gen)
      BY ModalKind DEF ModalKinds
    <2>3. QED
      BY <2>1, <2>2, BaseKind DEF TopOk
  <1>3. b.table \in DOMAIN db /\ b.row \in Nat
    BY <1>2 DEF IsBrowser
  <1>4. /\ CacheOk(c, db, gen) /\ c.rows \in Seq(DOMAIN db[b.table].rows)
        /\ <<c.table, c.filter, c.sort, c.gen>> = <<b.table, b.filter, b.sort, gen>>
    BY <1>1, <1>3, CachedRows
  <1>5. n \in Nat
    BY <1>4
  <1>6. row \in Nat /\ (n > 0 => row < n)
    BY <1>3, <1>5, ClampRange
  <1>7. n > 0 => id \in DOMAIN db[b.table].rows
    BY <1>4, <1>5, <1>6 DEF RowAt
  <1>8. ASSUME NEW i \in Nat, NEW s
        PROVE  /\ Base([b EXCEPT !.row = i, !.sort = s], db)
               /\ [b EXCEPT !.row = i, !.sort = s].kind = b.kind
               /\ Base(At(i), db) /\ At(i).kind = b.kind
    <2>1. /\ IsBrowser([b EXCEPT !.row = i, !.sort = s], db) /\ IsBrowser(At(i), db)
          /\ [b EXCEPT !.row = i, !.sort = s].kind = "Browser" /\ At(i).kind = "Browser"
      BY <1>2, BrowserEdited
    <2>2. QED
      BY <2>1 DEF Base
  <1>9. ASSUME NEW e PROVE StackInv(st, db, e, gen)
    <2>1. Solid(st, db)
      BY <1>1, <1>2, SolidBase
    <2>2. QED
      BY <2>1, SolidStack
  <1>10. /\ StackInv(here, db, c, gen) /\ StackInv(Pop(here), db, c, gen)
         /\ \A x : TopOk(x, At(row), db, c, gen) => StackInv(Push(here, x), db, c, gen)
         /\ \A i \in Nat : StackInv(SetTop(st, At(i)), db, c, gen)
    <2>1. StackInv(st, db, c, gen)
      BY <1>9
    <2>2. QED
      BY <1>2, <1>6, <1>8, <2>1, Retouched
  <1>11. ASSUME NEW i \in Nat, NEW s, NEW e
         PROVE  StackInv(SetTop(st, [b EXCEPT !.row = i, !.sort = s]), db, e, gen)
    <2>1. StackInv(st, db, e, gen)
      BY <1>9
    <2>2. QED
      BY <1>2, <1>8, <2>1, Retouched
  <1>12. Move(k, row, n) \in Nat
    BY <1>5, <1>6, MoveRange
  <1>13. /\ n > 0 => TopOk(RowView(b.table, id), At(row), db, c, gen)
         /\ TopOk(Editor(b.table, 0), At(row), db, c, gen)
         /\ n > 0 => TopOk(Editor(b.table, id), At(row), db, c, gen)
         /\ TopOk(Schema(b.table), At(row), db, c, gen)
    <2>1. IsRowView(RowView(b.table, id), db)
      BY <1>3 DEF IsRowView, RowView
    <2>2. IsSchema(Schema(b.table), db)
      BY <1>3 DEF IsSchema, Schema
    <2>3. ASSUME NEW x, x = 0 \/ x \in DOMAIN db[b.table].rows
          PROVE  IsEditor(Editor(b.table, x), db)
      <3> DEFINE t == b.table
                 cols == db[t].columns
                 e == Editor(t, x)
      <3>1. t \in DOMAIN db /\ Len(cols) \in Nat
        BY <1>1, <1>3, TableFacts
      <3>2. e = [kind |-> "Editor", table |-> t, id |-> x, cols |-> cols, focus |-> 0]
        BY DEF Editor
      <3> HIDE DEF t, cols, e
      <3>3. /\ e = [kind |-> "Editor", table |-> e.table, id |-> e.id, cols |-> e.cols, focus |-> e.focus]
            /\ e.table = t /\ e.id = x /\ e.cols = cols /\ e.focus = 0
        BY <3>2
      <3>4. IsEditor(e, db)
        BY <2>3, <3>1, <3>3 DEF IsEditor, cols, t
      <3>5. QED
        BY <3>4 DEF e, t
    <2> HIDE DEF id, row, n, At, b
    <2>4. QED
      BY <1>7, <2>1, <2>2, <2>3 DEF TopOk, Base, Modal
  <1>14. n > 0 => TopOk(Confirm([op |-> "DeleteRow", table |-> b.table, id |-> id]), At(row), db, c, gen)
    <2> DEFINE a == [op |-> "DeleteRow", table |-> b.table, id |-> id]
               q == At(row)
    <2>1. /\ q.kind = "Browser" /\ q.table = b.table
          /\ q.filter = b.filter /\ q.sort = b.sort /\ q.row = row
      <3> HIDE DEF row
      <3>1. QED
        BY <1>2 DEF IsBrowser
    <2>2. c.rows[q.row + 1] = id
      BY <2>1 DEF RowAt
    <2> HIDE DEF q, id
    <2>3. n > 0 => ConfirmAct(a, q, db, c, gen)
      BY <1>3, <1>4, <1>7, <2>1, <2>2 DEF ConfirmAct
    <2> HIDE DEF a
    <2>4. n > 0 => IsConfirm(Confirm(a), q, db, c, gen)
      BY <2>3 DEF IsConfirm, Confirm
    <2>5. QED
      BY <2>4 DEF TopOk, Modal, q, a
  <1> DEFINE Edited(i, sort) == SetTop(st, [b EXCEPT !.row = i, !.sort = sort])
             pos(c2) == SelectInSeq(c2.rows, LAMBDA x : x = id)
             at(c2) == IF pos(c2) = 0 THEN row ELSE pos(c2) - 1
  <1>15. ASSUME NEW sort, NEW c2 \in cached_rows(c, b.table, b.filter, sort)
         PROVE  CacheOk(c2, db, gen) /\ at(c2) \in Nat
    <2>1. CacheOk(c2, db, gen) /\ c2.rows \in Seq(DOMAIN db[b.table].rows)
      BY <1>1, <1>3, <1>4, CachedRows
    <2>2. pos(c2) \in 0..Len(c2.rows) /\ Len(c2.rows) \in Nat
      <3>1. pos(c2) = FoundAt(c2.rows, id)
        BY DEF SelectInSeq, FoundAt
      <3> HIDE DEF pos, id
      <3>2. QED
        BY <2>1, <3>1, FoundAtIn
    <2> HIDE DEF pos
    <2>3. QED
      BY <1>6, <2>1, <2>2
  <1>16. \/ Show(SetTop(st, At(Move(k, row, n))), c)
         \/ Show(Pop(here), c) \/ Show(here, c)
         \/ \E sort : Show(Edited(row, sort), c)
         \/ \E sort : \E c2 \in cached_rows(c, b.table, b.filter, sort) : Show(Edited(at(c2), sort), c2)
         \/ n > 0 /\ Show(Push(here, RowView(b.table, id)), c)
         \/ \E st2 \in open_editor(here, b.table, 0) : Show(st2, c)
         \/ n > 0 /\ \E st2 \in open_editor(here, b.table, id) : Show(st2, c)
         \/ n > 0 /\ Show(Push(here, Confirm([op |-> "DeleteRow", table |-> b.table, id |-> id])), c)
         \/ Show(Push(here, Schema(b.table)), c)
    <2> HIDE DEF b, n, row, id
    <2>1. QED
      BY <1>0, Zenon DEF BrowserKey, b, n, row, id
  <1>17. PICK st2, c2 : Show(st2, c2) /\ StackInv(st2, db, c2, gen) /\ CacheOk(c2, db, gen)
    <2>1. /\ \A x \in open_editor(here, b.table, 0) : StackInv(x, db, c, gen)
          /\ n > 0 => \A x \in open_editor(here, b.table, id) : StackInv(x, db, c, gen)
      <3> HIDE DEF At, b, n, row, id, here
      <3>1. QED
        BY <1>10, <1>13 DEF open_editor, Read
    <2>2. \A i \in Nat : \A sort : \A e : StackInv(Edited(i, sort), db, e, gen)
      BY <1>11
    <2> HIDE DEF Show, At, b, n, row, id, at, Edited, here
    <2>3. QED
      BY <1>4, <1>6, <1>10, <1>12, <1>13, <1>14, <1>15, <1>16, <2>1, <2>2
  <1>18. QED
    BY <1>1, <1>17, ShowKeeps

\* A base screen on top.
LEMMA BaseOnTop ==
    ASSUME NEW st, Handles(st), Last(st).kind \in BaseKinds
    PROVE  Running /\ StackInv(st, db, cache, gen) /\ Good(db) /\ Base(Last(st), db)
  <1>1. Running /\ StackInv(st, db, cache, gen) /\ Good(db)
    BY DEF Handles, Running, RestOk
  <1>2. Last(st).kind # "List" /\ Last(st).kind \notin ModalKinds
    BY DEF BaseKinds, ModalKinds
  <1>3. Len(st) > 1
    BY <1>1, <1>2, OnTop, OneOrMore, Zenon
  <1>4. TopOk(Last(st), st[Len(st) - 1], db, cache, gen)
    BY <1>1, <1>3, OnTop
  <1>5. QED
    BY <1>1, <1>2, <1>4, ModalKind DEF TopOk

\* A modal on top, and the stack once it is closed.
LEMMA ModalOnTop ==
    ASSUME NEW st, Handles(st), Last(st).kind \in ModalKinds
    PROVE  /\ Running /\ StackInv(st, db, cache, gen) /\ Good(db) /\ Len(st) > 1 /\ Len(st) <= MaxDepth
           /\ Len(st) # 1
           /\ Modal(Last(st), st[Len(st) - 1], db, cache, gen)
           /\ StackInv(Pop(st), db, cache, gen) /\ Last(Pop(st)) = st[Len(st) - 1]
           /\ Len(Pop(st)) = Len(st) - 1 /\ Len(Pop(st)) <= MaxDepth
  <1>1. Running /\ StackInv(st, db, cache, gen) /\ Good(db) /\ Len(st) <= MaxDepth
    BY DEF Handles, Running, RestOk
  <1>2. Last(st).kind # "List" /\ Last(st).kind \notin BaseKinds
    BY DEF BaseKinds, ModalKinds
  <1>3. Len(st) > 1
    BY <1>1, <1>2, OnTop, OneOrMore, Zenon
  <1>4. TopOk(Last(st), st[Len(st) - 1], db, cache, gen)
    BY <1>1, <1>3, OnTop
  <1>5. Modal(Last(st), st[Len(st) - 1], db, cache, gen)
    BY <1>2, <1>4, BaseKind DEF TopOk
  <1>6. StackInv(Pop(st), db, cache, gen) /\ Last(Pop(st)) = st[Len(st) - 1] /\ Len(Pop(st)) = Len(st) - 1
    BY <1>1, <1>3, StackPop
  <1>7. Len(Pop(st)) <= MaxDepth
    <2>1. Len(st) \in Nat /\ MaxDepth \in Nat
      BY <1>1, OnTop, UiAssumption
    <2> DEFINE m == Len(Pop(st))
    <2>2. m = Len(st) - 1
      BY <1>6
    <2> HIDE DEF m
    <2>3. m <= MaxDepth
      BY <1>1, <2>1, <2>2
    <2>4. QED
      BY <2>3 DEF m
  <1>8. Len(st) # 1
    BY <1>1, <1>2, OnTop
  <1>9. QED
    BY <1>1, <1>3, <1>5, <1>6, <1>7, <1>8

\* dispatch, the arm of RowView.
LEMMA KeyRowView ==
    ASSUME NEW st, Handles(st), Last(st).kind = "RowView", NEW k, key_rowview(k, st)
    PROVE  After /\ Harmless
  <1> DEFINE v == Last(st)
  <1>0. PICK navs \in nav_targets(v.table, v.id) : RowViewKey(k, st, navs)
    BY DEF key_rowview
  <1> DEFINE n == Len(navs)
             sel == Clamp(v.sel, n)
             At(i) == [v EXCEPT !.sel = i]
             here == SetTop(st, At(sel))
             to == navs[sel + 1]
  <1>1. Running /\ StackInv(st, db, cache, gen) /\ Good(db) /\ Base(v, db)
    BY BaseOnTop DEF BaseKinds
  <1>2. IsRowView(v, db) /\ v.table \in DOMAIN db /\ v.sel \in Nat
    BY <1>1, BaseKind DEF IsRowView
  <1>3. PICK N : navs \in Seq(N) /\ \A x \in N : x[1] \in DOMAIN db
    BY <1>1, <1>2, NavTargets
  <1>4. n \in Nat /\ (navs # <<>> => n > 0)
    BY <1>3
  <1>5. sel \in Nat /\ (n > 0 => sel < n)
    BY <1>2, <1>4, ClampRange
  <1>6. ASSUME NEW i \in Nat PROVE Base(At(i), db) /\ At(i).kind = v.kind
    <2>1. IsRowView(At(i), db) /\ At(i).kind = "RowView"
      BY <1>2, RowViewAt
    <2>2. QED
      BY <2>1 DEF Base
  <1>7. \A i \in Nat : /\ StackInv(SetTop(st, At(i)), db, cache, gen)
                       /\ StackInv(Pop(SetTop(st, At(i))), db, cache, gen)
                       /\ \A x : TopOk(x, At(i), db, cache, gen) =>
                                StackInv(Push(SetTop(st, At(i)), x), db, cache, gen)
    BY <1>1, <1>6, Retouched
  <1>8. navs # <<>> => TopOk(Browser(to[1], <<to[2], to[3]>>), At(sel), db, cache, gen)
    <2>1. navs # <<>> => to[1] \in DOMAIN db
      <3>1. navs # <<>> => to \in N
        <4> HIDE DEF sel
        <4>1. QED
          BY <1>3, <1>4, <1>5
      <3>2. QED
        BY <1>3, <3>1
    <2>2. navs # <<>> => IsBrowser(Browser(to[1], <<to[2], to[3]>>), db)
      BY <2>1 DEF IsBrowser, Browser
    <2>3. QED
      BY <2>2 DEF TopOk, Base
  <1>9. Move(k, sel, n) \in Nat
    BY <1>4, <1>5, MoveRange
  <1>10. \/ Goto(Pop(here)) \/ Goto(here) \/ Goto(SetTop(st, At(Move(k, sel, n))))
         \/ navs # <<>> /\ Goto(Push(here, Browser(to[1], <<to[2], to[3]>>)))
    BY <1>0 DEF RowViewKey
  <1>11. PICK u : Goto(u) /\ StackInv(u, db, cache, gen)
    <2> HIDE DEF At, n, sel, to
    <2>1. QED
      BY <1>5, <1>7, <1>8, <1>9, <1>10
  <1>12. QED
    BY <1>1, <1>11, GotoKeeps

\* dispatch, the arm of Drives, Pci, Xhci and About.
LEMMA KeyPanel ==
    ASSUME NEW st, Handles(st), Last(st).kind \in {"Drives", "Pci", "Xhci", "About"}, NEW k,
           key_panel(k, st)
    PROVE  After /\ Harmless
  <1>1. /\ Running /\ StackInv(st, db, cache, gen)
        /\ Modal(Last(st), st[Len(st) - 1], db, cache, gen) /\ StackInv(Pop(st), db, cache, gen)
    BY ModalOnTop DEF ModalKinds
  <1>2. IsPanel(Last(st))
    BY <1>1, ModalKind
  <1>3. Last(st).kind = "Pci" => StackInv(Push(st, Panel("Xhci")), db, cache, gen)
    <2>1. IsPanel(Panel("Xhci")) /\ Panel("Xhci").kind = "Xhci"
      BY DEF IsPanel, Panel
    <2>2. TopOk(Panel("Xhci"), Last(st), db, cache, gen)
      BY <2>1 DEF TopOk, Modal
    <2>3. Last(st).kind = "Pci" => Covered(Last(st), Panel("Xhci"), db)
      BY <1>2, <2>1 DEF Covered
    <2>4. QED
      BY <1>1, <2>2, <2>3, StackPush
  <1>4. PICK u : Goto(u) /\ StackInv(u, db, cache, gen)
    BY <1>1, <1>3 DEF key_panel
  <1>5. QED
    BY <1>1, <1>4, GotoKeeps

\* dispatch, the arm of InstallResult.
LEMMA KeyInstallResult ==
    ASSUME NEW st, Handles(st), Last(st).kind = "InstallResult", NEW k, key_install_result(k, st)
    PROVE  After /\ Harmless
  <1>1. Running /\ StackInv(st, db, cache, gen)
    BY ModalOnTop DEF ModalKinds
  <1>2. StackInv(PopToList(st), db, cache, gen)
    BY <1>1, ListAlone
  <1>3. PICK u : Goto(u) /\ StackInv(u, db, cache, gen)
    BY <1>1, <1>2 DEF key_install_result
  <1>4. QED
    BY <1>1, <1>3, GotoKeeps

\* dispatch, the arm of CreateOsPick.
LEMMA KeyCreateOsPick ==
    ASSUME NEW st, Handles(st), Last(st).kind = "CreateOsPick", NEW k, key_create_os_pick(k, st)
    PROVE  After /\ Harmless
  <1> DEFINE s == Last(st)
             b == st[Len(st) - 1]
             n == Len(s.candidates)
             sel == Clamp(s.sel, n)
             At(i) == [s EXCEPT !.sel = i]
             here == SetTop(st, At(sel))
             warn == Confirm([op |-> "CreateOs", drive |-> s.candidates[sel + 1]])
  <1>1. Running /\ StackInv(st, db, cache, gen) /\ Len(st) > 1 /\ Len(st) # 1 /\ Modal(s, b, db, cache, gen)
    BY ModalOnTop DEF ModalKinds
  <1>2. IsCreateOsPick(s) /\ s.sel \in Nat
    BY <1>1, ModalKind DEF IsCreateOsPick
  <1>3. n \in Nat /\ n > 0 /\ s.candidates \in Seq(Drive)
    <2> DEFINE c == s.candidates
    <2>1. c \in Seq(Drive) /\ c # <<>>
      BY <1>2 DEF IsCreateOsPick
    <2> HIDE DEF c
    <2>2. Len(c) \in Nat /\ Len(c) > 0
      BY <2>1
    <2>3. QED
      BY <2>1, <2>2 DEF c
  <1>4. sel \in Nat /\ sel < n
    BY <1>2, <1>3, ClampRange
  <1>5. ASSUME NEW i \in Nat PROVE IsCreateOsPick(At(i)) /\ At(i).kind = s.kind /\ s.kind # "Confirm"
    BY <1>2, CreateOsPickAt
  <1>6. ASSUME NEW i \in Nat
        PROVE  StackInv(SetTop(st, At(i)), db, cache, gen) /\ Last(SetTop(st, At(i))) = At(i)
    <2> DEFINE x == At(i)
    <2>1. x.kind = s.kind /\ s.kind # "Confirm" /\ IsCreateOsPick(x)
      BY <1>5
    <2> HIDE DEF x
    <2>2. TopOk(x, b, db, cache, gen)
      BY <2>1 DEF TopOk, Modal
    <2>3. StackInv(SetTop(st, x), db, cache, gen) /\ Last(SetTop(st, x)) = x
      BY <1>1, <2>1, <2>2, StackSetTop
    <2>4. QED
      BY <2>3 DEF x
  <1>7. StackInv(here, db, cache, gen) /\ Last(here) = At(sel) /\ StackInv(Pop(here), db, cache, gen)
    BY <1>4, <1>6, StackPop
  <1>8. StackInv(Push(here, warn), db, cache, gen)
    <2>1. s.candidates[sel + 1] \in Drive
      BY <1>3, <1>4
    <2>2. warn.kind = "Confirm" /\ warn.action.op = "CreateOs" /\ IsConfirm(warn, At(sel), db, cache, gen)
      BY <2>1 DEF IsConfirm, Confirm, ConfirmAct
    <2> HIDE DEF warn
    <2>3. TopOk(warn, At(sel), db, cache, gen) /\ Covered(At(sel), warn, db)
      BY <1>4, <1>5, <2>2 DEF TopOk, Modal, Covered
    <2>4. QED
      BY <1>7, <2>3, StackPush
  <1>9. Move(k, sel, n) \in Nat
    BY <1>3, <1>4, MoveRange
  <1>10. Goto(Pop(here)) \/ Goto(here) \/ Goto(SetTop(st, At(Move(k, sel, n)))) \/ Goto(Push(here, warn))
    BY DEF key_create_os_pick
  <1>11. PICK u : Goto(u) /\ StackInv(u, db, cache, gen)
    <2> HIDE DEF At, n, sel, warn, here
    <2>1. QED
      BY <1>6, <1>7, <1>8, <1>9, <1>10
  <1>12. QED
    BY <1>1, <1>11, GotoKeeps

\* dispatch, the arm of Schema.
LEMMA KeySchema ==
    ASSUME NEW st, Handles(st), Last(st).kind = "Schema", NEW k, key_schema(k, st)
    PROVE  After /\ Harmless
  <1> DEFINE s == Last(st)
             t == s.table
  <1>0. PICK T \in Read(SchemaOf(t), {NoSchema}) : SchemaKey(k, st, T)
    BY DEF key_schema
  <1> DEFINE n == Len(T.columns)
             sel == Clamp(s.sel, n)
             Touched(i) == [s EXCEPT !.sel = i]
             At(i) == SetTop(st, Touched(i))
             col == T.columns[sel + 1].name
             to == IF k = "," THEN sel - 1 ELSE sel + 1
             names == [i \in DOMAIN T.fks |-> T.fks[i].name]
             labels == [kind |-> "RefCols", table |-> t, order |-> T.ref_cols, sel |-> 0]
             OfColumn(op) == [op |-> op, table |-> t, col |-> col]
  <1>1. Running /\ StackInv(st, db, cache, gen) /\ Good(db) /\ Base(s, db) /\ Len(st) <= MaxDepth
    BY BaseOnTop DEF BaseKinds, Handles
  <1>2. IsSchema(s, db) /\ t \in DOMAIN db /\ s.sel \in Nat
    BY <1>1, BaseKind DEF IsSchema
  <1>3. /\ n \in Nat /\ T.fks \in Seq(ForeignKey) /\ T.ref_cols \in Seq(ColName)
        /\ n > 0 => T.columns = db[t].columns /\ DOMAIN db[t].columns = 1..n
    <2>1. T = SchemaOf(t) \/ T = NoSchema
      BY <1>0 DEF Read
    <2>2. CASE T = SchemaOf(t)
      <3>1. T.columns = db[t].columns /\ T.fks = db[t].fks /\ T.ref_cols = db[t].ref_cols
        BY <2>2 DEF SchemaOf
      <3>2. QED
        BY <1>1, <1>2, <3>1, TableFacts
    <2>3. CASE T = NoSchema
      <3>1. T.columns = <<>> /\ T.fks = <<>> /\ T.ref_cols = <<>>
        BY <2>3 DEF NoSchema
      <3>2. QED
        BY <3>1
    <2>4. QED
      BY <2>1, <2>2, <2>3
  <1>4. sel \in Nat /\ (n > 0 => sel < n)
    BY <1>2, <1>3, ClampRange
  <1>5. n > 0 => sel + 1 \in 1..n /\ col \in Names(db[t]) /\ col \in ColName
    <2>1. n > 0 => sel + 1 \in 1..n
      <3> HIDE DEF n, sel
      <3>1. QED
        BY <1>3, <1>4
    <2>2. QED
      BY <1>1, <1>2, <1>3, <2>1, TableFacts
  <1>6. ASSUME NEW i \in Nat PROVE Base(Touched(i), db) /\ Touched(i).kind = s.kind
    <2>1. IsSchema(Touched(i), db) /\ Touched(i).kind = "Schema"
      BY <1>2, SchemaAt
    <2>2. QED
      BY <2>1 DEF Base
  <1>7. \A i \in Nat : /\ StackInv(At(i), db, cache, gen) /\ StackInv(Pop(At(i)), db, cache, gen)
                       /\ Solid(At(i), db) /\ Len(At(i)) = Len(st)
                       /\ \A x : TopOk(x, Touched(i), db, cache, gen) =>
                                StackInv(Push(At(i), x), db, cache, gen)
    BY <1>1, <1>6, Retouched
  <1>8. Move(k, sel, n) \in Nat
    BY <1>3, <1>4, MoveRange
  <1> DEFINE askA == Prompt([op |-> "AddColumn", table |-> t])
             askX == Confirm([op |-> "DropColumn", table |-> t, col |-> col])
             askR == Prompt([op |-> "RenameColumn", table |-> t, col |-> col])
             askW == Prompt([op |-> "SetDisplayWidth", table |-> t, col |-> col])
             askF(cols) == Pick(cols, [op |-> "AddFkPickFrom", table |-> t])
             askK == Pick(names, [op |-> "DropFk", table |-> t])
             askD == Confirm([op |-> "DropTable", table |-> t])
  <1>9. \A b : /\ TopOk(askA, b, db, cache, gen) /\ TopOk(askD, b, db, cache, gen)
               /\ \A cols \in Read(ColNames(t), {<<>>}) : TopOk(askF(cols), b, db, cache, gen)
               /\ TopOk(askK, b, db, cache, gen) /\ TopOk(labels, b, db, cache, gen)
               /\ n > 0 => /\ TopOk(askX, b, db, cache, gen) /\ TopOk(askR, b, db, cache, gen)
                           /\ TopOk(askW, b, db, cache, gen)
    <2> HIDE DEF s, n, sel, col
    <2>1. IsPrompt(askA, db) /\ (n > 0 => IsPrompt(askR, db) /\ IsPrompt(askW, db))
      BY <1>2, <1>5 DEF IsPrompt, Prompt, PromptAct
    <2>2. \A b : IsConfirm(askD, b, db, cache, gen) /\ (n > 0 => IsConfirm(askX, b, db, cache, gen))
      BY <1>2, <1>5 DEF IsConfirm, Confirm, ConfirmAct
    <2>3. ASSUME NEW o \in Read(ColNames(t), {<<>>}) PROVE IsPick(askF(o), db)
      <3> DEFINE a == [op |-> "AddFkPickFrom", table |-> t]
      <3>1. o \in Seq(Names(db[t]))
        BY <1>1, <1>2, UniqueColumns, ReadList
      <3>2. PickAct(a, o, db)
        BY <1>2, <3>1 DEF PickAct
      <3>3. Len(o) \in Nat
        BY <3>1
      <3> HIDE DEF a
      <3>4. IsPick(Pick(o, a), db)
        BY <3>2, <3>3 DEF IsPick, Pick
      <3>5. QED
        BY <3>4 DEF a
    <2>4. IsPick(askK, db)
      <3> DEFINE a == [op |-> "DropFk", table |-> t]
      <3>1. names \in Seq(FkName)
        <4>1. T.fks \in Seq(ForeignKey)
          BY <1>3
        <4>2. \A f \in ForeignKey : f.name \in FkName
          BY DEF ForeignKey
        <4>3. QED
          BY <4>1, <4>2
      <3> HIDE DEF names
      <3>2. PickAct(a, names, db)
        BY <1>2, <3>1 DEF PickAct
      <3>3. Len(names) \in Nat
        BY <3>1
      <3> HIDE DEF a
      <3>4. IsPick(Pick(names, a), db)
        BY <3>2, <3>3 DEF IsPick, Pick
      <3>5. QED
        BY <3>4 DEF a
    <2>5. IsRefCols(labels, db)
      <3>1. T.ref_cols \in Seq(ColName)
        BY <1>3
      <3>2. QED
        BY <1>2, <3>1 DEF IsRefCols
    <2> HIDE DEF askA, askX, askR, askW, askF, askK, askD, labels
    <2>6. QED
      BY <2>1, <2>2, <2>3, <2>4, <2>5 DEF TopOk, Base, Modal
  <1>10. \/ Goto(Pop(At(sel))) \/ Goto(At(sel)) \/ Goto(At(Move(k, sel, n)))
         \/ Goto(Push(At(sel), askA)) \/ \E cols \in Read(ColNames(t), {<<>>}) : Goto(Push(At(sel), askF(cols)))
         \/ Goto(Push(At(sel), askK))
         \/ Goto(Push(At(sel), askD)) \/ Goto(Push(At(sel), labels))
         \/ n > 0 /\ (\/ Goto(Push(At(sel), askX)) \/ Goto(Push(At(sel), askR))
                      \/ Goto(Push(At(sel), askW)))
         \/ n > 0 /\ ToggleUnique(t, sel) /\ stack' = At(sel)
         \/ to \in 0..(n - 1) /\ MoveColumn(t, sel, to) /\ stack' = At(to)
    BY <1>0 DEF SchemaKey
  <1>11. CASE \E u : Goto(u) /\ StackInv(u, db, cache, gen)
    BY <1>1, <1>11, GotoKeeps
  <1>12. CASE n > 0 /\ ToggleUnique(t, sel) /\ stack' = At(sel)
    <2> DEFINE c == db[t].columns[sel + 1]
    <2>1. set_unique(t, c.name, ~c.unique) /\ Committed
      BY <1>12 DEF ToggleUnique
    <2>2. c.name \in ColName
      <3>1. T.columns = db[t].columns
        BY <1>3, <1>12
      <3>2. c.name = col
        BY <3>1, Zenon
      <3> HIDE DEF c, col
      <3>3. QED
        BY <1>5, <1>12, <3>2
    <2> DEFINE u == ~c.unique
    <2>3. set_unique(t, c.name, u) /\ u \in BOOLEAN
      BY <2>1
    <2> HIDE DEF u
    <2>4. Good(db') /\ NothingLost
      BY <1>1, <1>2, <2>2, <2>3, SetUniqueCall
    <2>5. Solid(At(sel), db) /\ Len(At(sel)) <= MaxDepth
      BY <1>1, <1>4, <1>7
    <2>6. QED
      BY <1>1, <1>12, <2>1, <2>4, <2>5, CommitKeeps
  <1>13. CASE to \in 0..(n - 1) /\ MoveColumn(t, sel, to) /\ stack' = At(to)
    <2>2. to \in Nat /\ to + 1 \in Nat /\ n > 0
      <3> HIDE DEF n, to
      <3>1. QED
        BY <1>3, <1>13
    <2>1. move_column(t, col, to + 1) /\ Committed
      <3>1. T.columns = db[t].columns
        BY <1>3, <2>2
      <3>2. col = db[t].columns[sel + 1].name
        BY <3>1, Zenon
      <3> HIDE DEF col, sel, to, t
      <3>3. QED
        BY <1>13, <3>2 DEF MoveColumn
    <2>3. Good(db') /\ NothingLost
      BY <1>1, <1>2, <1>5, <2>1, <2>2, MoveColumnCall
    <2>4. Solid(At(to), db) /\ Len(At(to)) <= MaxDepth
      BY <1>1, <1>7, <2>2
    <2>5. QED
      BY <1>1, <1>13, <2>1, <2>3, <2>4, CommitKeeps
  <1>14. QED
    <2> HIDE DEF s, t, n, sel, to, Touched, At, askA, askX, askR, askW, askF, askK, askD, labels
    <2>1. QED
      BY <1>4, <1>7, <1>8, <1>9, <1>10, <1>11, <1>12, <1>13

\* Editing the draft of a label keeps it a list of column names.
LEMMA RelabelledNames ==
    ASSUME NEW order \in Seq(ColName), NEW c, c \in ColName \/ c = Null, NEW k
    PROVE  Relabelled(k, order, c) \in Seq(ColName)
  <1> DEFINE p == SelectInSeq(order, LAMBDA x : x = c)
             Swap(i, j) == [order EXCEPT ![i] = order[j], ![j] = order[i]]
  <1>2. p = 0 \/ p \in 1..Len(order)
    <2>1. p = FoundAt(order, c)
      BY DEF SelectInSeq, FoundAt
    <2> HIDE DEF p
    <2>2. QED
      BY <2>1, FoundAtIn
  <1>3. \A i, j \in 1..Len(order) : Swap(i, j) \in Seq(ColName)
    OBVIOUS
  <1> HIDE DEF p
  <1>4. p \in 1..Len(order) => RemoveAt(order, p) \in Seq(ColName)
    BY RemoveAtElements
  <1>5. c # Null => Append(order, c) \in Seq(ColName)
    OBVIOUS
  <1>6. p > 1 => p - 1 \in 1..Len(order) /\ p \in 1..Len(order)
    BY <1>2
  <1>7. p \in 1..(Len(order) - 1) => p + 1 \in 1..Len(order) /\ p \in 1..Len(order)
    OBVIOUS
  <1>8. <<>> \in Seq(ColName)
    OBVIOUS
  <1> DEFINE R == Relabelled(k, order, c)
  <1>9. \/ R = order \/ R = <<>>
        \/ c # Null /\ p = 0 /\ R = Append(order, c)
        \/ p # 0 /\ R = RemoveAt(order, p)
        \/ p > 1 /\ R = Swap(p, p - 1)
        \/ p \in 1..(Len(order) - 1) /\ R = Swap(p, p + 1)
    BY DEF Relabelled, p
  <1> HIDE DEF R, Swap
  <1>10. QED
    <2>1. R \in Seq(ColName)
      BY <1>2, <1>3, <1>4, <1>5, <1>6, <1>7, <1>8, <1>9
    <2>2. QED
      BY <2>1 DEF R

\* dispatch, the arm of RefCols.
LEMMA KeyRefCols ==
    ASSUME NEW st, Handles(st), Last(st).kind = "RefCols", NEW k, key_refcols(k, st)
    PROVE  After /\ Harmless
  <1> DEFINE s == Last(st)
             t == s.table
  <1>0. PICK cols \in Read(ColNames(t), {<<>>}) : RefColsKey(k, st, cols)
    BY DEF key_refcols
  <1> DEFINE n == Len(cols)
             sel == IF cols = <<>> THEN s.sel ELSE Clamp(s.sel, n)
             c == IF cols = <<>> THEN Null ELSE cols[sel + 1]
             order == Relabelled(k, s.order, c)
             At(i) == [s EXCEPT !.sel = i]
             Edited == [s EXCEPT !.sel = sel, !.order = order]
             here == SetTop(st, Edited)
  <1>1. Running /\ StackInv(st, db, cache, gen) /\ Good(db) /\ Base(s, db) /\ Len(st) <= MaxDepth
    BY BaseOnTop DEF BaseKinds, Handles
  <1>2. IsRefCols(s, db) /\ t \in DOMAIN db /\ s.sel \in Nat /\ s.order \in Seq(ColName)
    BY <1>1, BaseKind DEF IsRefCols
  <1>3. cols \in Seq(Names(db[t])) /\ Names(db[t]) \subseteq ColName
    BY <1>0, <1>1, <1>2, UniqueColumns, ReadList, TableFacts
  <1>4. n \in Nat /\ (cols # <<>> => n > 0)
    BY <1>3
  <1>5. sel \in Nat /\ (n > 0 => sel < n)
    <2>1. cols = <<>> => n = 0
      OBVIOUS
    <2>2. Clamp(s.sel, n) \in Nat /\ (n > 0 => Clamp(s.sel, n) < n)
      BY <1>2, <1>4, ClampRange
    <2> HIDE DEF n, s
    <2>3. QED
      BY <1>2, <1>4, <2>1, <2>2
  <1>6. c \in ColName \/ c = Null
    <2> HIDE DEF sel, t
    <2>1. QED
      BY <1>3, <1>4, <1>5
  <1>7. order \in Seq(ColName)
    BY <1>2, <1>6, RelabelledNames
  <1>8. Move(k, sel, n) \in Nat
    BY <1>4, <1>5, MoveRange
  <1>9. ASSUME NEW i \in Nat
        PROVE  /\ Base(At(i), db) /\ At(i).kind = s.kind
               /\ Base(Edited, db) /\ Edited.kind = s.kind
    <2>1. IsRefCols(At(i), db) /\ At(i).kind = "RefCols"
      BY <1>2, <1>7, RefColsAt
    <2> HIDE DEF At
    <2>2. IsRefCols(Edited, db) /\ Edited.kind = "RefCols"
      <3> HIDE DEF s, sel, order
      <3>1. QED
        BY <1>2, <1>5, <1>7, RefColsAt
    <2> HIDE DEF Edited
    <2>3. QED
      BY <2>1, <2>2 DEF Base
  <1>10. /\ \A i \in Nat : StackInv(SetTop(st, At(i)), db, cache, gen)
         /\ StackInv(here, db, cache, gen) /\ StackInv(Pop(here), db, cache, gen)
         /\ Solid(here, db) /\ Len(here) = Len(st)
    BY <1>1, <1>5, <1>9, Retouched
  <1>11. \/ Goto(Pop(here)) \/ Goto(here) \/ Goto(SetTop(st, At(Move(k, sel, n))))
         \/ set_reference_columns(t, order) /\ Committed /\ stack' = here
    BY <1>0 DEF RefColsKey
  <1>12. CASE \E u : Goto(u) /\ StackInv(u, db, cache, gen)
    BY <1>1, <1>12, GotoKeeps
  <1>13. CASE set_reference_columns(t, order) /\ Committed /\ stack' = here
    <2>1. Good(db') /\ NothingLost
      BY <1>1, <1>2, <1>7, <1>13, SetReferenceColumnsCall
    <2>2. Solid(here, db) /\ Len(here) <= MaxDepth
      BY <1>1, <1>10
    <2> HIDE DEF here
    <2>3. QED
      BY <1>1, <1>13, <2>1, <2>2, CommitKeeps
  <1>14. QED
    <2> HIDE DEF here, At, sel, n
    <2>1. QED
      BY <1>8, <1>10, <1>11, <1>12, <1>13

\* The screens that an operation opens on a table that exists.
LEMMA NewScreen ==
    ASSUME NEW st, NEW d, NEW c, NEW g, Solid(st, d), NEW s, TopOk(s, Last(st), d, c, g)
    PROVE  StackInv(Push(st, s), d, c, g) /\ Len(Push(st, s)) = Len(st) + 1
  <1>1. StackInv(Push(st, s), d, c, g)
    BY SolidStack, StackPush
  <1>2. IsStack(st)
    BY DEF Solid
  <1>3. QED
    BY <1>1, <1>2, PushElements

\* key_prompt and resolve_prompt.
LEMMA KeyPrompt ==
    ASSUME NEW st, Handles(st), Last(st).kind = "Prompt", NEW k, key_prompt(k, st)
    PROVE  After /\ Harmless
  <1> DEFINE a == Last(st).action
             u == Pop(st)
             Opened(t) == /\ create_table(t) /\ Committed
                          /\ Len(u) < MaxDepth /\ stack' = Push(u, Schema(t))
             types(c) == Pick(SetToSeq(Type), [op |-> "AddColPickType", table |-> a.table, col |-> c])
             Renamed(c) == rename_column(a.table, a.col, c) /\ Committed /\ stack' = u
             Widths(w) == set_display_width(a.table, a.col, w) /\ Committed /\ stack' = u
  <1>1. /\ Running /\ StackInv(st, db, cache, gen) /\ Good(db) /\ Len(st) > 1 /\ Len(u) <= MaxDepth
        /\ Modal(Last(st), st[Len(st) - 1], db, cache, gen) /\ StackInv(u, db, cache, gen)
    BY ModalOnTop DEF ModalKinds
  <1>2. PromptAct(a, db)
    BY <1>1, ModalKind DEF IsPrompt
  <1>3. Solid(u, db)
    BY <1>1, SolidPop
  <1>4. \/ a.op = "CreateTable"
        \/ a.op = "AddColumn" /\ a.table \in DOMAIN db
        \/ a.op \in {"RenameColumn", "SetDisplayWidth"} /\ a.table \in DOMAIN db /\ a.col \in ColName
    <2>1. a.table \in DOMAIN db => Names(db[a.table]) \subseteq ColName
      BY <1>1, TableFacts
    <2> HIDE DEF a
    <2>2. QED
      BY <1>2, <2>1 DEF PromptAct
  <1> HIDE DEF a, u
  <1>5. Goto(u) \/ Goto(st) \/ resolve_prompt(a, u)
    BY DEF key_prompt, a, u
  <1>6. CASE Goto(u) \/ Goto(st)
    BY <1>1, <1>6, GotoKeeps
  <1>7. CASE resolve_prompt(a, u) /\ a.op = "CreateTable"
    <2>1. Goto(u) \/ \E t \in TableName : Opened(t)
      BY <1>7 DEF resolve_prompt
    <2>2. ASSUME NEW t \in TableName, Opened(t) PROVE After /\ Harmless
      <3>1. Good(db') /\ NothingLost /\ t \in DOMAIN db'
        BY <1>1, <2>2, CreateTableCall
      <3>2. Solid(u, db')
        BY <1>3, <3>1, SolidKept DEF NothingLost
      <3>3. TopOk(Schema(t), Last(u), db', cache', gen')
        <4>1. IsSchema(Schema(t), db')
          BY <3>1 DEF IsSchema, Schema
        <4>2. QED
          BY <4>1 DEF TopOk, Base
      <3>4. StackInv(Push(u, Schema(t)), db', cache', gen') /\ Len(Push(u, Schema(t))) = Len(u) + 1
        BY <3>2, <3>3, NewScreen
      <3>5. Len(Push(u, Schema(t))) <= MaxDepth
        <4> DEFINE m == Len(u)
        <4>1. m \in Nat /\ MaxDepth \in Nat /\ m < MaxDepth
          BY <1>1, <2>2, OnTop, UiAssumption
        <4> HIDE DEF m
        <4>2. m + 1 <= MaxDepth
          BY <4>1
        <4>3. QED
          BY <3>4, <4>2 DEF m
      <3>6. After /\ installed' = installed /\ power' = "on"
        BY <1>1, <2>2, <3>1, <3>4, <3>5, CommittedStack
      <3>7. QED
        BY <3>1, <3>6 DEF Harmless
    <2>3. QED
      BY <1>6, <2>1, <2>2
  <1>8. CASE resolve_prompt(a, u) /\ a.op = "AddColumn" /\ a.table \in DOMAIN db
    <2>1. Goto(u) \/ \E c \in ColName : Goto(Push(u, types(c)))
      BY <1>8 DEF resolve_prompt
    <2>2. ASSUME NEW c \in ColName PROVE StackInv(Push(u, types(c)), db, cache, gen)
      <3> DEFINE o == SetToSeq(Type)
                 x == [op |-> "AddColPickType", table |-> a.table, col |-> c]
      <3>1. o \in Seq(Type)
        BY UiAssumption, SetToSeqElements
      <3> HIDE DEF o
      <3>2. PickAct(x, o, db) /\ Len(o) \in Nat
        BY <1>8, <3>1 DEF PickAct
      <3> HIDE DEF x
      <3>3. IsPick(Pick(o, x), db)
        BY <3>2 DEF IsPick, Pick
      <3>4. TopOk(Pick(o, x), Last(u), db, cache, gen)
        BY <3>3 DEF TopOk, Modal
      <3>5. StackInv(Push(u, Pick(o, x)), db, cache, gen)
        BY <1>3, <3>4, NewScreen
      <3>6. QED
        BY <3>5 DEF o, x
    <2> HIDE DEF types
    <2>3. QED
      BY <1>1, <1>6, <2>1, <2>2, GotoKeeps
  <1>9. CASE resolve_prompt(a, u) /\ a.op = "RenameColumn" /\ a.table \in DOMAIN db /\ a.col \in ColName
    <2>1. Goto(u) \/ \E c \in ColName : Renamed(c)
      BY <1>9 DEF resolve_prompt
    <2>2. ASSUME NEW c \in ColName, Renamed(c) PROVE After /\ Harmless
      <3>1. Good(db') /\ NothingLost
        BY <1>1, <1>9, <2>2, RenameColumnCall
      <3>2. QED
        BY <1>1, <1>3, <2>2, <3>1, CommitKeeps
    <2>3. QED
      BY <1>6, <2>1, <2>2
  <1>10. CASE resolve_prompt(a, u) /\ a.op = "SetDisplayWidth" /\ a.table \in DOMAIN db /\ a.col \in ColName
    <2>1. Goto(u) \/ \E w \in Width : Widths(w)
      BY <1>10 DEF resolve_prompt
    <2>2. ASSUME NEW w \in Width, Widths(w) PROVE After /\ Harmless
      <3>1. Good(db') /\ NothingLost
        BY <1>1, <1>10, <2>2, SetDisplayWidthCall
      <3>2. QED
        BY <1>1, <1>3, <2>2, <3>1, CommitKeeps
    <2>3. QED
      BY <1>6, <2>1, <2>2
  <1>11. QED
    BY <1>4, <1>5, <1>6, <1>7, <1>8, <1>9, <1>10

\* key_pick and resolve_pick.
LEMMA KeyPick ==
    ASSUME NEW st, Handles(st), Last(st).kind = "Pick", NEW k, key_pick(k, st)
    PROVE  After /\ Harmless
  <1> DEFINE p == Last(st)
             b == st[Len(st) - 1]
             a == p.action
             o == p.options
             n == Len(o)
             u == Pop(st)
             x == o[p.sel + 1]
             At(i) == [p EXCEPT !.sel = i]
  <1>1. /\ Running /\ StackInv(st, db, cache, gen) /\ Good(db) /\ Len(st) > 1 /\ Len(st) # 1 /\ Len(u) <= MaxDepth
        /\ Len(st) <= MaxDepth /\ Modal(p, b, db, cache, gen) /\ StackInv(u, db, cache, gen)
    BY ModalOnTop DEF ModalKinds
  <1>2. IsPick(p, db)
    BY <1>1, ModalKind
  <1>3. PickAct(a, o, db) /\ p.sel \in Nat
    BY <1>2 DEF IsPick
  <1>4. \E S : o \in Seq(S)
    BY <1>3 DEF PickAct
  <1>5. n \in Nat /\ (p.sel < n => p.sel + 1 \in DOMAIN o)
    <2> HIDE DEF o, p
    <2>1. QED
      BY <1>3, <1>4
  <1>6. Solid(u, db)
    BY <1>1, SolidPop
  <1>7. ASSUME NEW i \in Nat
        PROVE  StackInv(SetTop(st, At(i)), db, cache, gen)
    <2>1. IsPick(At(i), db) /\ At(i).kind = "Pick"
      BY <1>2, <1>3, <1>7, PickAt
    <2> HIDE DEF At
    <2>2. TopOk(At(i), b, db, cache, gen)
      BY <2>1 DEF TopOk, Modal
    <2>3. QED
      BY <1>1, <2>1, <2>2, StackSetTop
  <1> HIDE DEF p, o, a, u
  <1>9. Move(k, p.sel, n) \in Nat
    BY <1>3, <1>5, MoveRange
  <1>10. \/ Goto(u) \/ Goto(st) \/ Goto(SetTop(st, At(Move(k, p.sel, n))))
         \/ p.sel < n /\ resolve_pick(a, x, u)
         \/ /\ n > 0 /\ p.sel >= n /\ power' = "panic" /\ stack' = st
            /\ UNCHANGED <<db, gen, cache, installed>>
    BY DEF key_pick, p, o, a, u
  <1>11. CASE Goto(u) \/ Goto(st) \/ Goto(SetTop(st, At(Move(k, p.sel, n))))
    <2>1. StackInv(SetTop(st, At(Move(k, p.sel, n))), db, cache, gen)
      BY <1>7, <1>9
    <2>2. QED
      BY <1>1, <1>11, <2>1, GotoKeeps
  <1>12. CASE /\ n > 0 /\ p.sel >= n /\ power' = "panic" /\ stack' = st
              /\ UNCHANGED <<db, gen, cache, installed>>
    <2>1. NothingLost
      <3>1. \A t \in DOMAIN db : Len(db[t].columns) \in Nat
        BY <1>1, TableFacts
      <3>2. QED
        BY <1>12, <3>1 DEF NothingLost
    <2>2. QED
      BY <1>1, <1>12, <2>1 DEF Running, RestOk, After, Harmless
  <1>13. ASSUME Good(db'), NothingLost, Committed, stack' = u PROVE After /\ Harmless
    BY <1>1, <1>6, <1>13, CommitKeeps
  <1>14. ASSUME NEW t \in DOMAIN db PROVE t \in TableName /\ Names(db[t]) \subseteq ColName
    BY <1>1, TableFacts
  <1>15. ASSUME NEW q, NEW act, PickAct(act, q, db)
         PROVE  StackInv(Push(u, Pick(q, act)), db, cache, gen)
    <2>1. \E S : q \in Seq(S)
      BY <1>15 DEF PickAct
    <2>2. Len(q) \in Nat
      BY <2>1
    <2>3. IsPick(Pick(q, act), db)
      BY <1>15, <2>2 DEF IsPick, Pick
    <2>4. TopOk(Pick(q, act), Last(u), db, cache, gen)
      BY <2>3 DEF TopOk, Modal
    <2>5. QED
      BY <1>6, <2>4, NewScreen
  <1>16. CASE p.sel < n /\ resolve_pick(a, x, u)
    <2>1. CASE /\ a = [op |-> "AddColPickType", table |-> a.table, col |-> a.col]
               /\ a.table \in DOMAIN db /\ a.col \in ColName /\ o \in Seq(Type)
      <3>1. x \in Type
        BY <1>5, <1>16, <2>1
      <3> HIDE DEF x
      <3>0. a.op = "AddColPickType"
        BY <2>1
      <3>2. \/ add_column(a.table, NewColumn(a.col, x)) /\ Committed /\ stack' = u
            \/ Goto(u)
        BY <1>16, <3>0 DEF resolve_pick
      <3>3. NewColumn(a.col, x) \in Column
        BY <2>1, <3>1, RelationalAssumption DEF NewColumn, Column
      <3>4. add_column(a.table, NewColumn(a.col, x)) => Good(db') /\ NothingLost
        BY <1>1, <2>1, <3>3, AddColumnCall
      <3>5. QED
        BY <1>11, <1>13, <3>2, <3>4
    <2>2. CASE /\ a = [op |-> "AddFkPickFrom", table |-> a.table]
               /\ a.table \in DOMAIN db /\ o \in Seq(Names(db[a.table]))
      <3> DEFINE act == [op |-> "AddFkPickToTable", table |-> a.table, col |-> x]
      <3>1. x \in Names(db[a.table])
        BY <1>5, <1>16, <2>2
      <3> HIDE DEF x
      <3>0. a.op = "AddFkPickFrom"
        BY <2>2
      <3>2. PICK tables \in Read(Tables, {<<>>}) : Goto(Push(u, Pick(tables, act)))
        BY <1>16, <3>0 DEF resolve_pick
      <3>3. tables \in Seq(DOMAIN db)
        <4>1. IsFiniteSet(DOMAIN db)
          BY <1>1 DEF Good, Shape
        <4>2. Tables \in Seq(DOMAIN db)
          BY <4>1, SetToSeqElements DEF Tables
        <4>3. QED
          BY <3>2, <4>2, ReadList
      <3>4. PickAct(act, tables, db)
        BY <2>2, <3>1, <3>3 DEF PickAct
      <3> HIDE DEF act
      <3>5. QED
        BY <1>1, <1>15, <3>2, <3>4, GotoKeeps
    <2>3. CASE /\ a = [op |-> "AddFkPickToTable", table |-> a.table, col |-> a.col]
               /\ a.table \in DOMAIN db /\ a.col \in Names(db[a.table]) /\ o \in Seq(DOMAIN db)
      <3> DEFINE act == [op |-> "AddFkPickToCol", table |-> a.table, col |-> a.col, to_table |-> x]
      <3>1. x \in DOMAIN db
        BY <1>5, <1>16, <2>3
      <3> HIDE DEF x
      <3>0. a.op = "AddFkPickToTable"
        BY <2>3
      <3>2. PICK cols \in Read(UniqueCols(x), {<<>>}) : Goto(u) \/ Goto(Push(u, Pick(cols, act)))
        BY <1>16, <3>0 DEF resolve_pick
      <3>3. cols \in Seq(Names(db[x]))
        BY <1>1, <3>1, <3>2, UniqueColumns, ReadList
      <3>4. PickAct(act, cols, db)
        BY <2>3, <3>1, <3>3 DEF PickAct
      <3> HIDE DEF act
      <3>5. StackInv(Push(u, Pick(cols, act)), db, cache, gen)
        BY <1>15, <3>4
      <3>6. QED
        BY <1>1, <3>2, <3>5, GotoKeeps
    <2>4. CASE /\ a = [op |-> "AddFkPickToCol", table |-> a.table, col |-> a.col, to_table |-> a.to_table]
               /\ a.table \in DOMAIN db /\ a.col \in Names(db[a.table]) /\ a.to_table \in DOMAIN db
               /\ o \in Seq(Names(db[a.to_table]))
      <3>1. x \in Names(db[a.to_table])
        BY <1>5, <1>16, <2>4
      <3>2. x \in ColName /\ a.col \in ColName /\ a.to_table \in TableName
        BY <1>14, <2>4, <3>1
      <3> HIDE DEF x
      <3>0. a.op = "AddFkPickToCol"
        BY <2>4
      <3>3. \/ add_fk(a.table, a.col, a.to_table, x) /\ Committed /\ stack' = u
            \/ Goto(u)
        BY <1>16, <3>0 DEF resolve_pick
      <3>4. add_fk(a.table, a.col, a.to_table, x) => Good(db') /\ NothingLost
        BY <1>1, <2>4, <3>2, AddFkCall
      <3>5. QED
        BY <1>11, <1>13, <3>3, <3>4
    <2>5. CASE a = [op |-> "DropFk", table |-> a.table] /\ a.table \in DOMAIN db
      <3> HIDE DEF x
      <3>1. (drop_fk(a.table, x) /\ Committed /\ stack' = u) \/ Goto(u)
        BY <1>16, <2>5 DEF resolve_pick
      <3>2. drop_fk(a.table, x) => Good(db') /\ NothingLost
        BY <1>1, <2>5, DropFkCall
      <3>3. QED
        BY <1>11, <1>13, <3>1, <3>2
    <2>6. QED
      BY <1>3, <2>1, <2>2, <2>3, <2>4, <2>5 DEF PickAct
  <1>17. QED
    BY <1>10, <1>11, <1>12, <1>16

\* The focus of a builder goes round.
LEMMA ModRange ==
    ASSUME NEW x \in Nat, NEW m \in Nat \ {0}
    PROVE  x % m \in Nat /\ x % m <= m - 1
  OBVIOUS

\* The dialogue that PgDn opens on a field of the editor.
LEMMA BuilderOpened ==
    ASSUME NEW st, Handles(st), Last(st).kind = "Editor", IsEditor(Last(st), db),
           Last(st).focus < Len(Last(st).cols)
    PROVE  \A st2 \in open_builder(Last(st), st) : StackInv(st2, db, cache, gen)
  <1> DEFINE ed == Last(st)
             fks == db[ed.table].fks
             own == {i \in DOMAIN fks : fks[i].from_col = ed.cols[ed.focus + 1].name}
             fk == fks[Min(own)]
             target == db[fk.to_table]
             pick == [kind |-> "FkPick", field |-> ed.focus, to_table |-> fk.to_table,
                      to_col |-> fk.to_col, rows |-> Listed(target, None, None), sel |-> 0]
  <1>1. Running /\ StackInv(st, db, cache, gen) /\ Good(db)
    BY DEF Handles, Running, RestOk
  <1>2. ed.table \in DOMAIN db /\ ed.cols = db[ed.table].columns /\ ed.focus \in Nat
    BY DEF IsEditor
  <1>3. ASSUME NEW st2 \in open_builder(ed, st)
        PROVE  st2 = st \/ (\E x : st2 = Push(st, Builder(ed, x))) \/ (own # {} /\ st2 = Push(st, pick))
    BY <1>3 DEF open_builder, Read
  <1>4. ASSUME NEW s, Modal(s, ed, db, cache, gen), s.kind \in {"Builder", "FkPick"}
        PROVE  StackInv(Push(st, s), db, cache, gen)
    <2>1. Covered(ed, s, db) /\ TopOk(s, ed, db, cache, gen)
      BY <1>4 DEF Covered, TopOk
    <2>2. QED
      BY <1>1, <2>1, StackPush
  <1>5. ASSUME NEW w PROVE Modal(Builder(ed, w), ed, db, cache, gen) /\ Builder(ed, w).kind = "Builder"
    <2> DEFINE c == ed.cols[ed.focus + 1]
               y == c.ty \in NowTypes
               z == Parts[c.ty]
               bd == Builder(ed, w)
               f == ed.focus
    <2>1. ed.cols \in Seq(Column)
      BY <1>1, <1>2, TableFacts
    <2>2. c \in Column
      BY <1>2, <2>1
    <2>3. z \in Nat
      BY <2>2, UiAssumption DEF Column
    <2>4. bd = [kind |-> "Builder", field |-> f, parts |-> z, focus |-> 0, now |-> y, next |-> w]
      BY DEF Builder
    <2> HIDE DEF c, y, z, bd, f
    <2>5. /\ bd = [kind |-> "Builder", field |-> bd.field, parts |-> bd.parts, focus |-> bd.focus,
                   now |-> bd.now, next |-> bd.next]
          /\ bd.kind = "Builder" /\ bd.field = f /\ bd.parts = z /\ bd.focus = 0
      BY <2>4
    <2>6. IsBuilder(bd, ed, db)
      BY <2>3, <2>5 DEF IsBuilder, f
    <2>7. QED
      BY <2>5, <2>6 DEF Modal, bd
  <1>6. own # {} => Modal(pick, ed, db, cache, gen) /\ pick.kind = "FkPick"
    <2> SUFFICES ASSUME own # {} PROVE Modal(pick, ed, db, cache, gen) /\ pick.kind = "FkPick"
      OBVIOUS
    <2>1. Min(own) \in DOMAIN fks
      <3>1. own \in SUBSET Nat
        <4>1. fks \in Seq(ForeignKey)
          BY <1>1, <1>2, TableFacts
        <4> HIDE DEF fks
        <4>2. QED
          BY <4>1
      <3>2. \E x \in own : \A y \in own : x <= y
        BY <3>1, LeastNumber
      <3>3. Min(own) \in own
        BY <3>2 DEF Min
      <3>4. QED
        BY <3>3
    <2>2. fk.to_table \in DOMAIN db
      BY <1>1, <1>2, <2>1, TableFacts
    <2> DEFINE T == fk.to_table
               L == Listed(target, None, None)
    <2>3. L \in Seq(DOMAIN db[T].rows)
      <3>1. Sound(db[T])
        BY <1>1, <2>2, TableFacts
      <3>2. L \in Seq(Kept(db[T], None))
        BY <3>1, RowsListed
      <3>3. Kept(db[T], None) \subseteq DOMAIN db[T].rows
        BY DEF Kept
      <3> DEFINE K == Kept(db[T], None)
                 D == DOMAIN db[T].rows
      <3>4. L \in Seq(K) /\ K \subseteq D
        BY <3>2, <3>3
      <3> HIDE DEF L, K, D
      <3>5. L \in Seq(D)
        BY <3>4
      <3>6. QED
        BY <3>5 DEF D
    <2>4. T \in DOMAIN db
      BY <2>2
    <2> DEFINE f == ed.focus
               tc == fk.to_col
    <2>5. pick = [kind |-> "FkPick", field |-> f, to_table |-> T, to_col |-> tc, rows |-> L, sel |-> 0]
      OBVIOUS
    <2> HIDE DEF T, L, f, tc, pick
    <2>6. /\ pick = [kind |-> "FkPick", field |-> pick.field, to_table |-> pick.to_table,
                     to_col |-> pick.to_col, rows |-> pick.rows, sel |-> pick.sel]
          /\ pick.kind = "FkPick" /\ pick.field = f /\ pick.to_table = T /\ pick.rows = L /\ pick.sel = 0
      BY <2>5
    <2>7. IsFkPick(pick, ed, db)
      BY <2>3, <2>4, <2>6 DEF IsFkPick, f
    <2>8. QED
      BY <2>6, <2>7 DEF Modal
  <1>7. QED
    <2> HIDE DEF own, pick
    <2>1. QED
      BY <1>1, <1>3, <1>4, <1>5, <1>6

\* key_editor, commit_editor and open_builder.
LEMMA KeyEditor ==
    ASSUME NEW st, Handles(st), Last(st).kind = "Editor", NEW k, key_editor(k, st)
    PROVE  After /\ Harmless
  <1> DEFINE ed == Last(st)
             b == st[Len(st) - 1]
             nf == Len(ed.cols)
             u == Pop(st)
             On(i) == SetTop(st, [ed EXCEPT !.focus = i])
             Written == \E cells \in Rows(ed.table) :
                           IF ed.id = 0 THEN insert(ed.table, cells) ELSE update(ed.table, ed.id, cells)
  <1>1. /\ Running /\ StackInv(st, db, cache, gen) /\ Good(db) /\ Len(st) > 1 /\ Len(st) # 1 /\ Len(u) <= MaxDepth
        /\ Modal(ed, b, db, cache, gen) /\ StackInv(u, db, cache, gen)
    BY ModalOnTop DEF ModalKinds
  <1>2. IsEditor(ed, db)
    BY <1>1, ModalKind
  <1>3. /\ ed.table \in DOMAIN db /\ ed.cols = db[ed.table].columns /\ ed.focus \in Nat
        /\ ed.id = 0 \/ ed.id \in DOMAIN db[ed.table].rows
    BY <1>2 DEF IsEditor
  <1>4. nf \in Nat
    BY <1>1, <1>3, TableFacts
  <1>5. ASSUME NEW i \in Nat PROVE StackInv(On(i), db, cache, gen)
    <2> DEFINE g == [ed EXCEPT !.focus = i]
    <2>1. IsEditor(g, db) /\ g.kind = "Editor"
      BY <1>2, <1>5, EditorFocused
    <2> HIDE DEF g
    <2>2. TopOk(g, b, db, cache, gen)
      BY <2>1 DEF TopOk, Modal
    <2>3. StackInv(SetTop(st, g), db, cache, gen)
      BY <1>1, <2>1, <2>2, StackSetTop
    <2>4. QED
      BY <2>3 DEF g
  <1>6. /\ (ed.focus + 1) % (nf + 2) \in Nat /\ (ed.focus + 1) % (nf + 2) <= nf + 1
        /\ (ed.focus + nf + 1) % (nf + 2) \in Nat /\ (ed.focus + nf + 1) % (nf + 2) <= nf + 1
    <2> DEFINE x == ed.focus + 1
               y == ed.focus + nf + 1
               m == nf + 2
    <2>1. x \in Nat /\ y \in Nat /\ m \in Nat \ {0} /\ m - 1 = nf + 1
      BY <1>3, <1>4
    <2> HIDE DEF x, y, m
    <2>2. x % m \in Nat /\ x % m <= m - 1 /\ y % m \in Nat /\ y % m <= m - 1
      BY <2>1, ModRange
    <2>3. QED
      BY <2>1, <2>2 DEF x, y, m
  <1>7. \/ Goto(u) \/ Goto(st)
        \/ Goto(On((ed.focus + 1) % (nf + 2))) \/ Goto(On((ed.focus + nf + 1) % (nf + 2)))
        \/ ed.focus < nf /\ \E st2 \in open_builder(ed, st) : Goto(st2)
        \/ Written /\ Committed /\ stack' = u
    BY DEF key_editor, commit_editor
  <1>8. ed.focus < nf => \A st2 \in open_builder(ed, st) : StackInv(st2, db, cache, gen)
    BY <1>2, BuilderOpened
  <1>9. CASE \E v : Goto(v) /\ StackInv(v, db, cache, gen)
    BY <1>1, <1>9, GotoKeeps
  <1>10. CASE Written /\ Committed /\ stack' = u
    <2>1. PICK cells \in Rows(ed.table) :
             IF ed.id = 0 THEN insert(ed.table, cells) ELSE update(ed.table, ed.id, cells)
      BY <1>10
    <2>2. Good(db') /\ NothingLost
      <3>1. CASE ed.id = 0
        <4>1. insert(ed.table, cells)
          BY <2>1, <3>1
        <4>2. QED
          BY <1>1, <1>3, <4>1, InsertCall
      <3>2. CASE ed.id # 0
        <4>1. update(ed.table, ed.id, cells) /\ ed.id \in DOMAIN db[ed.table].rows
          BY <1>3, <2>1, <3>2
        <4>2. QED
          BY <1>1, <1>3, <4>1, UpdateCall
      <3>3. QED
        BY <3>1, <3>2
    <2>3. Solid(u, db)
      BY <1>1, SolidPop
    <2>4. QED
      BY <1>1, <1>10, <2>2, <2>3, CommitKeeps
  <1>11. QED
    <2> DEFINE x == (ed.focus + 1) % (nf + 2)
               y == (ed.focus + nf + 1) % (nf + 2)
    <2>1. StackInv(On(x), db, cache, gen) /\ StackInv(On(y), db, cache, gen)
      BY <1>5, <1>6
    <2> HIDE DEF ed, nf, On, x, y, Written
    <2>2. Goto(u) \/ Goto(st) \/ Goto(On(x)) \/ Goto(On(y))
          \/ (ed.focus < nf /\ \E st2 \in open_builder(ed, st) : Goto(st2)) \/ (Written /\ Committed /\ stack' = u)
      BY <1>7 DEF x, y
    <2>3. QED
      BY <1>1, <1>8, <1>9, <1>10, <2>1, <2>2

\* key_builder and commit_builder.
LEMMA KeyBuilder ==
    ASSUME NEW st, Handles(st), Last(st).kind = "Builder", NEW k, key_builder(k, st)
    PROVE  After /\ Harmless
  <1> DEFINE s == Last(st)
             b == st[Len(st) - 1]
             u == Pop(st)
             On(i) == SetTop(st, [s EXCEPT !.focus = i])
             back == SetTop(u, [Last(u) EXCEPT !.focus = s.field])
             m == total(s)
  <1>1. /\ Running /\ StackInv(st, db, cache, gen) /\ Good(db) /\ Len(st) > 1 /\ Len(st) # 1 /\ Len(u) <= MaxDepth
        /\ Modal(s, b, db, cache, gen) /\ StackInv(u, db, cache, gen) /\ Last(u) = b
    BY ModalOnTop DEF ModalKinds
  <1>2. IsBuilder(s, b, db)
    BY <1>1, ModalKind
  <1>3. s.parts \in Nat /\ s.focus \in Nat /\ b.kind = "Editor" /\ s.field = b.focus
    BY <1>2 DEF IsBuilder
  <1>4. ASSUME NEW i \in Nat PROVE StackInv(On(i), db, cache, gen)
    <2> DEFINE g == [s EXCEPT !.focus = i]
    <2>1. IsBuilder(g, b, db) /\ g.kind = "Builder"
      BY <1>2, BuilderFocused
    <2> HIDE DEF g
    <2>2. TopOk(g, b, db, cache, gen)
      BY <2>1 DEF TopOk, Modal
    <2>3. StackInv(SetTop(st, g), db, cache, gen)
      BY <1>1, <2>1, <2>2, StackSetTop
    <2>4. QED
      BY <2>3 DEF g
  <1>5. StackInv(back, db, cache, gen)
    <2>1. Len(u) # 1 /\ Len(u) > 1 /\ TopOk(b, u[Len(u) - 1], db, cache, gen)
      <3>1. Last(u).kind # "List" /\ Len(u) \in Nat \ {0}
        BY <1>1, <1>3, OnTop
      <3>2. Len(u) # 1
        BY <1>1, <3>1, OnTop
      <3>3. Len(u) > 1
        BY <3>1, <3>2, OneOrMore, Zenon
      <3>4. QED
        BY <1>1, <3>2, <3>3, OnTop
    <2>2. IsEditor(b, db)
      <3>1. ~Base(b, db)
        BY <1>3, BaseKind DEF BaseKinds
      <3>2. QED
        BY <1>3, <2>1, <3>1, ModalKind DEF TopOk
    <2>3. b.focus \in Nat
      BY <2>2 DEF IsEditor
    <2> DEFINE g == [b EXCEPT !.focus = b.focus]
    <2>4. IsEditor(g, db) /\ g.kind = "Editor"
      BY <2>2, <2>3, EditorFocused
    <2> HIDE DEF g
    <2>5. TopOk(g, u[Len(u) - 1], db, cache, gen)
      BY <2>4 DEF TopOk, Modal
    <2>6. StackInv(SetTop(u, g), db, cache, gen)
      BY <1>1, <1>3, <2>1, <2>4, <2>5, StackSetTop
    <2>7. back = SetTop(u, g)
      BY <1>1, <1>3 DEF g
    <2>8. QED
      BY <2>6, <2>7
  <1>6. (s.focus + 1) % m \in Nat /\ (s.focus + m - 1) % m \in Nat
    <2> DEFINE p == s.parts
    <2>1. m = p + Buttons(s) + 1 + 1 /\ p \in Nat
      BY <1>3 DEF total, cancel_index, ok_index
    <2>2. Buttons(s) \in 0..2
      BY DEF Buttons
    <2>3. m \in Nat \ {0}
      <3> HIDE DEF m, p
      <3>1. QED
        BY <2>1, <2>2
    <2> HIDE DEF m
    <2>4. s.focus + 1 \in Nat /\ s.focus + m - 1 \in Nat
      BY <1>3, <2>3
    <2>5. QED
      BY <2>3, <2>4, ModRange
  <1> DEFINE x == (s.focus + 1) % m
             y == (s.focus + m - 1) % m
  <1>7. Goto(u) \/ Goto(st) \/ Goto(On(x)) \/ Goto(On(y)) \/ Goto(back)
    <2>1. commit_builder(s, st) => Goto(back) \/ Goto(u) \/ Goto(st)
      BY DEF commit_builder
    <2>2. QED
      BY <2>1 DEF key_builder
  <1>8. StackInv(On(x), db, cache, gen) /\ StackInv(On(y), db, cache, gen)
    BY <1>4, <1>6
  <1> HIDE DEF On, x, y, back, u
  <1>9. QED
    BY <1>1, <1>5, <1>7, <1>8, GotoKeeps

\* dispatch, the arm of FkPick.
LEMMA KeyFkPick ==
    ASSUME NEW st, Handles(st), Last(st).kind = "FkPick", NEW k, key_fk_pick(k, st)
    PROVE  After /\ Harmless
  <1> DEFINE s == Last(st)
             N == Len(st)
             b == st[N - 1]
             n == Len(s.rows)
             sel == Clamp(s.sel, n)
             At(i) == [s EXCEPT !.sel = i]
             here == SetTop(st, At(sel))
             id == s.rows[sel + 1]
  <1>1. /\ Running /\ StackInv(st, db, cache, gen) /\ Good(db) /\ N > 1 /\ N # 1 /\ Len(st) <= MaxDepth
        /\ Modal(s, b, db, cache, gen)
    BY ModalOnTop DEF ModalKinds
  <1>2. IsFkPick(s, b, db)
    BY <1>1, ModalKind
  <1>3. s.sel \in Nat /\ n \in Nat
    <2> DEFINE q == s.rows
    <2>1. q \in Seq(DOMAIN db[s.to_table].rows) /\ s.sel \in Nat
      BY <1>2 DEF IsFkPick
    <2> HIDE DEF q
    <2>2. Len(q) \in Nat
      BY <2>1
    <2>3. QED
      BY <2>1, <2>2 DEF q
  <1>4. sel \in Nat /\ Move(k, sel, n) \in Nat
    BY <1>3, ClampRange, MoveRange
  <1>5. ASSUME NEW i \in Nat PROVE IsFkPick(At(i), b, db) /\ At(i).kind = "FkPick"
    BY <1>2, FkPickAt
  <1>6. \A i \in Nat : /\ StackInv(SetTop(st, At(i)), db, cache, gen) /\ Len(SetTop(st, At(i))) = N
                       /\ Last(SetTop(st, At(i))) = At(i)
                       /\ \A j \in 1..(N - 1) : SetTop(st, At(i))[j] = st[j]
    <2> SUFFICES ASSUME NEW i \in Nat
                 PROVE  /\ StackInv(SetTop(st, At(i)), db, cache, gen) /\ Len(SetTop(st, At(i))) = N
                        /\ Last(SetTop(st, At(i))) = At(i)
                        /\ \A j \in 1..(N - 1) : SetTop(st, At(i))[j] = st[j]
      OBVIOUS
    <2> DEFINE g == At(i)
    <2>1. TopOk(g, b, db, cache, gen) /\ g.kind = Last(st).kind /\ g.kind # "Confirm"
      BY <1>5 DEF TopOk, Modal
    <2> HIDE DEF g
    <2>2. /\ StackInv(SetTop(st, g), db, cache, gen) /\ Len(SetTop(st, g)) = Len(st) /\ Last(SetTop(st, g)) = g
          /\ \A j \in 1..(Len(st) - 1) : SetTop(st, g)[j] = st[j]
      BY <1>1, <2>1, StackSetTop
    <2>3. QED
      BY <2>2 DEF g
  <1>7. StackInv(here, db, cache, gen) /\ StackInv(Pop(here), db, cache, gen)
    BY <1>4, <1>6, StackPop
  <1>8. fk_select(s, id, here) \in {here, Pop(here)}
    <2> DEFINE e == SelectLastInSeq(here, LAMBDA x : x.kind = "Editor")
    <2>1. N \in Nat /\ N - 1 \in 1..N /\ IsStack(here) /\ Len(here) = N /\ here[N] = At(sel)
      <3>1. N \in Nat
        BY <1>1, OnTop
      <3>2. IsStack(here) /\ Len(here) = N /\ Last(here) = At(sel)
        BY <1>4, <1>6, <1>7 DEF StackInv
      <3>3. here[N] = At(sel)
        BY <3>2 DEF Last
      <3> HIDE DEF N
      <3>4. N - 1 \in 1..N
        BY <1>1, <3>1
      <3>5. QED
        BY <3>1, <3>2, <3>3, <3>4
    <2>2. \A j \in 1..(N - 1) : here[j] = st[j]
      BY <1>4, <1>6
    <2>3. b.kind = "Editor" /\ s.field = b.focus
      BY <1>2 DEF IsFkPick
    <2>4. here[N - 1] = b
      <3> HIDE DEF N, here
      <3>1. N - 1 \in 1..(N - 1)
        BY <2>1
      <3>2. QED
        BY <2>2, <3>1
    <2>5. ASSUME NEW i \in 1..Len(here), i # N - 1 PROVE here[i].kind # "Editor"
      <3>1. CASE i = N
        BY <1>4, <1>5, <2>1, <3>1
      <3>2. CASE i # N
        <4>1. i \in 1..(N - 1) /\ i \in 1..(N - 2) /\ (i = 1 \/ i \in 2..(N - 1))
          <5> HIDE DEF N, here
          <5>1. QED
            BY <2>1, <2>5, <3>2
        <4>2. here[i] = st[i]
          BY <2>2, <4>1
        <4>3. IsList(st[1]) /\ st[1].kind = "List"
          BY <1>1 DEF StackInv, IsList
        <4>4. i \in 2..(N - 1) => Base(st[i], db)
          <5>1. \A j \in 2..(N - 1) : Base(st[j], db) \/ j = N - 1
            BY <1>1 DEF StackInv
          <5>2. QED
            BY <2>5, <5>1
        <4>5. i \in 2..(N - 1) => st[i].kind \in BaseKinds
          BY <4>4, BaseKind
        <4>6. QED
          BY <4>1, <4>2, <4>3, <4>5 DEF BaseKinds
      <3>3. QED
        BY <3>1, <3>2
    <2>6. e = N - 1
      <3> DEFINE h == here
                 a == N - 1
      <3>1. IsStack(h) /\ a \in 1..Len(h) /\ h[a].kind = "Editor"
        BY <2>1, <2>3, <2>4
      <3>2. \A i \in 1..Len(h) : i # a => h[i].kind # "Editor"
        BY <2>5
      <3> HIDE DEF h, a
      <3>3. SelectLastInSeq(h, LAMBDA x : x.kind = "Editor") = a
        BY <3>1, <3>2, EditorBelow
      <3>4. QED
        BY <3>3 DEF h, a
    <2>7. [here EXCEPT ![e].focus = s.field] = here
      <3> DEFINE h == here
                 a == N - 1
                 f == s.field
      <3>1. IsStack(h) /\ a \in 1..Len(h) /\ h[a] = b /\ f = b.focus
        BY <2>1, <2>3, <2>4
      <3>2. IsEditor(b, db)
        <4>1. CASE N = 2
          <5>1. b.kind = "List"
            BY <1>1, <4>1 DEF StackInv, IsList
          <5>2. QED
            BY <2>3, <5>1
        <4>2. CASE N # 2
          <5>1. N - 1 \in 2..(N - 1) /\ st[N - 1 + 1] = st[N]
            <6> HIDE DEF N
            <6>1. QED
              BY <1>1, <2>1, <4>2
          <5>2. Base(b, db) \/ Covered(b, st[N - 1 + 1], db)
            BY <1>1, <5>1 DEF StackInv
          <5>3. ~Base(b, db)
            BY <2>3, BaseKind DEF BaseKinds
          <5>4. st[N - 1 + 1] = s /\ s.kind \in {"Builder", "FkPick"}
            BY <1>1, <5>1, OnTop
          <5>5. QED
            BY <5>2, <5>3, <5>4, CoveredKind
        <4>3. QED
          BY <4>1, <4>2
      <3>3. [b EXCEPT !.focus = b.focus] = b
        BY <3>2 DEF IsEditor
      <3> HIDE DEF h, a, f, b
      <3>4. [h EXCEPT ![a].focus = f] = [h EXCEPT ![a] = b]
        BY <3>1, <3>3
      <3>5. [h EXCEPT ![a] = b] = h
        BY <3>1, StackBasics DEF IsStack
      <3>6. QED
        BY <2>6, <3>4, <3>5 DEF h, a, f
    <2>8. QED
      BY <2>7 DEF fk_select
  <1>9. \/ Goto(Pop(here)) \/ Goto(here) \/ Goto(SetTop(st, At(Move(k, sel, n))))
        \/ Goto(fk_select(s, id, here))
    BY DEF key_fk_pick, Read
  <1>10. StackInv(SetTop(st, At(Move(k, sel, n))), db, cache, gen)
    BY <1>4, <1>6
  <1> HIDE DEF here, At, id, sel, n
  <1>11. QED
    BY <1>1, <1>7, <1>8, <1>9, <1>10, GotoKeeps

-----------------------------------------------------------------------------
(* Confirmations *)

\* A step that loses nothing is not a destructive one.
LEMMA LossIsSeen ==
    ASSUME Good(db), Good(db'), Harmless
    PROVE  ~Destroys
  <1>1. ~DropsTable /\ ~DeletesRow
    BY DEF Harmless, NothingLost, DropsTable, DeletesRow, Remaining
  <1>2. ~DropsColumn
    <2> SUFFICES ASSUME NEW t \in DOMAIN db, t \in DOMAIN db', Len(db'[t].columns) < Len(db[t].columns)
                 PROVE  FALSE
      BY DEF DropsColumn, Remaining
    <2> DEFINE m == Len(db[t].columns)
               n == Len(db'[t].columns)
    <2>1. m \in Nat /\ n \in Nat
      BY TableFacts
    <2>2. n >= m
      BY DEF Harmless, NothingLost
    <2>3. n < m
      OBVIOUS
    <2> HIDE DEF m, n
    <2>4. QED
      BY <2>1, <2>2, <2>3
  <1>3. QED
    BY <1>1, <1>2 DEF Harmless, Destroys

\* delete loses the one row.
LEMMA DeleteCall ==
    ASSUME Good(db), NEW t \in DOMAIN db, NEW id \in DOMAIN db[t].rows, delete(t, id)
    PROVE  /\ Good(db') /\ DOMAIN db' = DOMAIN db /\ ~DropsTable /\ ~DropsColumn /\ DeletesRow
           /\ DOMAIN db[t].rows \ DOMAIN db'[t].rows = {id}
  <1>1. Good(db')
    BY DeleteKeeps
  <1> DEFINE new == [r \in DOMAIN db[t].rows \ {id} |-> db[t].rows[r]]
             cnt == IF db[t].row_count = 0 THEN 0 ELSE db[t].row_count - 1
             T2 == [db[t] EXCEPT !.rows = new, !.row_count = cnt]
  <1>2. db' = [db EXCEPT ![t] = T2]
    BY DEF delete
  <1>3. IsTable(db[t]) /\ \A o \in DOMAIN db : Len(db[o].columns) \in Nat
    BY TableFacts DEF Sound
  <1>4. DOMAIN new = DOMAIN db[t].rows \ {id}
    OBVIOUS
  <1> HIDE DEF new, cnt
  <1>5. T2.columns = db[t].columns /\ T2.rows = new
    BY <1>3 DEF IsTable
  <1> HIDE DEF T2
  <1>6. DOMAIN db' = DOMAIN db /\ db'[t] = T2 /\ \A o \in DOMAIN db : o # t => db'[o] = db[o]
    BY <1>2
  <1>7. \A o \in DOMAIN db : db'[o].columns = db[o].columns
    BY <1>5, <1>6
  <1>8. ~DropsTable
    BY <1>6 DEF DropsTable
  <1>9. ~DropsColumn
    BY <1>3, <1>6, <1>7 DEF DropsColumn, Remaining
  <1>10. DOMAIN db[t].rows \ DOMAIN db'[t].rows = {id}
    BY <1>4, <1>5, <1>6
  <1>11. DeletesRow
    BY <1>6, <1>10 DEF DeletesRow, Remaining
  <1>12. QED
    BY <1>1, <1>6, <1>8, <1>9, <1>10, <1>11

\* drop_table loses the one table.
LEMMA DropTableCall ==
    ASSUME Good(db), NEW t \in DOMAIN db, drop_table(t)
    PROVE  /\ Good(db') /\ DropsTable /\ ~DropsColumn /\ ~DeletesRow
           /\ DOMAIN db \ DOMAIN db' = {t}
  <1>1. Good(db')
    BY DropTableKeeps
  <1>2. DOMAIN db' = DOMAIN db \ {t} /\ \A o \in DOMAIN db' : db'[o] = db[o]
    BY DEF drop_table
  <1>3. \A o \in DOMAIN db : Len(db[o].columns) \in Nat
    BY TableFacts
  <1>4. DropsTable /\ DOMAIN db \ DOMAIN db' = {t}
    BY <1>2 DEF DropsTable
  <1>5. ~DropsColumn /\ ~DeletesRow
    BY <1>2, <1>3 DEF DropsColumn, DeletesRow, Remaining
  <1>6. QED
    BY <1>1, <1>4, <1>5

\* drop_column loses the one column, under whatever position.
LEMMA DropColumnCall ==
    ASSUME Good(db), NEW t \in DOMAIN db, NEW c \in ColName, drop_column(t, c)
    PROVE  /\ Good(db') /\ DOMAIN db' = DOMAIN db /\ ~DropsTable /\ DropsColumn /\ ~DeletesRow
           /\ Names(db[t]) \ {db'[t].columns[i].name : i \in DOMAIN db'[t].columns} = {c}
  <1>1. Good(db')
    BY DropColumnKeeps
  <1> DEFINE s == db[t].columns
             n == Len(s)
             k == column_index(db[t], c)
             cols == RemoveAt(s, k)
             labels == Retained(db[t].ref_cols, {j \in DOMAIN db[t].ref_cols : db[t].ref_cols[j] # c})
             new == [id \in DOMAIN db[t].rows |-> RemoveAt(db[t].rows[id], k)]
             T2 == [db[t] EXCEPT !.columns = cols, !.ref_cols = labels, !.rows = new]
  <1>2. db' = [db EXCEPT ![t] = T2]
    BY DEF drop_column
  <1>3. /\ IsTable(db[t]) /\ s \in Seq(Column) /\ n \in Nat /\ DOMAIN s = 1..n
        /\ NamesDiffer(s) /\ \A o \in DOMAIN db : Len(db[o].columns) \in Nat
    BY TableFacts DEF Sound
  <1>4. k \in 1..n /\ s[k].name = c
    <2>1. c \in Names(db[t])
      BY DEF drop_column
    <2>2. QED
      BY <1>3, <2>1, LookedUp
  <1>5. DOMAIN new = DOMAIN db[t].rows
    OBVIOUS
  <1>6. Len(cols) = n - 1 /\ \A j \in 1..(n - 1) : cols[j] = IF j < k THEN s[j] ELSE s[j + 1]
    <2> HIDE DEF s, k
    <2>1. QED
      BY <1>3, <1>4, RemoveAtElements
  <1>7. DOMAIN cols = 1..(n - 1)
    <2>1. cols \in Seq(Column)
      <3> HIDE DEF s, k
      <3>1. QED
        BY <1>3, <1>4, RemoveAtElements
    <2> HIDE DEF cols
    <2>2. QED
      BY <1>6, <2>1
  <1> HIDE DEF cols, labels, new
  <1>8. T2.columns = cols /\ T2.rows = new
    BY <1>3 DEF IsTable
  <1> HIDE DEF T2
  <1>9. DOMAIN db' = DOMAIN db /\ db'[t] = T2 /\ \A o \in DOMAIN db : o # t => db'[o] = db[o]
    BY <1>2
  <1>10. ~DropsTable
    BY <1>9 DEF DropsTable
  <1>11. ~DeletesRow
    BY <1>5, <1>8, <1>9 DEF DeletesRow, Remaining
  <1>12. DropsColumn
    <2>1. Len(db'[t].columns) < Len(db[t].columns)
      BY <1>3, <1>6, <1>8, <1>9
    <2>2. QED
      BY <1>9, <2>1 DEF DropsColumn, Remaining
  <1>13. Names(db[t]) \ {cols[i].name : i \in DOMAIN cols} = {c}
    <2>1. Names(db[t]) = {s[j].name : j \in 1..n}
      BY <1>3 DEF Names
    <2>2. \A i, j \in 1..n : s[i].name = s[j].name => i = j
      BY <1>3 DEF NamesDiffer
    <2> HIDE DEF s, n, k
    <2>3. ASSUME NEW j \in 1..n, j # k
          PROVE  \E i \in 1..(n - 1) : cols[i].name = s[j].name
      <3>1. CASE j < k
        <4>1. j \in 1..(n - 1) /\ cols[j] = s[j]
          BY <1>3, <1>4, <1>6, <3>1
        <4>2. QED
          BY <4>1
      <3>2. CASE j > k
        <4>1. j - 1 \in 1..(n - 1) /\ ~(j - 1 < k) /\ j - 1 + 1 = j
          BY <1>3, <1>4, <3>2
        <4>2. cols[j - 1] = s[j]
          BY <1>6, <4>1
        <4>3. QED
          BY <4>1, <4>2
      <3>3. QED
        BY <1>3, <1>4, <2>3, <3>1, <3>2
    <2>4. \A i \in 1..(n - 1) : cols[i].name # c
      <3> SUFFICES ASSUME NEW i \in 1..(n - 1) PROVE cols[i].name # c
        OBVIOUS
      <3>1. CASE i < k
        BY <1>3, <1>4, <1>6, <2>2, <3>1
      <3>2. CASE ~(i < k)
        <4>1. i + 1 \in 1..n /\ i + 1 # k
          BY <1>3, <1>4, <3>2
        <4>2. QED
          BY <1>4, <1>6, <2>2, <3>2, <4>1
      <3>3. QED
        BY <3>1, <3>2
    <2>5. QED
      BY <1>4, <1>7, <2>1, <2>3, <2>4
  <1>14. QED
    BY <1>1, <1>8, <1>9, <1>10, <1>11, <1>12, <1>13

\* key_confirm and resolve_confirm: the only handler that destroys anything.
LEMMA KeyConfirm ==
    ASSUME NEW st, Handles(st), Last(st).kind = "Confirm", NEW k, key_confirm(k, st)
    PROVE  After /\ (Destroys => Answers(st))
  <1> DEFINE a == Last(st).action
             b == st[Len(st) - 1]
             u == Pop(st)
             result == Push(PopToList(u), Panel("InstallResult"))
  <1>1. /\ Running /\ StackInv(st, db, cache, gen) /\ Good(db) /\ Len(st) > 1 /\ Len(st) # 1 /\ Len(u) <= MaxDepth
        /\ Len(st) <= MaxDepth /\ Modal(Last(st), b, db, cache, gen) /\ StackInv(u, db, cache, gen)
    BY ModalOnTop DEF ModalKinds
  <1>2. ConfirmAct(a, b, db, cache, gen)
    BY <1>1, ModalKind DEF IsConfirm
  <1>3. a.op # "CreateOs" => Solid(u, db)
    BY <1>1, SolidPop
  <1>4. 1 <= MaxDepth /\ 2 <= MaxDepth
    <2> DEFINE n == Len(st)
    <2>1. n \in Nat /\ MaxDepth \in Nat /\ n > 1 /\ n <= MaxDepth
      BY <1>1, OnTop, UiAssumption
    <2> HIDE DEF n
    <2>2. QED
      BY <2>1
  <1> DEFINE Op == CASE DropsTable -> "DropTable"
                     [] DropsColumn -> "DropColumn"
                     [] DeletesRow -> "DeleteRow"
                     [] installed' # installed -> "CreateOs"
                     [] OTHER -> "Shutdown"
  <1>5. Answers(st) <=>
            /\ a.op = Op
            /\ DropsTable => DOMAIN db \ DOMAIN db' = {a.table}
            /\ DropsColumn => Names(db[a.table]) \ {db'[a.table].columns[i].name :
                                i \in DOMAIN db'[a.table].columns} = {a.col}
            /\ DeletesRow => /\ DOMAIN db[a.table].rows \ DOMAIN db'[a.table].rows = {a.id}
                             /\ b.kind = "Browser" /\ b.table = a.table
                             /\ <<cache.table, cache.filter, cache.sort, cache.gen>> =
                                    <<b.table, b.filter, b.sort, gen>>
                             /\ cache.rows[b.row + 1] = a.id
    BY DEF Answers
  <1> HIDE DEF a, b, u
  <1>6. Goto(u) \/ Goto(st) \/ resolve_confirm(a, u)
    BY DEF key_confirm, a, u
  <1>7. CASE Goto(u) \/ Goto(st)
    <2>1. After /\ Harmless
      BY <1>1, <1>7, GotoKeeps
    <2>2. ~Destroys
      BY <1>1, <2>1, LossIsSeen DEF After, RestOk
    <2>3. QED
      BY <2>1, <2>2
  <1>8. ASSUME db' = db PROVE ~DropsTable /\ ~DropsColumn /\ ~DeletesRow
    <2>1. \A o \in DOMAIN db : Len(db[o].columns) \in Nat
      BY <1>1, TableFacts
    <2>2. QED
      BY <1>8, <2>1 DEF DropsTable, DropsColumn, DeletesRow, Remaining
  <1>9. CASE resolve_confirm(a, u) /\ a = [op |-> "Shutdown"]
    <2>1. a.op = "Shutdown"
      BY <1>9
    <2>2. power' = "off" /\ stack' = u /\ UNCHANGED <<db, gen, cache, installed>>
      BY <1>9, <2>1 DEF resolve_confirm
    <2>3. Op = "Shutdown" /\ ~DropsTable /\ ~DropsColumn /\ ~DeletesRow
      BY <1>8, <2>2
    <2>4. After
      BY <1>1, <2>2 DEF Running, RestOk, After
    <2> HIDE DEF Op
    <2>5. QED
      BY <1>5, <2>1, <2>3, <2>4
  <1>10. CASE /\ resolve_confirm(a, u)
              /\ a = [op |-> "DeleteRow", table |-> a.table, id |-> a.id]
              /\ b.kind = "Browser" /\ b.table = a.table /\ a.table \in DOMAIN db
              /\ a.id \in DOMAIN db[a.table].rows
              /\ <<cache.table, cache.filter, cache.sort, cache.gen>> =
                    <<b.table, b.filter, b.sort, gen>>
              /\ cache.rows[b.row + 1] = a.id
    <2>1. a.op = "DeleteRow" /\ a.op # "CreateOs"
      BY <1>10
    <2>2. Goto(u) \/ (delete(a.table, a.id) /\ Committed /\ stack' = u)
      BY <1>10, <2>1 DEF resolve_confirm
    <2>3. CASE delete(a.table, a.id) /\ Committed /\ stack' = u
      <3>1. /\ Good(db') /\ DOMAIN db' = DOMAIN db /\ ~DropsTable /\ ~DropsColumn /\ DeletesRow
            /\ DOMAIN db[a.table].rows \ DOMAIN db'[a.table].rows = {a.id}
        BY <1>1, <1>10, <2>3, DeleteCall
      <3>2. StackInv(u, db', cache', gen')
        BY <1>3, <2>1, <3>1, SolidKept
      <3>3. After /\ installed' = installed
        BY <1>1, <2>3, <3>1, <3>2, CommittedStack
      <3>4. Op = "DeleteRow"
        BY <3>1, <3>3
      <3> HIDE DEF Op
      <3>5. QED
        BY <1>5, <1>10, <2>1, <3>1, <3>3, <3>4
    <2>4. QED
      BY <1>7, <2>2, <2>3
  <1>11. CASE /\ resolve_confirm(a, u)
              /\ a = [op |-> "DropTable", table |-> a.table] /\ a.table \in DOMAIN db
    <2>1. a.op = "DropTable"
      BY <1>11
    <2>2. Goto(u) \/ (drop_table(a.table) /\ Committed /\ stack' = PopToList(u))
      BY <1>11, <2>1 DEF resolve_confirm
    <2>3. CASE drop_table(a.table) /\ Committed /\ stack' = PopToList(u)
      <3>1. /\ Good(db') /\ DropsTable /\ ~DropsColumn /\ ~DeletesRow
            /\ DOMAIN db \ DOMAIN db' = {a.table}
        BY <1>1, <1>11, <2>3, DropTableCall
      <3>2. StackInv(PopToList(u), db', cache', gen') /\ Len(PopToList(u)) = 1
        BY <1>1, ListAlone
      <3>3. After /\ installed' = installed
        BY <1>1, <1>4, <2>3, <3>1, <3>2, CommittedStack
      <3>4. Op = "DropTable"
        BY <3>1, <3>3
      <3> HIDE DEF Op
      <3>5. QED
        BY <1>5, <2>1, <3>1, <3>3, <3>4
    <2>4. QED
      BY <1>7, <2>2, <2>3
  <1>12. CASE /\ resolve_confirm(a, u)
              /\ a = [op |-> "DropColumn", table |-> a.table, col |-> a.col]
              /\ a.table \in DOMAIN db /\ a.col \in Names(db[a.table])
    <2>1. a.op = "DropColumn" /\ a.op # "CreateOs"
      BY <1>12
    <2>2. Goto(u) \/ (drop_column(a.table, a.col) /\ Committed /\ stack' = u)
      BY <1>12, <2>1 DEF resolve_confirm
    <2>3. CASE drop_column(a.table, a.col) /\ Committed /\ stack' = u
      <3>1. a.col \in ColName
        BY <1>1, <1>12, TableFacts
      <3>2. /\ Good(db') /\ DOMAIN db' = DOMAIN db /\ ~DropsTable /\ DropsColumn /\ ~DeletesRow
            /\ Names(db[a.table]) \ {db'[a.table].columns[i].name :
                                       i \in DOMAIN db'[a.table].columns} = {a.col}
        BY <1>1, <1>12, <2>3, <3>1, DropColumnCall
      <3>3. StackInv(u, db', cache', gen')
        BY <1>3, <2>1, <3>2, SolidKept
      <3>4. After /\ installed' = installed
        BY <1>1, <2>3, <3>2, <3>3, CommittedStack
      <3>5. Op = "DropColumn"
        BY <3>2, <3>4
      <3> HIDE DEF Op
      <3>6. QED
        BY <1>5, <2>1, <3>2, <3>4, <3>5
    <2>4. QED
      BY <1>7, <2>2, <2>3
  <1>13. CASE resolve_confirm(a, u) /\ a = [op |-> "CreateOs", drive |-> a.drive] /\ a.drive \in Drive
    <2>1. a.op = "CreateOs"
      BY <1>13
    <2>2. /\ installed' \in {installed, installed \cup {a.drive}} /\ stack' = result
          /\ UNCHANGED <<db, gen, cache, power>>
      BY <1>13, <2>1 DEF resolve_confirm
    <2>3. StackInv(result, db, cache, gen) /\ Len(result) = 2
      <3> DEFINE l == PopToList(u)
      <3>1. StackInv(l, db, cache, gen) /\ Len(l) = 1
        BY <1>1, ListAlone
      <3> HIDE DEF l
      <3>2. IsPanel(Panel("InstallResult"))
        BY DEF IsPanel, Panel
      <3>3. TopOk(Panel("InstallResult"), Last(l), db, cache, gen)
        BY <3>2 DEF TopOk, Modal
      <3>4. Solid(l, db)
        BY <3>1, SolidBase
      <3>5. /\ StackInv(Push(l, Panel("InstallResult")), db, cache, gen)
            /\ Len(Push(l, Panel("InstallResult"))) = Len(l) + 1
        BY <3>3, <3>4, NewScreen
      <3>6. QED
        BY <3>1, <3>5 DEF l
    <2> HIDE DEF result
    <2>4. After
      BY <1>1, <1>4, <1>13, <2>2, <2>3 DEF Running, RestOk, After
    <2>5. CASE installed' = installed
      <3>1. ~Destroys
        BY <1>1, <1>8, <2>2, <2>5 DEF Destroys, Running
      <3>2. QED
        BY <2>4, <3>1
    <2>6. CASE installed' # installed
      <3>1. Op = "CreateOs" /\ ~DropsTable /\ ~DropsColumn /\ ~DeletesRow
        BY <1>8, <2>2, <2>6
      <3> HIDE DEF Op
      <3>2. QED
        BY <1>5, <2>1, <2>4, <3>1
    <2>7. QED
      BY <2>5, <2>6
  <1>14. QED
    BY <1>2, <1>6, <1>7, <1>9, <1>10, <1>11, <1>12, <1>13 DEF ConfirmAct

-----------------------------------------------------------------------------
(* Events *)

\* on_key: whichever screen takes the key, and what is lost by it was confirmed.
LEMMA OnKey ==
    ASSUME NEW st, Handles(st), NEW k, on_key(k, st)
    PROVE  After /\ (Destroys => Answers(st))
  <1> DEFINE kind == Last(st).kind
  <1>1. Good(db) /\ StackInv(st, db, cache, gen)
    BY DEF Handles, Running, RestOk
  <1>2. ASSUME After, Harmless PROVE After /\ (Destroys => Answers(st))
    BY <1>1, <1>2, LossIsSeen DEF After, RestOk
  <1>3. kind \in {"List"} \cup BaseKinds \cup ModalKinds
    BY <1>1, OnTop, OneOrMore, Zenon
  <1>4. CASE kind = "List"
    <2>1. key_list(k, st)
      BY <1>4 DEF on_key
    <2>2. QED
      BY <1>2, <1>4, <2>1, KeyList
  <1>5. CASE kind = "Browser"
    <2>1. key_browser(k, st)
      BY <1>5 DEF on_key
    <2>2. QED
      BY <1>2, <1>5, <2>1, KeyBrowser
  <1>6. CASE kind = "RowView"
    <2>1. key_rowview(k, st)
      BY <1>6 DEF on_key
    <2>2. QED
      BY <1>2, <1>6, <2>1, KeyRowView
  <1>7. CASE kind = "Schema"
    <2>1. key_schema(k, st)
      BY <1>7 DEF on_key
    <2>2. QED
      BY <1>2, <1>7, <2>1, KeySchema
  <1>8. CASE kind = "RefCols"
    <2>1. key_refcols(k, st)
      BY <1>8 DEF on_key
    <2>2. QED
      BY <1>2, <1>8, <2>1, KeyRefCols
  <1>9. CASE kind = "Prompt"
    <2>1. key_prompt(k, st)
      BY <1>9 DEF on_key
    <2>2. QED
      BY <1>2, <1>9, <2>1, KeyPrompt
  <1>10. CASE kind = "Pick"
    <2>1. key_pick(k, st)
      BY <1>10 DEF on_key
    <2>2. QED
      BY <1>2, <1>10, <2>1, KeyPick
  <1>11. CASE kind = "Confirm"
    <2>1. key_confirm(k, st)
      BY <1>11 DEF on_key
    <2>2. QED
      BY <1>11, <2>1, KeyConfirm
  <1>12. CASE kind = "Editor"
    <2>1. key_editor(k, st)
      BY <1>12 DEF on_key
    <2>2. QED
      BY <1>2, <1>12, <2>1, KeyEditor
  <1>13. CASE kind = "Builder"
    <2>1. key_builder(k, st)
      BY <1>13 DEF on_key
    <2>2. QED
      BY <1>2, <1>13, <2>1, KeyBuilder
  <1>14. CASE kind = "FkPick"
    <2>1. key_fk_pick(k, st)
      BY <1>14 DEF on_key
    <2>2. QED
      BY <1>2, <1>14, <2>1, KeyFkPick
  <1>15. CASE kind = "CreateOsPick"
    <2>1. key_create_os_pick(k, st)
      BY <1>15 DEF on_key
    <2>2. QED
      BY <1>2, <1>15, <2>1, KeyCreateOsPick
  <1>16. CASE kind = "InstallResult"
    <2>1. key_install_result(k, st)
      BY <1>16 DEF on_key
    <2>2. QED
      BY <1>2, <1>16, <2>1, KeyInstallResult
  <1>17. CASE kind \in {"Drives", "Pci", "Xhci", "About"}
    <2>1. key_panel(k, st)
      BY <1>17 DEF on_key
    <2>2. QED
      BY <1>2, <1>17, <2>1, KeyPanel
  <1>18. QED
    BY <1>3, <1>4, <1>5, <1>6, <1>7, <1>8, <1>9, <1>10, <1>11, <1>12, <1>13, <1>14, <1>15, <1>16, <1>17
       DEF BaseKinds, ModalKinds

\* A click moves the cursor of the screen on top, and leaves modals without one alone.
LEMMA CursorSet ==
    ASSUME NEW st, Handles(st), NEW i \in Nat
    PROVE  /\ Handles(set_cursor(st, i))
           /\ set_cursor(st, i) = st \/ Last(set_cursor(st, i)).kind # "Confirm"
  <1> DEFINE s == Last(st)
             b == st[Len(st) - 1]
             kind == s.kind
  <1>1. Running /\ StackInv(st, db, cache, gen) /\ Len(st) <= MaxDepth
    BY DEF Handles
  <1>2. /\ Len(st) = 1 => IsList(s) /\ kind = "List"
        /\ Len(st) > 1 => TopOk(s, b, db, cache, gen) /\ kind \in BaseKinds \cup ModalKinds
        /\ kind = "List" => Len(st) = 1
        /\ Len(st) = 1 \/ Len(st) > 1
    BY <1>1, OnTop, OneOrMore, Zenon
  <1>3. ASSUME NEW g, set_cursor(st, i) = SetTop(st, g), g.kind = kind, kind # "Confirm",
               Len(st) = 1 => IsList(g), Len(st) > 1 => TopOk(g, b, db, cache, gen)
        PROVE  /\ Handles(set_cursor(st, i))
               /\ set_cursor(st, i) = st \/ Last(set_cursor(st, i)).kind # "Confirm"
    <2>1. StackInv(SetTop(st, g), db, cache, gen) /\ Len(SetTop(st, g)) = Len(st) /\ Last(SetTop(st, g)) = g
      BY <1>1, <1>3, StackSetTop
    <2>2. QED
      BY <1>1, <1>3, <2>1 DEF Handles
  <1>4. CASE kind = "List"
    <2> DEFINE g == [s EXCEPT !.sel = i]
    <2>1. set_cursor(st, i) = SetTop(st, g)
      BY <1>4 DEF set_cursor
    <2>2. IsList(g) /\ g.kind = "List"
      <3> DEFINE j == s.sel
      <3>1. s = [kind |-> "List", sel |-> j]
        BY <1>2, <1>4 DEF IsList
      <3> HIDE DEF j
      <3>2. g = [kind |-> "List", sel |-> i]
        BY <3>1
      <3> HIDE DEF g
      <3>3. QED
        BY <3>2 DEF IsList
    <2>3. ~(Len(st) > 1)
      <3>1. Len(st) = 1
        BY <1>2, <1>4, Zenon
      <3>2. QED
        BY <3>1
    <2> HIDE DEF g
    <2>4. QED
      BY <1>3, <1>4, <2>1, <2>2, <2>3
  <1>5. CASE kind \in BaseKinds
    <2> DEFINE g == IF kind = "Browser" THEN [s EXCEPT !.row = i] ELSE [s EXCEPT !.sel = i]
    <2>1. set_cursor(st, i) = SetTop(st, g)
      BY <1>5 DEF set_cursor, BaseKinds
    <2>2. kind # "List" /\ kind # "Confirm" /\ kind \notin ModalKinds
      BY <1>5 DEF BaseKinds, ModalKinds
    <2>3. Len(st) > 1 /\ Len(st) # 1 /\ Base(s, db)
      BY <1>2, <2>2, ModalKind DEF TopOk
    <2>4. Base(g, db) /\ g.kind = kind
      <3>1. CASE kind = "Browser"
        BY <2>3, <3>1, BaseKind, BrowserEdited DEF Base
      <3>2. CASE kind = "RowView"
        BY <2>3, <3>2, BaseKind, RowViewAt DEF Base
      <3>3. CASE kind = "Schema"
        BY <2>3, <3>3, BaseKind, SchemaAt DEF Base
      <3>4. CASE kind = "RefCols"
        <4>1. <<>> \in Seq(ColName)
          OBVIOUS
        <4>2. QED
          BY <2>3, <3>4, <4>1, BaseKind, RefColsAt DEF Base
      <3>5. QED
        BY <1>5, <3>1, <3>2, <3>3, <3>4 DEF BaseKinds
    <2> HIDE DEF g
    <2>5. QED
      BY <1>3, <2>1, <2>2, <2>3, <2>4 DEF TopOk
  <1>6. CASE kind \in {"Editor", "Builder", "Pick", "CreateOsPick", "FkPick"}
    <2> DEFINE g == IF kind \in {"Editor", "Builder"} THEN [s EXCEPT !.focus = i] ELSE [s EXCEPT !.sel = i]
    <2>1. set_cursor(st, i) = SetTop(st, g)
      BY <1>6 DEF set_cursor
    <2>2. kind # "List" /\ kind # "Confirm" /\ kind \notin BaseKinds
      BY <1>6 DEF BaseKinds
    <2>3. Len(st) > 1 /\ Len(st) # 1 /\ Modal(s, b, db, cache, gen)
      BY <1>2, <2>2, BaseKind DEF TopOk
    <2>4. Modal(g, b, db, cache, gen) /\ g.kind = kind
      <3>1. CASE kind = "Editor"
        BY <2>3, <3>1, ModalKind, EditorFocused DEF Modal
      <3>2. CASE kind = "Builder"
        BY <2>3, <3>2, ModalKind, BuilderFocused DEF Modal
      <3>3. CASE kind = "Pick"
        BY <2>3, <3>3, ModalKind, PickAt DEF Modal
      <3>4. CASE kind = "CreateOsPick"
        BY <2>3, <3>4, ModalKind, CreateOsPickAt DEF Modal
      <3>5. CASE kind = "FkPick"
        BY <2>3, <3>5, ModalKind, FkPickAt DEF Modal
      <3>6. QED
        BY <1>6, <3>1, <3>2, <3>3, <3>4, <3>5
    <2> HIDE DEF g
    <2>5. QED
      BY <1>3, <2>1, <2>2, <2>3, <2>4 DEF TopOk
  <1>7. CASE kind \in {"Prompt", "Confirm", "InstallResult", "Drives", "Pci", "Xhci", "About"}
    <2>1. set_cursor(st, i) = st
      BY <1>7 DEF set_cursor
    <2>2. QED
      BY <2>1
  <1>8. QED
    BY <1>2, <1>4, <1>5, <1>6, <1>7 DEF ModalKinds

\* The items of a list count from 0.
LEMMA ItemsNat ==
    ASSUME NEW n \in Nat
    PROVE  Items(n) \subseteq Nat /\ \A i \in Items(n) : i < n
  BY DEF Items

\* Frames of items.
LEMMA HitsNat ==
    ASSUME NEW F \in SUBSET Nat, NEW A \in SUBSET Nat
    PROVE  LinesNat(Hits(F, A))
  BY DEF Hits, LinesNat

\* A frame that lists n items, to be activated or to take the focus.
LEMMA ItemFrames ==
    ASSUME NEW n \in Nat
    PROVE  LinesNat(Hits({}, Items(n))) /\ LinesNat(Hits(Items(n), {}))
  BY ItemsNat, HitsNat

\* Every line that build_frame puts on the hit map is a number.
LEMMA FrameLines ==
    ASSUME NEW st, Handles(st), NEW c, Last(st).kind = "Browser" => Len(c.rows) \in Nat,
           NEW h \in build_frame(Last(st), c)
    PROVE  LinesNat(h)
  <1> DEFINE s == Last(st)
             b == st[Len(st) - 1]
             kind == s.kind
  <1>1. Good(db) /\ StackInv(st, db, cache, gen)
    BY DEF Handles, Running, RestOk
  <1>2. kind \in {"List"} \cup BaseKinds \cup ModalKinds
    BY <1>1, OnTop, OneOrMore, Zenon
  <1>3. /\ kind = "Browser" => IsBrowser(s, db)
        /\ kind = "RowView" => IsRowView(s, db)
        /\ kind = "Schema" => IsSchema(s, db)
        /\ kind = "RefCols" => IsRefCols(s, db)
    <2>1. CASE kind \in BaseKinds
      BY <2>1, BaseOnTop, BaseKind
    <2>2. CASE kind \notin BaseKinds
      BY <2>2 DEF BaseKinds
    <2>3. QED
      BY <2>1, <2>2
  <1>4. /\ kind = "Editor" => IsEditor(s, db)
        /\ kind = "Builder" => IsBuilder(s, b, db)
        /\ kind = "FkPick" => IsFkPick(s, b, db)
        /\ kind = "Pick" => IsPick(s, db)
        /\ kind = "CreateOsPick" => IsCreateOsPick(s)
    <2>1. CASE kind \in ModalKinds
      BY <2>1, ModalOnTop, ModalKind
    <2>2. CASE kind \notin ModalKinds
      BY <2>2 DEF ModalKinds
    <2>3. QED
      BY <2>1, <2>2
  <1>5. CASE kind = "List"
    <2>1. Tables \in Seq(DOMAIN db)
      <3>1. IsFiniteSet(DOMAIN db)
        BY <1>1 DEF Good, Shape
      <3>2. QED
        BY <3>1, SetToSeqElements DEF Tables
    <2>2. PICK tables \in Read(Tables, {<<>>}) : h = Hits({}, Items(Len(tables)))
      BY <1>5 DEF build_frame, frame_list
    <2>3. Len(tables) \in Nat
      BY <2>1, <2>2, ReadList
    <2>4. QED
      BY <2>2, <2>3, ItemFrames
  <1>6. CASE kind = "Browser"
    <2>1. h = Hits({}, Items(Len(c.rows)))
      BY <1>6 DEF build_frame, frame_browser
    <2>2. QED
      BY <1>6, <2>1, ItemFrames
  <1>7. CASE kind = "RowView"
    <2>1. s.table \in DOMAIN db
      BY <1>3, <1>7 DEF IsRowView
    <2>2. PICK L \in nav_targets(s.table, s.id) : h = Hits({}, Items(Len(L)))
      BY <1>7 DEF build_frame, frame_rowview
    <2>3. PICK N : L \in Seq(N)
      BY <1>1, <2>1, <2>2, NavTargets
    <2>4. Len(L) \in Nat
      BY <2>3
    <2>5. QED
      BY <2>2, <2>4, ItemFrames
  <1>8. CASE kind \in {"Schema", "RefCols"}
    <2>1. s.table \in DOMAIN db
      BY <1>3, <1>8 DEF IsSchema, IsRefCols
    <2>2. ColNames(s.table) \in Seq(Names(db[s.table]))
      BY <1>1, <2>1, UniqueColumns
    <2>3. PICK cols \in Read(ColNames(s.table), {<<>>}) :
             h = Hits(Items(Len(cols)), {}) \/ h = Hits({}, Items(Len(cols)))
      BY <1>8 DEF build_frame, frame_schema, frame_refcols
    <2>4. Len(cols) \in Nat
      BY <2>2, <2>3, ReadList
    <2>5. QED
      BY <2>3, <2>4, ItemFrames
  <1>9. CASE kind = "Editor"
    <2> DEFINE n == Len(s.cols)
    <2>1. n \in Nat
      BY <1>1, <1>4, <1>9, TableFacts DEF IsEditor
    <2>2. h = Hits(Items(n), {n, n + 1})
      BY <1>9 DEF build_frame, frame_editor
    <2> HIDE DEF n
    <2>3. Items(n) \in SUBSET Nat /\ {n, n + 1} \in SUBSET Nat
      BY <2>1, ItemsNat
    <2>4. QED
      BY <2>2, <2>3, HitsNat
  <1>10. CASE kind = "Builder"
    <2> DEFINE p == s.parts
               l == cancel_index(s)
    <2>1. p \in Nat
      BY <1>4, <1>10 DEF IsBuilder
    <2>2. l \in Nat
      BY <2>1 DEF cancel_index, ok_index, Buttons
    <2>3. h = Hits(Items(p), p..l)
      BY <1>10 DEF build_frame, frame_builder
    <2> HIDE DEF p, l
    <2>4. Items(p) \in SUBSET Nat /\ p..l \in SUBSET Nat
      BY <2>1, <2>2, ItemsNat
    <2>5. QED
      BY <2>3, <2>4, HitsNat
  <1>11. CASE kind = "FkPick"
    <2>1. s.rows \in Seq(DOMAIN db[s.to_table].rows)
      BY <1>4, <1>11 DEF IsFkPick
    <2>2. Len(s.rows) \in Nat
      BY <2>1
    <2>3. h = Hits({}, Items(Len(s.rows)))
      BY <1>11 DEF build_frame, frame_fk_pick
    <2>4. QED
      BY <2>2, <2>3, ItemFrames
  <1>12. CASE kind = "Pick"
    <2>1. PICK O : s.options \in Seq(O)
      BY <1>4, <1>12 DEF IsPick, PickAct
    <2>2. Len(s.options) \in Nat
      BY <2>1
    <2>3. h = Hits({}, Items(Len(s.options)))
      BY <1>12 DEF build_frame, frame_pick
    <2>4. QED
      BY <2>2, <2>3, ItemFrames
  <1>13. CASE kind = "CreateOsPick"
    <2>1. s.candidates \in Seq(Drive)
      BY <1>4, <1>13 DEF IsCreateOsPick
    <2>2. Len(s.candidates) \in Nat
      BY <2>1
    <2>3. h = Hits({}, Items(Len(s.candidates)))
      BY <1>13 DEF build_frame, frame_create_os_pick
    <2>4. QED
      BY <2>2, <2>3, ItemFrames
  <1>14. CASE kind \in {"Prompt", "Confirm"}
    <2>1. h = Hits({}, {}) \/ h = [Hits({}, {}) EXCEPT !.confirm = TRUE]
      BY <1>14 DEF build_frame, frame_prompt, frame_confirm
    <2>2. QED
      BY <2>1 DEF Hits, LinesNat
  <1>15. CASE kind \in {"InstallResult", "Drives", "Pci", "Xhci", "About"}
    <2>1. h \in frame_panel(s)
      BY <1>15 DEF build_frame
    <2>2. h = Hits(Items(Devices), {}) \/ h = Hits({}, Items(Devices)) \/ h = Hits({}, {})
      BY <2>1 DEF frame_panel
    <2>3. Devices \in Nat /\ {} \in SUBSET Nat
      BY UiAssumption
    <2>4. QED
      BY <2>2, <2>3, ItemFrames, HitsNat
  <1>16. QED
    BY <1>2, <1>5, <1>6, <1>7, <1>8, <1>9, <1>10, <1>11, <1>12, <1>13, <1>14, <1>15
       DEF BaseKinds, ModalKinds

-----------------------------------------------------------------------------
(* The invariant *)

\* What a handler finds.
LEMMA EventHandled ==
    ASSUME UiInv, Event
    PROVE  Handles(stack)
  BY DEF UiInv, Event, Handles, Running

\* What an event leaves of the hit map.
LEMMA EventHits ==
    ASSUME UiInv, Event, After
    PROVE  UiInv'
  <1>1. hitmap' = hitmap
    BY DEF Event
  <1>2. LinesNat(hitmap')
    BY <1>1 DEF UiInv
  <1>3. QED
    BY <1>2 DEF After, UiInv

\* run, Event::Key.
LEMMA KeyStep ==
    ASSUME UiInv, Key
    PROVE  UiInv' /\ (Destroys => Answers(stack))
  <1>1. PICK k \in Keys : on_key(k, stack)
    BY DEF Key
  <1>2. Event
    BY DEF Key
  <1>3. After /\ (Destroys => Answers(stack))
    BY <1>1, <1>2, EventHandled, OnKey
  <1>4. QED
    BY <1>2, <1>3, EventHits

\* on_right_click: the key Esc.
LEMMA RightClickStep ==
    ASSUME UiInv, RightClick
    PROVE  UiInv' /\ (Destroys => Answers(stack))
  <1>1. Event /\ on_key("Esc", stack)
    BY DEF RightClick
  <1>2. After /\ (Destroys => Answers(stack))
    BY <1>1, EventHandled, OnKey
  <1>3. QED
    BY <1>1, <1>2, EventHits

\* on_click: the cursor is set to a line of the frame, and the key is Enter.
LEMMA ClickStep ==
    ASSUME UiInv, Click
    PROVE  UiInv' /\ (Destroys => Answers(stack))
  <1>1. Event
    BY DEF Click
  <1>2. Handles(stack) /\ Good(db)
    BY <1>1, EventHandled DEF Handles, Running, RestOk
  <1>3. ASSUME NEW i \in hitmap.focus \cup hitmap.activate
        PROVE  /\ Handles(set_cursor(stack, i))
               /\ set_cursor(stack, i) = stack \/ Last(set_cursor(stack, i)).kind # "Confirm"
    <2>1. i \in Nat
      BY DEF UiInv, LinesNat
    <2>2. QED
      BY <1>2, <2>1, CursorSet
  <1>4. CASE \E i \in hitmap.focus : Goto(set_cursor(stack, i))
    <2>1. PICK i \in hitmap.focus : Goto(set_cursor(stack, i))
      BY <1>4
    <2>2. Handles(set_cursor(stack, i))
      BY <1>3
    <2>3. After /\ Harmless
      BY <2>1, <2>2, GotoKeeps DEF Handles
    <2>4. Good(db')
      BY <2>3 DEF After, RestOk
    <2>5. QED
      BY <1>1, <1>2, <2>3, <2>4, EventHits, LossIsSeen
  <1>5. CASE \E i \in hitmap.activate : on_key("Enter", set_cursor(stack, i))
    <2>1. PICK i \in hitmap.activate : on_key("Enter", set_cursor(stack, i))
      BY <1>5
    <2>2. /\ Handles(set_cursor(stack, i))
          /\ set_cursor(stack, i) = stack \/ Last(set_cursor(stack, i)).kind # "Confirm"
      BY <1>3
    <2>3. After /\ (Destroys => Answers(set_cursor(stack, i)))
      BY <2>1, <2>2, OnKey
    <2>4. Destroys => Last(set_cursor(stack, i)).kind = "Confirm"
      BY <2>3 DEF Answers
    <2>5. QED
      BY <1>1, <2>2, <2>3, <2>4, EventHits
  <1>6. QED
    BY <1>4, <1>5 DEF Click

\* render refreshes the cache and takes the frame of the screen on top.
LEMMA RepaintStep ==
    ASSUME UiInv, Repaint
    PROVE  UiInv' /\ ~Destroys
  <1> DEFINE s == Last(stack)
  <1>1. /\ power = "on" /\ hitmap' \in build_frame(s, cache')
        /\ cache' \in IF s.kind = "Browser" THEN cached_rows(cache, s.table, s.filter, s.sort)
                      ELSE {cache}
        /\ UNCHANGED <<db, gen, power, installed>> /\ stack' = stack
    BY DEF Repaint
  <1>2. /\ Handles(stack) /\ Running /\ Good(db) /\ gen \in Nat /\ CacheOk(cache, db, gen)
        /\ StackInv(stack, db, cache, gen) /\ Len(stack) <= MaxDepth
    BY <1>1 DEF UiInv, Handles, Running, RestOk
  <1>3. /\ CacheOk(cache', db, gen) /\ StackInv(stack, db, cache', gen)
        /\ s.kind = "Browser" => Len(cache'.rows) \in Nat
    <2>1. CASE s.kind = "Browser"
      <3>1. s.table \in DOMAIN db /\ Base(s, db)
        BY <1>2, <2>1, BaseOnTop, BaseKind DEF BaseKinds
      <3>2. CacheOk(cache', db, gen) /\ cache'.rows \in Seq(DOMAIN db[s.table].rows)
        BY <1>1, <1>2, <2>1, <3>1, CachedRows
      <3>3. Solid(stack, db)
        BY <1>2, <3>1, SolidBase
      <3>4. QED
        BY <3>2, <3>3, SolidStack
    <2>2. CASE s.kind # "Browser"
      <3>1. cache' = cache
        BY <1>1, <2>2
      <3>2. QED
        BY <1>2, <2>2, <3>1
    <2>3. QED
      BY <2>1, <2>2
  <1>4. After /\ Harmless
    BY <1>1, <1>2, <1>3, ShowKeeps
  <1>5. LinesNat(hitmap')
    BY <1>1, <1>2, <1>3, FrameLines
  <1>6. QED
    BY <1>2, <1>4, <1>5, LossIsSeen DEF After, UiInv, RestOk

\* The table list on a volume the store has written.
LEMMA InitOk ==
    ASSUME UiInit
    PROVE  UiInv
  <1>1. Good(db)
    BY InvIsGood DEF UiInit, VolumeSound, RelationalInv
  <1>2. RestOk(db, gen, cache, power, installed)
    <2>1. gen = 0 /\ power = "on" /\ installed = {}
      BY DEF UiInit
    <2>2. cache.gen = 0 /\ cache.table = Null
      BY DEF UiInit
    <2>3. CacheOk(cache, db, gen)
      BY <2>1, <2>2 DEF CacheOk
    <2>4. gen \in 0..MaxGen
      BY <2>1, UiAssumption
    <2>5. QED
      BY <1>1, <2>1, <2>3, <2>4 DEF RestOk
  <1>3. StackInv(stack, db, cache, gen) /\ Len(stack) = 1 /\ Last(stack) = List(0)
    <2>1. stack = <<List(0)>>
      BY DEF UiInit
    <2>2. IsList(List(0))
      BY DEF IsList, List
    <2> HIDE DEF List
    <2>3. IsStack(stack) /\ Len(stack) = 1 /\ stack[1] = List(0)
      BY <2>1 DEF IsStack
    <2>4. QED
      BY <2>2, <2>3 DEF StackInv, Last
  <1>4. Len(stack) <= MaxDepth
    BY <1>3, UiAssumption
  <1>5. LinesNat(hitmap)
    <2>1. Handles(stack)
      BY <1>2, <1>3, <1>4 DEF Handles, Running, UiInit
    <2>2. Last(stack) = List(0) /\ List(0).kind = "List"
      BY <1>3 DEF List
    <2>3. hitmap \in build_frame(List(0), cache)
      BY DEF UiInit, build_frame, List
    <2> HIDE DEF List
    <2>4. QED
      BY <2>1, <2>2, <2>3, FrameLines
  <1>6. QED
    BY <1>2, <1>3, <1>4, <1>5 DEF UiInv

\* Every event and every repaint keeps the invariant.
LEMMA Inductive == UiInv /\ [UiNext]_vars => UiInv'
  <1> SUFFICES ASSUME UiInv, [UiNext]_vars
               PROVE  UiInv'
    OBVIOUS
  <1>1. CASE Key
    BY <1>1, KeyStep
  <1>2. CASE RightClick
    BY <1>2, RightClickStep
  <1>3. CASE Click
    BY <1>3, ClickStep
  <1>4. CASE Repaint
    BY <1>4, RepaintStep
  <1>5. CASE UNCHANGED vars
    <2>1. /\ db' = db /\ gen' = gen /\ stack' = stack /\ hitmap' = hitmap
          /\ cache' = cache /\ power' = power /\ installed' = installed
      BY <1>5 DEF vars
    <2>2. StackInv(stack, db, cache, gen)' /\ RestOk(db, gen, cache, power, installed)'
      BY <2>1 DEF UiInv
    <2>3. QED
      BY <2>1, <2>2 DEF UiInv
  <1>6. QED
    BY <1>1, <1>2, <1>3, <1>4, <1>5 DEF UiNext

\* App::stack, App::row_cache and the hit map keep their shape under every
\* handler, also when reads of the volume fail and when keys and clicks are
\* handled before a repaint: the invariant the other results rest on.
THEOREM UiInvariant == UiSpec => []UiInv
  <1>1. UiInit => UiInv
    BY InitOk
  <1>2. QED
    BY <1>1, Inductive, PTL DEF UiSpec

-----------------------------------------------------------------------------
(* What the invariant says of the screens *)

\* The kinds of the screens, by position.
LEMMA InvStack ==
    ASSUME UiInv
    PROVE  StackOK
  <1> DEFINE n == Len(stack)
  <1>1. StackInv(stack, db, cache, gen)
    BY DEF UiInv
  <1>2. n \in Nat \ {0} /\ DOMAIN stack = 1..n /\ Last(stack) = stack[n]
    BY <1>1, OnTop, StackBasics DEF StackInv
  <1>3. stack[1].kind = "List"
    BY <1>1 DEF StackInv, IsList
  <1>4. ASSUME NEW i \in DOMAIN stack, i # 1
        PROVE  stack[i].kind \in BaseKinds \cup ModalKinds
    <2>1. CASE i = n
      <3>1. n > 1
        BY <1>2, <1>4, <2>1
      <3>2. Last(stack).kind \in BaseKinds \cup ModalKinds
        BY <1>1, <3>1, OnTop
      <3>3. QED
        BY <1>2, <2>1, <3>2
    <2>2. CASE i # n
      <3>1. i \in 2..(n - 1)
        BY <1>2, <1>4, <2>2
      <3>2. Base(stack[i], db) \/ Covered(stack[i], stack[i + 1], db)
        BY <1>1, <3>1 DEF StackInv
      <3>3. stack[i].kind \in BaseKinds \/ stack[i].kind \in {"Editor", "CreateOsPick", "Pci"}
        BY <3>2, BaseKind, CoveredKind
      <3>4. QED
        BY <3>3 DEF ModalKinds
    <2>3. QED
      BY <2>1, <2>2
  <1>5. ASSUME NEW i \in DOMAIN stack
        PROVE  stack[i].kind \in Kinds /\ (stack[i].kind = "List" <=> i = 1)
    <2>1. CASE i = 1
      BY <1>3, <2>1 DEF Kinds
    <2>2. CASE i # 1
      BY <1>4, <2>2 DEF Kinds, BaseKinds, ModalKinds
    <2>3. QED
      BY <2>1, <2>2
  <1>6. Len(stack) \in 1..MaxDepth
    <2>1. n <= MaxDepth /\ MaxDepth \in Nat
      BY UiAssumption DEF UiInv
    <2> HIDE DEF n
    <2>2. n \in 1..MaxDepth
      BY <1>2, <2>1
    <2>3. QED
      BY <2>2 DEF n
  <1>7. QED
    BY <1>5, <1>6 DEF StackOK, UiInv, RestOk

\* The table list is at the bottom of App::stack and nowhere else, whatever is
\* handled before a repaint: the loops that pop to it end.
THEOREM StackAlwaysOK == UiSpec => []StackOK
  <1>1. UiInv => StackOK
    BY InvStack
  <1>2. QED
    BY <1>1, UiInvariant, PTL

\* An entry of App::row_cache that cached_rows would reuse is what the table
\* holds now, unless a read of the volume failed when it was made: then it is the
\* empty list, or the rows without the filter, that `rows` goes on with.
THEOREM CacheAlwaysFresh == UiSpec => []CacheFresh
  <1>1. UiInv => CacheFresh
    BY DEF UiInv, RestOk, CacheOk, Shown, CacheFresh
  <1>2. QED
    BY <1>1, UiInvariant, PTL

\* What a step destroys, foreign keys left aside, is what the confirmation on top
\* was opened for, and a row that is deleted the one under the cursor of the
\* Browser below, in the list it would show: even when clicks are resolved
\* against a frame that is out of date and when reads fail.
THEOREM DestructionConfirmed == UiSpec => DestroysOnlyConfirmed
  <1>1. UiInv /\ [UiNext]_vars => [Destroys => Answers(stack)]_vars
    <2> SUFFICES ASSUME UiInv, UiNext
                 PROVE  Destroys => Answers(stack)
      OBVIOUS
    <2>1. CASE Key
      BY <2>1, KeyStep
    <2>2. CASE RightClick
      BY <2>2, RightClickStep
    <2>3. CASE Click
      BY <2>3, ClickStep
    <2>4. CASE Repaint
      BY <2>4, RepaintStep
    <2>5. QED
      BY <2>1, <2>2, <2>3, <2>4 DEF UiNext
  <1>2. QED
    BY <1>1, UiInvariant, PTL DEF UiSpec, DestroysOnlyConfirmed

-----------------------------------------------------------------------------
(* What the screens name *)

\* The kinds of screen on the stack, and the one a builder or a foreign-key
\* picker lies on.
LEMMA InvLevels ==
    ASSUME UiInv, NEW i \in DOMAIN stack
    PROVE  \/ i = 1 /\ IsList(stack[1])
           \/ i # 1 /\ i \in 2..Len(stack) /\ TopOk(stack[i], stack[i - 1], db, cache, gen)
  <1> DEFINE n == Len(stack)
  <1>1. StackInv(stack, db, cache, gen)
    BY DEF UiInv
  <1>2. n \in Nat \ {0} /\ DOMAIN stack = 1..n
    BY <1>1, OnTop, StackBasics DEF StackInv
  <1>3. CASE i = 1
    BY <1>1, <1>3 DEF StackInv
  <1>4. CASE i # 1 /\ i = n
    <2>1. n > 1 /\ i \in 2..n
      BY <1>2, <1>4
    <2>2. QED
      BY <1>1, <1>4, <2>1 DEF StackInv
  <1>5. CASE i # 1 /\ i # n
    <2>1. i \in 2..(n - 1) /\ i \in 2..n
      BY <1>2, <1>5
    <2>2. Base(stack[i], db) \/ Covered(stack[i], stack[i + 1], db)
      BY <1>1, <2>1 DEF StackInv
    <2>3. TopOk(stack[i], stack[i - 1], db, cache, gen)
      BY <2>2, CoveredTop DEF TopOk
    <2>4. QED
      BY <1>5, <2>1, <2>3
  <1>6. QED
    BY <1>3, <1>4, <1>5

\* A base screen names a table.
LEMMA BaseNamesLive ==
    ASSUME NEW s, Base(s, db)
    PROVE  \A b : NamesLive(s) /\ EditorLive(s, b)
  <1>1. s.kind \in BaseKinds /\ s.table \in DOMAIN db
    BY BaseKind
  <1>2. \/ DOMAIN s = {"kind", "table", "row", "filter", "sort"}
        \/ DOMAIN s = {"kind", "table", "id", "sel"}
        \/ DOMAIN s = {"kind", "table", "sel"}
        \/ DOMAIN s = {"kind", "table", "order", "sel"}
    BY DEF Base, IsBrowser, IsRowView, IsSchema, IsRefCols
  <1>3. "col" \notin DOMAIN s
    BY <1>2
  <1>4. QED
    BY <1>1, <1>3 DEF NamesLive, EditorLive, BaseKinds

\* A prompt, a pick list or a confirmation.
LEMMA ActionNamesLive ==
    ASSUME NEW s, NEW b, IsPrompt(s, db) \/ IsPick(s, db) \/ IsConfirm(s, b, db, cache, gen)
    PROVE  \A below : NamesLive(s) /\ EditorLive(s, below)
  <1> DEFINE a == s.action
  <1>1. s.kind \in {"Prompt", "Pick", "Confirm"}
    BY DEF IsPrompt, IsPick, IsConfirm
  <1>2. /\ s.kind = "Prompt" => PromptAct(a, db)
        /\ s.kind = "Pick" => PickAct(a, s.options, db)
        /\ s.kind = "Confirm" => ConfirmAct(a, b, db, cache, gen)
    BY DEF IsPrompt, IsPick, IsConfirm
  <1>3. NamesLive(s) <=>
           /\ "table" \in DOMAIN a => a.table \in DOMAIN db
           /\ "col" \in DOMAIN a /\ a.op # "AddColPickType" => a.col \in Names(db[a.table])
           /\ s.kind = "Confirm" /\ "id" \in DOMAIN a => a.id \in DOMAIN db[a.table].rows
    BY <1>1 DEF NamesLive
  <1> HIDE DEF a
  <1>4. CASE s.kind = "Prompt"
    <2>1. CASE a = [op |-> "CreateTable"]
      <3>1. DOMAIN a = {"op"}
        BY <2>1
      <3>2. QED
        BY <1>3, <1>4, <3>1 DEF EditorLive
    <2>2. CASE a = [op |-> "AddColumn", table |-> a.table] /\ a.table \in DOMAIN db
      <3>1. DOMAIN a = {"op", "table"}
        BY <2>2
      <3>2. QED
        BY <1>3, <1>4, <2>2, <3>1 DEF EditorLive
    <2>3. CASE a.table \in DOMAIN db /\ a.col \in Names(db[a.table])
      BY <1>3, <1>4, <2>3 DEF EditorLive
    <2>4. QED
      BY <1>2, <1>4, <2>1, <2>2, <2>3 DEF PromptAct
  <1>5. CASE s.kind = "Pick"
    <2>1. a.table \in DOMAIN db
      BY <1>2, <1>5 DEF PickAct
    <2>2. CASE a = [op |-> "AddColPickType", table |-> a.table, col |-> a.col]
      <3>1. a.op = "AddColPickType"
        BY <2>2
      <3>2. QED
        BY <1>3, <1>5, <2>1, <3>1 DEF EditorLive
    <2>3. CASE a = [op |-> "AddFkPickFrom", table |-> a.table] \/ a = [op |-> "DropFk", table |-> a.table]
      <3>1. DOMAIN a = {"op", "table"}
        BY <2>3
      <3>2. QED
        BY <1>3, <1>5, <2>1, <3>1 DEF EditorLive
    <2>4. CASE a.col \in Names(db[a.table])
      BY <1>3, <1>5, <2>1, <2>4 DEF EditorLive
    <2>5. QED
      BY <1>2, <1>5, <2>2, <2>3, <2>4 DEF PickAct
  <1>6. CASE s.kind = "Confirm"
    <2>1. CASE a = [op |-> "Shutdown"] \/ a = [op |-> "CreateOs", drive |-> a.drive]
      <3>1. DOMAIN a \subseteq {"op", "drive"}
        BY <2>1
      <3>2. QED
        BY <1>3, <1>6, <3>1 DEF EditorLive
    <2>2. CASE /\ a = [op |-> "DeleteRow", table |-> a.table, id |-> a.id]
               /\ a.table \in DOMAIN db /\ a.id \in DOMAIN db[a.table].rows
      <3>1. DOMAIN a = {"op", "table", "id"}
        BY <2>2
      <3>2. QED
        BY <1>3, <1>6, <2>2, <3>1 DEF EditorLive
    <2>3. CASE a = [op |-> "DropTable", table |-> a.table] /\ a.table \in DOMAIN db
      <3>1. DOMAIN a = {"op", "table"}
        BY <2>3
      <3>2. QED
        BY <1>3, <1>6, <2>3, <3>1 DEF EditorLive
    <2>4. CASE /\ a = [op |-> "DropColumn", table |-> a.table, col |-> a.col]
               /\ a.table \in DOMAIN db /\ a.col \in Names(db[a.table])
      <3>1. DOMAIN a = {"op", "table", "col"}
        BY <2>4
      <3>2. QED
        BY <1>3, <1>6, <2>4, <3>1 DEF EditorLive
    <2>5. QED
      BY <1>2, <1>6, <2>1, <2>2, <2>3, <2>4 DEF ConfirmAct
  <1>7. QED
    BY <1>1, <1>4, <1>5, <1>6

\* A row editor, and what lies on one.
LEMMA EditorNamesLive ==
    ASSUME NEW s, NEW b, IsEditor(s, db) \/ IsBuilder(s, b, db) \/ IsFkPick(s, b, db)
    PROVE  NamesLive(s) /\ EditorLive(s, b)
  <1>1. CASE IsEditor(s, db)
    <2>1. /\ s.kind = "Editor" /\ s.table \in DOMAIN db /\ s.cols = db[s.table].columns
          /\ s.id = 0 \/ s.id \in DOMAIN db[s.table].rows
      BY <1>1 DEF IsEditor
    <2>2. DOMAIN s = {"kind", "table", "id", "cols", "focus"}
      BY <1>1 DEF IsEditor
    <2>3. QED
      BY <2>1, <2>2 DEF NamesLive, EditorLive
  <1>2. CASE IsBuilder(s, b, db)
    <2>1. s.kind = "Builder" /\ b.kind = "Editor" /\ s.field = b.focus /\ s.field < Len(b.cols)
      BY <1>2 DEF IsBuilder
    <2>2. DOMAIN s = {"kind", "field", "parts", "focus", "now", "next"}
      BY <1>2 DEF IsBuilder
    <2>3. QED
      BY <2>1, <2>2 DEF NamesLive, EditorLive
  <1>3. CASE IsFkPick(s, b, db)
    <2>1. /\ s.kind = "FkPick" /\ b.kind = "Editor" /\ s.field = b.focus /\ s.field < Len(b.cols)
          /\ s.rows \in Seq(DOMAIN db[s.to_table].rows)
      BY <1>3 DEF IsFkPick
    <2>2. DOMAIN s = {"kind", "field", "to_table", "to_col", "rows", "sel"}
      BY <1>3 DEF IsFkPick
    <2>3. ToSet(s.rows) \subseteq DOMAIN db[s.to_table].rows
      BY <2>1 DEF ToSet
    <2>4. NamesLive(s)
      BY <2>1, <2>2 DEF NamesLive
    <2>5. QED
      BY <2>1, <2>3, <2>4 DEF EditorLive
  <1>4. QED
    BY <1>1, <1>2, <1>3

\* The list, the list of drives and the panels name nothing.
LEMMA PlainNamesLive ==
    ASSUME NEW s, IsList(s) \/ IsCreateOsPick(s) \/ IsPanel(s)
    PROVE  \A b : NamesLive(s) /\ EditorLive(s, b)
  <1>1. s.kind \in {"List", "CreateOsPick", "Drives", "Pci", "Xhci", "About", "InstallResult"}
    BY DEF IsList, IsCreateOsPick, IsPanel
  <1>2. DOMAIN s \subseteq {"kind", "sel", "candidates"}
    <2>1. IsList(s) => DOMAIN s = {"kind", "sel"}
      BY DEF IsList
    <2>2. IsCreateOsPick(s) => DOMAIN s = {"kind", "sel", "candidates"}
      BY DEF IsCreateOsPick
    <2>3. IsPanel(s) => DOMAIN s = {"kind"}
      BY DEF IsPanel
    <2>4. QED
      BY <2>1, <2>2, <2>3
  <1>3. "table" \notin DOMAIN s /\ "col" \notin DOMAIN s
    BY <1>2
  <1>4. QED
    BY <1>1, <1>3 DEF NamesLive, EditorLive

\* Every screen and open modal names a table that exists, a modal a column that
\* exists and a confirmation a row that exists; a Row Editor is open on its row
\* under the schema it has now.  Not claimed are the row of a Row View and the
\* column of a Browser's filter, which may be gone.  No assumption is made on
\* what is handled between two repaints.
THEOREM ScreensAlwaysLive == UiSpec => []ScreensLive
  <1>1. UiInv => ScreensLive
    <2> SUFFICES ASSUME UiInv, NEW i \in DOMAIN stack
                 PROVE  NamesLive(stack[i]) /\ EditorLive(stack[i], stack[IF i = 1 THEN 1 ELSE i - 1])
      BY DEF ScreensLive
    <2>1. CASE i = 1 /\ IsList(stack[1])
      BY <2>1, PlainNamesLive
    <2>2. CASE i # 1 /\ TopOk(stack[i], stack[i - 1], db, cache, gen)
      <3> DEFINE s == stack[i]
                 b == stack[i - 1]
      <3>1. TopOk(s, b, db, cache, gen)
        BY <2>2
      <3>2. NamesLive(s) /\ EditorLive(s, b)
        <4> HIDE DEF s, b
        <4>1. QED
          BY <3>1, BaseNamesLive, ActionNamesLive, EditorNamesLive, PlainNamesLive DEF TopOk, Modal
      <3>3. QED
        BY <2>2, <3>2
    <2>3. QED
      BY <2>1, <2>2, InvLevels
  <1>2. QED
    BY <1>1, UiInvariant, PTL
=============================================================================
