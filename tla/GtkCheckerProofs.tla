-------------------------- MODULE GtkCheckerProofs --------------------------
(***************************************************************************)
(* Theorems about GtkChecker, for any number of rows and refreshes.        *)
(***************************************************************************)
EXTENDS GtkChecker, SequenceTheorems, TLAPS

USE CheckerAssumption

(* The main thread wakes the checker for every item it appends.  The       *)
(* property is inductive as it stands: the thread goes to sleep only after *)
(* it has seen an empty list, and only the main thread appends meanwhile.  *)
THEOREM NeverSleepsOnWork == Spec => []NoLostWakeup
<1> USE DEF NoLostWakeup, Waiting
<1>1. Init => NoLostWakeup
  BY DEF Init
<1>2. NoLostWakeup /\ [Next]_vars => NoLostWakeup'
  <2> SUFFICES ASSUME NoLostWakeup, [Next]_vars PROVE NoLostWakeup'
    OBVIOUS
  <2>1. CASE ClearStore
    BY <2>1 DEF ClearStore
  <2>2. CASE ClearTodo
    BY <2>2 DEF ClearTodo
  <2>3. CASE AppendRow \/ BranchGone \/ Filled
    BY <2>3 DEF AppendRow, BranchGone, Filled
  <2>4. CASE AppendTodo
    BY <2>4 DEF AppendTodo
  <2>5. CASE Unlock
    BY <2>5 DEF Unlock
  <2>6. CASE StartThread
    BY <2>6 DEF StartThread
  <2>7. CASE TestTodo
    BY <2>7 DEF TestTodo
  <2>8. CASE Pop
    BY <2>8 DEF Pop
  <2>9. CASE Lookup
    BY <2>9 DEF Lookup
  <2>10. CASE SfsCheck \/ UpdateCheck
    BY <2>10 DEF SfsCheck, UpdateCheck
  <2>11. CASE Requeue \/ Acquire
    BY <2>11 DEF Requeue, Acquire
  <2>12. CASE UNCHANGED vars
    BY <2>12 DEF vars
  <2> QED
    BY <2>1, <2>2, <2>3, <2>4, <2>5, <2>6, <2>7, <2>8, <2>9, <2>10, <2>11, <2>12
    DEF Next, Main, Fill, Thread
<1> QED
  BY <1>1, <1>2, PTL DEF Spec

-----------------------------------------------------------------------------
(* Every variable keeps its type: a path handed to the checker is that of  *)
(* the row appended last.                                                  *)
AppendInv == main = "append" => Len(rows) >= 1
Inv == TypeOK /\ AppendInv

LEMMA IconType ==
  ASSUME TypeOK, NEW icon \in Icons, SetIcon(icon)
  PROVE  /\ rows' \in Seq(Row) /\ Len(rows') = Len(rows)
         /\ \A i \in DOMAIN rows : rows'[i].kind = rows[i].kind
         /\ \A i \in DOMAIN rows : i # work.item.path => rows'[i] = rows[i]
         /\ work.gen = gen /\ work.item.path \in DOMAIN rows =>
              rows'[work.item.path].icon = icon
<1>1. rows \in Seq(Row) /\ Len(rows) \in Nat /\ DOMAIN rows = 1..Len(rows)
  BY DEF TypeOK
<1>2. CASE rows' = rows /\ ~(work.gen = gen /\ work.item.path \in DOMAIN rows)
  BY <1>1, <1>2
<1>3. CASE /\ work.item.path \in DOMAIN rows
           /\ rows' = [rows EXCEPT ![work.item.path].icon = icon]
  <2> DEFINE i == work.item.path
             r == [rows[i] EXCEPT !.icon = icon]
  <2>1. i \in 1..Len(rows) /\ rows[i] \in Row
    BY <1>1, <1>3
  <2>2. r \in Row /\ r.kind = rows[i].kind /\ r.icon = icon
    BY <2>1 DEF Row
  <2>3. rows' = [rows EXCEPT ![i] = r]
    BY <1>3
  <2> HIDE DEF i, r
  <2>4. rows' \in Seq(Row) /\ Len(rows') = Len(rows) /\ DOMAIN rows' = DOMAIN rows
    BY <1>1, <2>1, <2>2, <2>3
  <2>5. rows'[i] = r /\ \A k \in DOMAIN rows : k # i => rows'[k] = rows[k]
    BY <1>1, <2>1, <2>3
  <2> QED
    BY <2>2, <2>4, <2>5 DEF i
<1> QED
  BY <1>2, <1>3 DEF SetIcon

LEMMA TypeStep == Inv /\ [Next]_vars => Inv'
<1> SUFFICES ASSUME Inv, [Next]_vars PROVE Inv'
  OBVIOUS
<1> USE DEF Inv
<1>1. CASE ClearStore /\ UNCHANGED <<patient, steady>>
  <2>1. branches' \in Seq(Kinds) /\ Len(branches') \in 0..MaxRows
    BY <1>1 DEF ClearStore, Branches
  <2>2. rows' \in Seq(Row) /\ Len(rows') = 0 /\ gen' \in 0..MaxRefresh
    BY <1>1 DEF ClearStore, TypeOK
  <2> QED
    BY <1>1, <2>1, <2>2 DEF ClearStore, TypeOK, AppendInv
<1>2. CASE AppendRow /\ UNCHANGED <<patient, steady>>
  <2> DEFINE kind == branches[Len(rows) + 1]
             row == [kind |-> kind, icon |-> "none"]
  <2>1. rows \in Seq(Row) /\ Len(rows) \in Nat /\ Len(rows) < Len(branches)
    BY <1>2 DEF AppendRow, TypeOK
  <2>2. kind \in Kinds
    BY <2>1 DEF TypeOK
  <2>3. row \in Row
    BY <2>2 DEF Row, Icons
  <2>4. rows' = Append(rows, row) /\ main' \in {"fill", "append"}
    BY <1>2 DEF AppendRow
  <2> HIDE DEF row, kind
  <2>5. rows' \in Seq(Row) /\ Len(rows') = Len(rows) + 1
    BY <2>1, <2>3, <2>4
  <2> QED
    BY <1>2, <2>1, <2>4, <2>5 DEF AppendRow, TypeOK, AppendInv
<1>3. CASE AppendTodo /\ UNCHANGED <<patient, steady>>
  <2>1. [do |-> "do_sfs_check", path |-> Len(rows)] \in Item
    BY <1>3 DEF AppendTodo, AppendInv, TypeOK, Item, Paths
  <2> QED
    BY <1>3, <2>1 DEF AppendTodo, TypeOK, AppendInv
<1>4. CASE (ClearTodo \/ BranchGone \/ Filled \/ Unlock \/ StartThread \/ TestTodo \/ Acquire) /\ UNCHANGED <<patient, steady>>
  <2>1. /\ UNCHANGED <<patient, steady, rows, gen, branches, work>> /\ (todo' = <<>> \/ todo' = todo)
        /\ main' \in {"fill", "idle", "start", main}
    BY <1>4 DEF ClearTodo, BranchGone, Filled, Unlock, StartThread, TestTodo, Acquire
  <2>2. /\ locked' \in BOOLEAN
        /\ th' \in {"unstarted", "test", "pop", "lookup", "run", "queue", "wait", "dead"}
    BY <1>4 DEF ClearTodo, BranchGone, Filled, Unlock, StartThread, TestTodo, Acquire, TypeOK
  <2>3. todo' \in Seq(Item)
    <3>1. CASE todo' = <<>>
      BY <3>1
    <3>2. CASE todo' = todo
      BY <3>2 DEF TypeOK
    <3> QED
      BY <2>1, <3>1, <3>2
  <2> QED
    BY <2>1, <2>2, <2>3 DEF TypeOK, AppendInv
<1>5. CASE Pop /\ UNCHANGED <<patient, steady>>
  <2>1. todo # <<>> => Head(todo) \in Item /\ Tail(todo) \in Seq(Item)
    BY DEF TypeOK
  <2>2. work' \in Work /\ todo' \in Seq(Item)
    BY <1>5, <2>1 DEF Pop, TypeOK, Work
  <2> QED
    BY <1>5, <2>2 DEF Pop, TypeOK, AppendInv
<1>6. CASE Lookup /\ UNCHANGED <<patient, steady>>
  <2>1. work' \in Work
    BY <1>6 DEF Lookup, TypeOK, Work
  <2> QED
    BY <1>6, <2>1 DEF Lookup, TypeOK, AppendInv
<1>7. CASE (SfsCheck \/ UpdateCheck) /\ UNCHANGED <<patient, steady>>
  <2>1. /\ UNCHANGED <<gen, branches, main, todo, locked, work>> /\ th' \in {"queue", "test"}
        /\ \E icon \in Icons : SetIcon(icon)
    BY <1>7 DEF SfsCheck, UpdateCheck, Icons
  <2>2. rows' \in Seq(Row) /\ Len(rows') = Len(rows)
    BY <2>1, IconType
  <2> QED
    BY <1>7, <2>1, <2>2 DEF TypeOK, AppendInv
<1>8. CASE Requeue /\ UNCHANGED <<patient, steady>>
  <2>1. [work.item EXCEPT !.do = "do_update_check"] \in Item
    BY DEF TypeOK, Work, Item
  <2> QED
    BY <1>8, <2>1 DEF Requeue, TypeOK, AppendInv
<1>9. CASE UNCHANGED vars
  BY <1>9 DEF vars, TypeOK, AppendInv
<1> QED
  BY <1>1, <1>2, <1>3, <1>4, <1>5, <1>6, <1>7, <1>8, <1>9 DEF Next, Main, Fill, Thread

LEMMA InitInv == Init => Inv
<1>1. NoWork \in Work
  BY DEF Work, Item, Paths, NoWork
<1>2. <<>> \in Seq(Row) /\ <<>> \in Seq(Kinds) /\ <<>> \in Seq(Item) /\ Len(<<>>) = 0
  OBVIOUS
<1> SUFFICES ASSUME Init PROVE Inv
  OBVIOUS
<1>3. rows \in Seq(Row) /\ branches \in Seq(Kinds) /\ todo \in Seq(Item) /\ work \in Work
  BY <1>1, <1>2 DEF Init
<1>4. /\ Len(rows) <= Len(branches) /\ Len(branches) <= MaxRows /\ gen \in 0..MaxRefresh
  BY <1>2 DEF Init
<1>5. AppendInv /\ patient \in BOOLEAN /\ steady \in BOOLEAN /\ locked \in BOOLEAN
  BY DEF Init, AppendInv
<1> QED
  BY <1>3, <1>4, <1>5 DEF Init, Inv, TypeOK

LEMMA Invariance == Spec => []Inv
  BY InitInv, TypeStep, PTL DEF Spec

(* Every variable keeps its type.                                          *)
THEOREM TypeCorrect == Spec => []TypeOK
<1>1. Inv => TypeOK
  BY DEF Inv
<1> QED
  BY <1>1, Invariance, PTL

-----------------------------------------------------------------------------
(* A user who refreshes only when no check is under way.  The thread is    *)
(* asleep or not started while the list is emptied, so it never finds less *)
(* than it has seen, and what it works on is of the rows that are shown.   *)
AliveInv ==
  /\ th # "dead"
  /\ main = "clear" => th = "unstarted" \/ (Waiting /\ todo = <<>>)
  /\ th = "pop" => todo # <<>>
  /\ steady /\ main = "idle" => Len(rows) = Len(branches)

Fits(item) ==
  /\ item.path \in DOMAIN rows /\ rows[item.path].kind # "dir"
  /\ item.do = "do_update_check" => rows[item.path].kind = "current"
ItemsInv ==
  /\ main # "clear" => \A k \in DOMAIN todo : Fits(todo[k])
  /\ th \in {"lookup", "run", "queue"} => Fits(work.item)
  /\ th \in {"run", "queue"} => work.gen = gen
  /\ th = "queue" => rows[work.item.path].kind = "current"
  /\ main = "append" => rows[Len(rows)].kind # "dir"

LEMMA AliveStep ==
  ASSUME Inv, patient, AliveInv, [Next]_vars
  PROVE  AliveInv'
<1> USE DEF Inv
<1>0. steady' = steady
  BY DEF Next, Main, Thread, vars
<1> USE <1>0
<1>1. CASE ClearStore
  BY <1>1 DEF ClearStore, AliveInv, CheckerIdle, Waiting
<1>2. CASE ClearTodo
  BY <1>2 DEF ClearTodo, AliveInv
<1>3. CASE AppendRow \/ BranchGone \/ Filled
  BY <1>3 DEF AppendRow, BranchGone, Filled, AliveInv
<1>4. CASE AppendTodo
  <2>1. todo' # <<>>
    BY <1>4 DEF AppendTodo, TypeOK
  <2> QED
    BY <1>4, <2>1 DEF AppendTodo, AliveInv
<1>5. CASE Unlock \/ StartThread
  BY <1>5 DEF Unlock, StartThread, AliveInv
<1>6. CASE TestTodo \/ Pop
  BY <1>6 DEF TestTodo, Pop, AliveInv, Waiting
<1>7. CASE Lookup
  BY <1>7 DEF Lookup, AliveInv, Waiting
<1>8. CASE SfsCheck \/ UpdateCheck
  <2>1. /\ UNCHANGED <<gen, branches, main, todo, locked, work>> /\ th' \in {"queue", "test"}
        /\ th = "run" /\ \E icon \in Icons : SetIcon(icon)
    BY <1>8 DEF SfsCheck, UpdateCheck, Icons
  <2>2. Len(rows') = Len(rows)
    BY <2>1, IconType
  <2> QED
    BY <2>1, <2>2 DEF AliveInv, Waiting
<1>9. CASE Requeue \/ Acquire
  BY <1>9 DEF Requeue, Acquire, AliveInv, Waiting
<1>10. CASE UNCHANGED vars
  BY <1>10 DEF vars, AliveInv, Waiting
<1> QED
  BY <1>1, <1>2, <1>3, <1>4, <1>5, <1>6, <1>7, <1>8, <1>9, <1>10 DEF Next, Main, Fill, Thread

(* What fits stays so while the kinds of the rows that are there remain.   *)
LEMMA FitsOn ==
  ASSUME NEW item, Fits(item), DOMAIN rows \subseteq DOMAIN rows',
         \A i \in DOMAIN rows : rows'[i].kind = rows[i].kind
  PROVE  Fits(item)'
  BY DEF Fits

LEMMA ItemsStep ==
  ASSUME Inv, patient, AliveInv, ItemsInv, [Next]_vars
  PROVE  ItemsInv'
<1> USE DEF Inv
<1>1. rows \in Seq(Row) /\ todo \in Seq(Item) /\ DOMAIN rows = 1..Len(rows) /\ Len(rows) \in Nat
  BY DEF TypeOK
<1>2. CASE ClearStore
  BY <1>2 DEF ClearStore, AliveInv, CheckerIdle, ItemsInv, Waiting
<1>3. CASE ClearTodo
  BY <1>3 DEF ClearTodo, AliveInv, ItemsInv, Waiting
<1>4. CASE AppendRow
  <2> DEFINE kind == branches[Len(rows) + 1]
             row == [kind |-> kind, icon |-> "none"]
  <2>1. /\ rows' = Append(rows, row) /\ main = "fill"
        /\ main' = IF kind = "dir" THEN "fill" ELSE "append"
        /\ UNCHANGED <<gen, todo, th, work>>
    BY <1>4 DEF AppendRow
  <2>2. row.kind = kind
    OBVIOUS
  <2> HIDE DEF row, kind
  <2>3. rows' \in Seq(Row \cup {row}) /\ Len(rows') = Len(rows) + 1 /\ DOMAIN rows' = 1..(Len(rows) + 1)
        /\ (\A i \in 1..Len(rows) : rows'[i] = rows[i]) /\ rows'[Len(rows) + 1] = row
    <3>1. rows \in Seq(Row \cup {row})
      BY <1>1
    <3> QED
      BY <2>1, <3>1, AppendProperties
  <2>4. \A item : Fits(item) => Fits(item)'
    BY <1>1, <2>3, FitsOn
  <2>5. th = "queue" => rows'[work.item.path].kind = "current"
    BY <1>1, <2>3 DEF ItemsInv, Fits
  <2>6. main' = "append" => rows'[Len(rows')].kind # "dir"
    BY <2>1, <2>2, <2>3
  <2> QED
    BY <2>1, <2>4, <2>5, <2>6 DEF ItemsInv
<1>5. CASE AppendTodo
  <2> DEFINE item == [do |-> "do_sfs_check", path |-> Len(rows)]
  <2>1. /\ todo' = Append(todo, item) /\ main = "append" /\ main' = "unlock"
        /\ UNCHANGED <<rows, gen, th, work>>
    BY <1>5 DEF AppendTodo
  <2>2. Fits(item)
    BY <1>1, <2>1 DEF ItemsInv, AppendInv, Fits
  <2> HIDE DEF item
  <2>3. \A k \in DOMAIN todo' : todo'[k] = item \/ \E l \in DOMAIN todo : todo'[k] = todo[l]
    <3>1. todo \in Seq(Item \cup {item})
      BY <1>1
    <3> QED
      BY <2>1, <3>1, AppendProperties
  <2>4. \A k \in DOMAIN todo' : Fits(todo'[k])
    BY <2>1, <2>2, <2>3 DEF ItemsInv
  <2> QED
    BY <2>1, <2>4 DEF ItemsInv, Fits
<1>6. CASE BranchGone \/ Filled \/ Unlock \/ StartThread \/ Acquire
  BY <1>6 DEF BranchGone, Filled, Unlock, StartThread, Acquire, ItemsInv, Fits
<1>7. CASE TestTodo
  BY <1>7 DEF TestTodo, ItemsInv, Fits
<1>8. CASE Pop
  <2>1. /\ todo # <<>> /\ main # "clear" /\ todo' = Tail(todo) /\ th' = "lookup"
        /\ work' = [work EXCEPT !.item = Head(todo)] /\ UNCHANGED <<rows, gen, main>>
    BY <1>8 DEF Pop, AliveInv, Waiting
  <2>2. /\ Head(todo) = todo[1] /\ 1 \in DOMAIN todo
        /\ \A k \in DOMAIN todo' : k + 1 \in DOMAIN todo /\ todo'[k] = todo[k + 1]
    BY <1>1, <2>1, HeadTailProperties
  <2>3. work'.item = todo[1]
    BY <2>1, <2>2 DEF TypeOK, Work
  <2>4. \A k \in DOMAIN todo' : Fits(todo'[k])
    BY <2>1, <2>2 DEF ItemsInv
  <2>5. Fits(work'.item)
    BY <2>1, <2>2, <2>3 DEF ItemsInv
  <2> QED
    BY <2>1, <2>4, <2>5 DEF ItemsInv, Fits
<1>9. CASE Lookup
  <2>1. /\ th = "lookup" /\ th' \in {"run", "test"} /\ UNCHANGED <<rows, gen, main, todo>>
        /\ work' = [work EXCEPT !.gen = gen]
    BY <1>9 DEF Lookup
  <2>2. work'.item = work.item /\ work'.gen = gen
    BY <2>1 DEF TypeOK, Work
  <2> QED
    BY <2>1, <2>2 DEF ItemsInv, Fits
<1>10. CASE SfsCheck \/ UpdateCheck
  <2>1. /\ UNCHANGED <<gen, branches, main, todo, locked, work>> /\ th' \in {"queue", "test"}
        /\ th = "run" /\ \E icon \in Icons : SetIcon(icon)
        /\ th' = "queue" => "current" \in FileKinds
    BY <1>10 DEF SfsCheck, UpdateCheck, Icons
  <2>2. /\ DOMAIN rows' = DOMAIN rows /\ Len(rows') = Len(rows)
        /\ \A i \in DOMAIN rows : rows'[i].kind = rows[i].kind
    <3>1. /\ rows' \in Seq(Row) /\ Len(rows') = Len(rows)
          /\ \A i \in DOMAIN rows : rows'[i].kind = rows[i].kind
      BY <2>1, IconType
    <3> QED
      BY <1>1, <3>1
  <2>3. \A item : Fits(item) => Fits(item)'
    BY <2>2, FitsOn
  <2>4. th' = "queue" => rows'[work.item.path].kind = "current"
    BY <2>1, <2>2 DEF FileKinds, ItemsInv, Fits
  <2>5. main = "append" => rows'[Len(rows')].kind # "dir"
    BY <1>1, <2>2 DEF ItemsInv, AppendInv
  <2> QED
    BY <2>1, <2>3, <2>4, <2>5 DEF ItemsInv
<1>11. CASE Requeue
  <2> DEFINE item == [work.item EXCEPT !.do = "do_update_check"]
  <2>1. /\ todo' = Append(todo, item) /\ th = "queue" /\ th' = "test"
        /\ UNCHANGED <<rows, gen, main, work>>
    BY <1>11 DEF Requeue
  <2>2. item.path = work.item.path
    BY DEF TypeOK, Work, Item
  <2> HIDE DEF item
  <2>3. Fits(item)
    BY <2>1, <2>2 DEF ItemsInv, Fits
  <2>4. \A k \in DOMAIN todo' : todo'[k] = item \/ \E l \in DOMAIN todo : todo'[k] = todo[l]
    <3>1. todo \in Seq(Item \cup {item})
      BY <1>1
    <3> QED
      BY <2>1, <3>1, AppendProperties
  <2>5. main # "clear" => \A k \in DOMAIN todo' : Fits(todo'[k])
    BY <2>1, <2>3, <2>4 DEF ItemsInv
  <2> QED
    BY <2>1, <2>5 DEF ItemsInv, Fits
<1>12. CASE UNCHANGED vars
  BY <1>12 DEF vars, ItemsInv, Fits
<1> QED
  BY <1>2, <1>3, <1>4, <1>5, <1>6, <1>7, <1>8, <1>9, <1>10, <1>11, <1>12 DEF Next, Main, Fill, Thread

(* The check that is under way marks the row it is about.                  *)
IconsInv == \A i \in DOMAIN rows : IconFits(rows[i])

LEMMA IconsStep ==
  ASSUME Inv, ItemsInv, IconsInv, [Next]_vars
  PROVE  IconsInv'
<1> USE DEF Inv
<1>1. rows \in Seq(Row) /\ DOMAIN rows = 1..Len(rows) /\ Len(rows) \in Nat
  BY DEF TypeOK
<1>2. CASE ClearStore
  BY <1>2 DEF ClearStore, IconsInv
<1>3. CASE AppendRow
  <2> DEFINE kind == branches[Len(rows) + 1]
             row == [kind |-> kind, icon |-> "none"]
  <2>1. rows' = Append(rows, row)
    BY <1>3 DEF AppendRow
  <2>2. kind \in Kinds
    BY <1>1, <1>3 DEF AppendRow, TypeOK
  <2>3. IconFits(row) /\ row \in Row
    BY <2>2 DEF IconFits, Kinds, Row, Icons
  <2> HIDE DEF row, kind
  <2>4. /\ DOMAIN rows' = 1..(Len(rows) + 1) /\ rows'[Len(rows) + 1] = row
        /\ \A i \in 1..Len(rows) : rows'[i] = rows[i]
    BY <1>1, <2>1, <2>3, AppendProperties
  <2> QED
    BY <1>1, <2>3, <2>4 DEF IconsInv
<1>4. ASSUME NEW icon \in Icons, SetIcon(icon), th = "run",
             rows[work.item.path].kind = "current" => icon # "urgent",
             rows[work.item.path].kind = "outdated" => icon \in {"urgent", "error"}
      PROVE  IconsInv'
  <2> DEFINE i == work.item.path
  <2>1. i \in DOMAIN rows /\ rows[i].kind # "dir" /\ work.gen = gen
    BY <1>4 DEF ItemsInv, Fits
  <2>2. /\ rows' \in Seq(Row) /\ DOMAIN rows' = DOMAIN rows
        /\ \A k \in DOMAIN rows : rows'[k].kind = rows[k].kind
        /\ \A k \in DOMAIN rows : k # i => rows'[k] = rows[k]
        /\ rows'[i].icon = icon
    BY <1>1, <1>4, <2>1, IconType
  <2>3. rows'[i].kind = rows[i].kind /\ rows'[i].kind \in Kinds \ {"dir"}
    <3>1. rows'[i] \in Row
      BY <2>1, <2>2
    <3> QED
      BY <2>1, <2>2, <3>1 DEF Row
  <2>4. IconFits(rows'[i])
    BY <1>4, <2>2, <2>3 DEF IconFits, Kinds
  <2> QED
    BY <2>2, <2>4 DEF IconsInv
<1>5. CASE SfsCheck
  <2>1. FileKinds = {rows[work.item.path].kind} /\ th = "run"
    BY <1>5 DEF SfsCheck, ItemsInv, Fits, FileKinds
  <2>2. CASE "current" \in FileKinds /\ SetIcon("loading")
    BY <1>4, <2>1, <2>2 DEF Icons
  <2>3. CASE "outdated" \in FileKinds /\ SetIcon("urgent")
    BY <1>4, <2>1, <2>3 DEF Icons
  <2>4. CASE SetIcon("error")
    BY <1>4, <2>1, <2>4 DEF Icons
  <2> QED
    BY <1>5, <2>2, <2>3, <2>4 DEF SfsCheck
<1>6. CASE UpdateCheck
  <2>1. rows[work.item.path].kind = "current" /\ th = "run"
    BY <1>6 DEF UpdateCheck, ItemsInv, Fits
  <2>2. SetIcon("checked") \/ SetIcon("error")
    BY <1>6 DEF UpdateCheck
  <2> QED
    BY <1>4, <2>1, <2>2 DEF Icons
<1>7. CASE UNCHANGED rows
  BY <1>7 DEF IconsInv
<1> QED
  BY <1>2, <1>3, <1>5, <1>6, <1>7
  DEF Next, Main, Fill, Thread, ClearTodo, BranchGone, Filled, AppendTodo, Unlock, StartThread, TestTodo, Pop,
      Lookup, Requeue, Acquire, vars

LEMMA PatientInvariance == Spec => [](Inv /\ (patient => AliveInv /\ ItemsInv /\ IconsInv))
<1>1. Init => Inv /\ (patient => AliveInv /\ ItemsInv /\ IconsInv)
  <2> SUFFICES ASSUME Init PROVE AliveInv /\ ItemsInv /\ IconsInv
    BY InitInv
  <2> QED
    BY DEF Init, AliveInv, ItemsInv, IconsInv
<1>2. Inv /\ (patient => AliveInv /\ ItemsInv /\ IconsInv) /\ [Next]_vars
        => (Inv /\ (patient => AliveInv /\ ItemsInv /\ IconsInv))'
  <2>1. [Next]_vars => patient' = patient /\ steady' = steady
    BY DEF Next, Main, Thread, vars
  <2> QED
    BY <2>1, TypeStep, AliveStep, ItemsStep, IconsStep
<1> QED
  BY <1>1, <1>2, PTL DEF Spec

(* While nobody refreshes during checks, no check of an older list reaches *)
(* a row of the new one: icons say what the branch is.                     *)
THEOREM IconsTrue == Spec => []IconsFit
<1>1. Inv /\ (patient => AliveInv /\ ItemsInv /\ IconsInv) => IconsFit
  BY DEF IconsInv, IconsFit
<1> QED
  BY <1>1, PatientInvariance, PTL

(* ... and where no branch goes away while it is listed, every refresh     *)
(* lists all branches.                                                     *)
THEOREM AllListed == Spec => []Complete
<1>1. Inv /\ (patient => AliveInv /\ ItemsInv /\ IconsInv) => Complete
  BY DEF AliveInv, Complete
<1> QED
  BY <1>1, PatientInvariance, PTL
=============================================================================
