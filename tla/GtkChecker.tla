----------------------------- MODULE GtkChecker -----------------------------
(***************************************************************************)
(* The GTK front end lists the branches of the root file system and checks *)
(* the SFS files among them in a background thread (lbu_gtk.py).  The main *)
(* thread refills the list in update_sfs_info and hands the checks over    *)
(* through Checker.todo; Checker.run takes them from the front and waits   *)
(* on wait_lock when there are none.  Neither a lock nor the GLib main     *)
(* loop orders the two threads: they interleave at every operation on the  *)
(* list, the lock or the store.                                            *)
(*                                                                         *)
(* Of a row the model keeps what the branch is and the update icon.  The   *)
(* sentinel that stops the thread, append(None), has no caller.            *)
(***************************************************************************)
EXTENDS Naturals, Sequences

CONSTANTS
  MaxRows,          \* branches of the root file system, at most
  MaxRefresh        \* refreshes of the list: at start, by button, after a command

ASSUME CheckerAssumption == MaxRows \in Nat \ {0} /\ MaxRefresh \in Nat

VARIABLES
  patient,   \* the user refreshes only when no check is under way (never changes)
  steady,    \* no branch goes away while it is listed (never changes)
  rows,      \* window.sfs_store
  gen,       \* how often the store has been cleared: old row references are dead
  branches,  \* main: the branches being listed
  main,      \* main: where update_sfs_info is
  todo,      \* checker.todo
  locked,    \* checker.wait_lock.locked()
  th,        \* where the checker thread is
  work       \* the check it runs: method, row path, generation of its row

vars == <<patient, steady, rows, gen, branches, main, todo, locked, th, work>>

(* A branch is a directory or disk, an SFS file that is what its current   *)
(* name reads as, or one that a more current file has replaced.            *)
Kinds == {"dir", "current", "outdated"}
Icons == {"none", "loading", "urgent", "checked", "error"}
Settled == {"urgent", "checked", "error"}
Row == [kind : Kinds, icon : Icons]
Paths == 1..MaxRows
Item == [do : {"do_sfs_check", "do_update_check"}, path : Paths]
Work == [item : Item, gen : 0..MaxRefresh]
NoWork == [item |-> [do |-> "do_sfs_check", path |-> 1], gen |-> 0]

Branches == UNION {[1..n -> Kinds] : n \in 0..MaxRows}

TypeOK ==
  /\ patient \in BOOLEAN /\ steady \in BOOLEAN
  /\ rows \in Seq(Row) /\ Len(rows) <= Len(branches)
  /\ gen \in 0..MaxRefresh
  /\ branches \in Seq(Kinds) /\ Len(branches) <= MaxRows
  /\ main \in {"idle", "clear", "fill", "append", "unlock", "start"}
  /\ todo \in Seq(Item)
  /\ locked \in BOOLEAN
  /\ th \in {"unstarted", "test", "pop", "lookup", "run", "queue", "wait", "dead"}
  /\ work \in Work

Init ==
  /\ patient \in BOOLEAN /\ steady \in BOOLEAN
  /\ rows = <<>> /\ gen = 0 /\ branches = <<>> /\ main = "idle"
  /\ todo = <<>> /\ locked = FALSE /\ th = "unstarted" /\ work = NoWork

-----------------------------------------------------------------------------
(***************************************************************************)
(* The main thread: update_sfs_info, with Checker.clear and Checker.append.*)
(***************************************************************************)
Waiting == th = "wait" /\ locked
CheckerIdle == th \in {"unstarted", "dead"} \/ (Waiting /\ todo = <<>>)

(* Mutant: the store is not cleared. *)
ClearStoreKeeps ==
  /\ main = "idle" /\ gen < MaxRefresh
  /\ gen' = gen + 1 /\ branches' \in Branches /\ main' = "clear"
  /\ UNCHANGED <<rows, todo, locked, th, work>>

ClearStore ==
  /\ main = "idle"
  /\ gen < MaxRefresh
  /\ patient => CheckerIdle
  /\ rows' = <<>>
  /\ gen' = gen + 1
  /\ branches' \in Branches
  /\ main' = "clear"
  /\ UNCHANGED <<todo, locked, th, work>>

ClearTodo ==
  /\ main = "clear"
  /\ todo' = <<>>
  /\ main' = "fill"
  /\ UNCHANGED <<rows, gen, branches, locked, th, work>>

AppendRow ==
  /\ main = "fill"
  /\ Len(rows) < Len(branches)
  /\ LET kind == branches[Len(rows) + 1] IN
       /\ rows' = Append(rows, [kind |-> kind, icon |-> "none"])
       /\ main' = IF kind = "dir" THEN "fill" ELSE "append"
  /\ UNCHANGED <<gen, branches, todo, locked, th, work>>

Filled ==
  /\ main = "fill"
  /\ Len(rows) = Len(branches)
  /\ main' = "idle"
  /\ UNCHANGED <<rows, gen, branches, todo, locked, th, work>>

(* A branch that goes away while it is listed, as when a command the front *)
(* end has started deletes it, is an exception wherever it is read next:   *)
(* in aufs_components, in lstat, or in loop_backend.  Only NotLoopDev is   *)
(* caught, so the list ends there.                                         *)
BranchGone ==
  /\ main = "fill" /\ ~steady
  /\ Len(rows) < Len(branches)
  /\ main' = "idle"
  /\ UNCHANGED <<rows, gen, branches, todo, locked, th, work>>

AppendTodo ==
  /\ main = "append"
  /\ todo' = Append(todo, [do |-> "do_sfs_check", path |-> Len(rows)])
  /\ main' = "unlock"
  /\ UNCHANGED <<rows, gen, branches, locked, th, work>>

(* Mutant: the thread is not woken. *)
UnlockNothing ==
  main = "unlock" /\ main' = "start"
  /\ UNCHANGED <<rows, gen, branches, todo, locked, th, work>>

Unlock ==
  /\ main = "unlock"
  /\ locked' = FALSE
  /\ main' = "start"
  /\ UNCHANGED <<rows, gen, branches, todo, th, work>>

(* Mutant: the loop over the branches ends when the thread is started. *)
StartThreadLate ==
  /\ main = "start"
  /\ th' = IF th = "unstarted" THEN "test" ELSE th
  /\ main' = IF th = "unstarted" THEN "idle" ELSE "fill"
  /\ UNCHANGED <<rows, gen, branches, todo, locked, work>>

(* A thread can be started once: start() raises in update_sfs_info when it *)
(* has died, and the rest of the branches is not listed.                   *)
StartThread ==
  /\ main = "start"
  /\ \/ th = "unstarted" /\ th' = "test" /\ main' = "fill"
     \/ th = "dead" /\ main' = "idle" /\ UNCHANGED th
     \/ th \notin {"unstarted", "dead"} /\ main' = "fill" /\ UNCHANGED th
  /\ UNCHANGED <<rows, gen, branches, todo, locked, work>>

Fill == ClearTodo \/ AppendRow \/ BranchGone \/ Filled \/ AppendTodo \/ Unlock \/ StartThread
Main == (ClearStore \/ Fill) /\ UNCHANGED <<patient, steady>>

-----------------------------------------------------------------------------
(***************************************************************************)
(* The checker thread.                                                     *)
(***************************************************************************)
TestTodo ==
  /\ th = "test"
  /\ th' = IF todo # <<>> THEN "pop" ELSE "wait"
  /\ UNCHANGED <<rows, gen, branches, main, todo, locked, work>>

(* pop(0) is outside the try: what clear() has taken ends the thread.      *)
Pop ==
  /\ th = "pop"
  /\ IF todo = <<>>
     THEN th' = "dead" /\ UNCHANGED <<todo, work>>
     ELSE /\ work' = [work EXCEPT !.item = Head(todo)]
          /\ todo' = Tail(todo)
          /\ th' = "lookup"
  /\ UNCHANGED <<rows, gen, branches, main, locked>>

(* row = self.sfs_store[path]: the row that has this path now.             *)
Lookup ==
  /\ th = "lookup"
  /\ work' = [work EXCEPT !.gen = gen]
  /\ th' = IF work.item.path \in DOMAIN rows THEN "run" ELSE "test"
  /\ UNCHANGED <<rows, gen, branches, main, todo, locked>>

(* Writing to a row that has been cleared has no effect.                   *)
SetIcon(icon) ==
  rows' = IF work.gen = gen /\ work.item.path \in DOMAIN rows
          THEN [rows EXCEPT ![work.item.path].icon = icon] ELSE rows

(* The file was read from the row at its lookup, so once the row is gone   *)
(* it may be any.                                                          *)
FileKinds ==
  IF work.gen = gen /\ work.item.path \in DOMAIN rows
  THEN {rows[work.item.path].kind} ELSE Kinds

(* Mutant: a file that is not current is scheduled for an update check too. *)
SfsCheckAll ==
  /\ th = "run"
  /\ work.item.do = "do_sfs_check"
  /\ \/ SetIcon("loading") /\ th' = "queue"
     \/ SetIcon("error") /\ th' = "test"
  /\ UNCHANGED <<gen, branches, main, todo, locked, work>>

(* do_sfs_check compares the file with its current name and asks for a     *)
(* do_update_check if they are one; either fails where there is no file.   *)
SfsCheck ==
  /\ th = "run"
  /\ work.item.do = "do_sfs_check"
  /\ \/ "current" \in FileKinds /\ SetIcon("loading") /\ th' = "queue"
     \/ "outdated" \in FileKinds /\ SetIcon("urgent") /\ th' = "test"
     \/ SetIcon("error") /\ th' = "test"
  /\ UNCHANGED <<gen, branches, main, todo, locked, work>>

(* Mutant: a failed check leaves the icon as it was. *)
UpdateCheckQuiet ==
  /\ th = "run"
  /\ work.item.do = "do_update_check"
  /\ SetIcon("checked") \/ UNCHANGED rows
  /\ th' = "test"
  /\ UNCHANGED <<gen, branches, main, todo, locked, work>>

UpdateCheck ==
  /\ th = "run"
  /\ work.item.do = "do_update_check"
  /\ (FileKinds # {"dir"} /\ SetIcon("checked")) \/ SetIcon("error")
  /\ th' = "test"
  /\ UNCHANGED <<gen, branches, main, todo, locked, work>>

Requeue ==
  /\ th = "queue"
  /\ todo' = Append(todo, [work.item EXCEPT !.do = "do_update_check"])
  /\ th' = "test"
  /\ UNCHANGED <<rows, gen, branches, main, locked, work>>

Acquire ==
  /\ th = "wait"
  /\ ~locked
  /\ locked' = TRUE
  /\ th' = "test"
  /\ UNCHANGED <<rows, gen, branches, main, todo, work>>

Thread ==
  /\ TestTodo \/ Pop \/ Lookup \/ SfsCheck \/ UpdateCheck \/ Requeue \/ Acquire
  /\ UNCHANGED <<patient, steady>>

Next == Main \/ Thread

(***************************************************************************)
(* The GLib main loop runs its callback to the end; the thread is scheduled*)
(* and every check ends, with an error if need be.                         *)
(***************************************************************************)
Spec == Init /\ [][Next]_vars
FairSpec ==
  /\ Spec
  /\ WF_vars(Fill /\ UNCHANGED <<patient, steady>>)
  /\ WF_vars(Thread)

-----------------------------------------------------------------------------
(***************************************************************************)
(* Properties.                                                             *)
(***************************************************************************)

(* The thread never sleeps on a check: if it waits for the lock while the  *)
(* list has an item, the main thread is about to release the lock.         *)
NoLostWakeup == Waiting /\ todo # <<>> => main = "unlock"

(* After the last refresh every SFS row gets its verdict and keeps one,    *)
(* whatever checks of older lists still come in, unless the thread died.   *)
RowsSettle ==
  gen = MaxRefresh /\ main = "idle" ~>
    [](th = "dead" \/ \A i \in DOMAIN rows : rows[i].kind # "dir" => rows[i].icon \in Settled)

(* If nobody refreshes while checks are under way, no check of an older    *)
(* list reaches a row of the new one: a branch that is no file stays       *)
(* unmarked, and an outdated file, which on_row_activate replaces with     *)
(* aufs-update-branch and not by a rebuild, is never called up to date.    *)
IconFits(r) ==
  CASE r.kind = "dir" -> r.icon = "none"
    [] r.kind = "current" -> r.icon # "urgent"
    [] r.kind = "outdated" -> r.icon \in {"none", "urgent", "error"}
IconsFit == patient => \A i \in DOMAIN rows : IconFits(rows[i])

(* ... and where no branch goes away while it is listed, every refresh     *)
(* lists all branches: the thread it needs is alive.                       *)
Complete == patient /\ steady /\ main = "idle" => Len(rows) = Len(branches)
=============================================================================
