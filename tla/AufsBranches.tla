---------------------------- MODULE AufsBranches ----------------------------
(***************************************************************************)
(* aufs-update-branch: replacing, under a running system, the branch of a  *)
(* mounted aufs that shows an old image of a component by one that shows   *)
(* the image its current name reads as now (aufs_update_branch, MountPoint,*)
(* SFSFile.mount).  The command reads the branch list once, remembers the  *)
(* old branch's index, and changes the mount in two remounts.  The GTK     *)
(* front end starts one command per row the user activates, so several may *)
(* run at once.                                                            *)
(*                                                                         *)
(* A branch is the mount directory of one image: its component and version.*)
(* Components are numbered by their place in the stack.  The writable      *)
(* branch at index 0 is not touched and not in the model.                  *)
(***************************************************************************)
EXTENDS Naturals, SequencesExt

CONSTANTS
  NComps,    \* components of the root file system
  MaxVer,    \* versions a component goes through
  Procs,     \* the commands
  Modes,     \* the circumstances commands may run under
  Faults     \* "busy": the old branch has open files; "kill": a command dies

(* serial: one command at a time; rollback: the current name may be put    *)
(* back to an older image.                                                 *)
Mode == [serial : BOOLEAN, rollback : BOOLEAN]

ASSUME BranchAssumption ==
  /\ NComps \in Nat /\ MaxVer \in Nat
  /\ Modes \subseteq Mode /\ Faults \subseteq {"busy", "kill"}

Comps == 1..NComps
Vers == 0..MaxVer
Branch == [comp : Comps, ver : Vers]

VARIABLES
  mode,      \* the circumstances, chosen once
  cur,       \* the version the current name of each component reads as
  stack,     \* the branches of the aufs mount, the uppermost first
  mounted,   \* the images that are mounted
  pc, job    \* the commands and their local variables

vars == <<mode, cur, stack, mounted, pc, job>>

Job == [mnt  : Branch,        \* the branch to replace
        new  : Branch,        \* cur_mnt, once it is known
        list : Seq(Branch)]   \* aufs_mnt.aufs_components, a cached property
NoJob == <<>>
Ended == {"idle", "done", "failed"}

TypeOK ==
  /\ mode \in Modes
  /\ cur \in [Comps -> Vers]
  /\ stack \in Seq(Branch)
  /\ mounted \subseteq Branch
  /\ pc \in [Procs -> Ended \cup {"list", "look", "mount", "ins", "del", "umount"}]
  /\ job \in [Procs -> {NoJob} \cup Job]
  /\ \A p \in Procs : pc[p] # "idle" => job[p] \in Job

Init ==
  /\ mode \in Modes
  /\ cur = [c \in Comps |-> 0]
  /\ stack = [c \in Comps |-> [comp |-> c, ver |-> 0]]
  /\ mounted = ToSet(stack)
  /\ pc = [p \in Procs |-> "idle"]
  /\ job = [p \in Procs |-> NoJob]

goto(p, l) == pc' = [pc EXCEPT ![p] = l]

-----------------------------------------------------------------------------
(* An updater or a rebuild moves the current name to another image.        *)
Release(c) ==
  /\ \E v \in Vers :
       /\ v > cur[c] \/ (mode.rollback /\ v < cur[c])
       /\ cur' = [cur EXCEPT ![c] = v]
  /\ UNCHANGED <<stack, mounted, pc, job>>

(* The argument is a mount directory that was listed as a branch; the      *)
(* image behind it is compared with the one its current name has now.      *)
(* Which one that was is not kept: the name is read again by Look, Mount.  *)
Begin(p, b) ==
  /\ pc[p] = "idle"
  /\ mode.serial => \A q \in Procs : pc[q] \in Ended
  /\ b \in mounted
  /\ job' = [job EXCEPT ![p] = [mnt |-> b, new |-> b, list |-> <<>>]]
  /\ goto(p, IF cur[b.comp] = b.ver THEN "done" ELSE "list")
  /\ UNCHANGED <<cur, stack, mounted>>

(* comp_match; not finding the branch ends the command with a warning.     *)
List(p) ==
  /\ pc[p] = "list"
  /\ job' = [job EXCEPT ![p].list = stack]
  /\ goto(p, IF Contains(stack, job[p].mnt) THEN "look" ELSE "done")
  /\ UNCHANGED <<cur, stack, mounted>>

Current(p) == [job[p].mnt EXCEPT !.ver = cur[job[p].mnt.comp]]

(* cur_mnt and cur_comp_match: an image that the list read before has as a *)
(* branch is not inserted.                                                 *)
Take(p, new) ==
  /\ job' = [job EXCEPT ![p].new = new]
  /\ goto(p, IF Contains(job[p].list, new) THEN "del" ELSE "ins")

(* Mutant: what is mounted already is taken for a branch. *)
LookAnyway(p) ==
  /\ pc[p] = "look"
  /\ IF Current(p) \in mounted
       THEN goto(p, "del") /\ job' = [job EXCEPT ![p].new = Current(p)]
       ELSE goto(p, "mount") /\ UNCHANGED job
  /\ UNCHANGED <<cur, stack, mounted>>

(* cur_sfs.mounted_path: the image the current name has now, if it is      *)
(* mounted.                                                                *)
Look(p) ==
  /\ pc[p] = "look"
  /\ IF Current(p) \in mounted
       THEN Take(p, Current(p))
       ELSE goto(p, "mount") /\ UNCHANGED job
  /\ UNCHANGED <<cur, stack, mounted>>

(* Mutant: mounting returns nothing. *)
MountReturnsNothing(p) ==
  /\ pc[p] = "mount"
  /\ mounted' = mounted \cup {Current(p)}
  /\ job' = [job EXCEPT ![p].new = NoJob]
  /\ goto(p, "ins")
  /\ UNCHANGED <<cur, stack>>

(* cur_sfs.mount, which reads the current name once more and keeps a mount *)
(* that is there already.                                                  *)
Mount(p) ==
  /\ pc[p] = "mount"
  /\ mounted' = mounted \cup {Current(p)}
  /\ Take(p, Current(p))
  /\ UNCHANGED <<cur, stack>>

Index(p) == CHOOSE i \in DOMAIN job[p].list : job[p].list[i] = job[p].mnt

(* Mutants: the new branch is appended; an error of the insertion is ignored. *)
InsLast(p) ==
  /\ pc[p] = "ins"
  /\ ~Contains(stack, job[p].new)
  /\ stack' = Append(stack, job[p].new)
  /\ goto(p, "del")
  /\ UNCHANGED <<cur, mounted, job>>
InsSkipped(p) == pc[p] = "ins" /\ goto(p, "del") /\ UNCHANGED <<cur, stack, mounted, job>>

(* aufs refuses a branch it already has and an index beyond its branches;  *)
(* a directory that has been unmounted meanwhile it accepts while it is    *)
(* there.                                                                  *)
Ins(p) ==
  /\ pc[p] = "ins"
  /\ \/ /\ ~Contains(stack, job[p].new)
        /\ Index(p) <= Len(stack) + 1
        /\ stack' = InsertAt(stack, Index(p), job[p].new)
        /\ goto(p, "del")
     \/ /\ \/ Contains(stack, job[p].new)
           \/ Index(p) > Len(stack) + 1
           \/ job[p].new \notin mounted
        /\ goto(p, "failed")
        /\ UNCHANGED stack
  /\ UNCHANGED <<cur, mounted, job>>

(* aufs refuses to delete what is no branch, or a branch in use.           *)
Del(p) ==
  /\ pc[p] = "del"
  /\ \/ \E i \in DOMAIN stack :
          /\ stack[i] = job[p].mnt
          /\ stack' = RemoveAt(stack, i)
          /\ goto(p, "umount")
     \/ /\ ~Contains(stack, job[p].mnt) \/ "busy" \in Faults
        /\ goto(p, "failed")
        /\ UNCHANGED stack
  /\ UNCHANGED <<cur, mounted, job>>

(* Mutant: the new mount is taken down. *)
UmountNew(p) ==
  /\ pc[p] = "umount"
  /\ mounted' = mounted \ {job[p].new}
  /\ goto(p, "done")
  /\ UNCHANGED <<cur, stack, job>>

(* umount -l, and the directory is removed when the command ends.          *)
Umount(p) ==
  /\ pc[p] = "umount"
  /\ mounted' = mounted \ {job[p].mnt}
  /\ goto(p, "done")
  /\ UNCHANGED <<cur, stack, job>>

Kill(p) ==
  /\ "kill" \in Faults
  /\ pc[p] \notin Ended
  /\ goto(p, "failed")
  /\ UNCHANGED <<cur, stack, mounted, job>>

Command(p) ==
  \/ \E b \in Branch : Begin(p, b)
  \/ List(p) \/ Look(p) \/ Mount(p) \/ Ins(p) \/ Del(p) \/ Umount(p)

Next ==
  /\ \/ \E c \in Comps : Release(c)
     \/ \E p \in Procs : Command(p) \/ Kill(p)
  /\ UNCHANGED mode

Spec == Init /\ [][Next]_vars

-----------------------------------------------------------------------------
(***************************************************************************)
(* Properties.                                                             *)
(***************************************************************************)

(* However many commands run, fail or die, no component ever disappears    *)
(* from the running root file system, as long as current names only move   *)
(* forward.                                                                *)
Shows(c, v) == \E w \in v..MaxVer : Contains(stack, [comp |-> c, ver |-> w])
AllShown == \A c \in Comps : Shows(c, 0)
NoGap == ~mode.rollback => AllShown

(* The inductive form, where the current names only move forward: what a   *)
(* command found or put in the stack has since been covered only by newer  *)
(* images, and what it is about to delete is not the newest.               *)
JobInv(p) ==
  /\ pc[p] \in {"list", "look", "mount"} => job[p].mnt.ver < cur[job[p].mnt.comp]
  /\ pc[p] \in {"ins", "del"} =>
       /\ job[p].new.comp = job[p].mnt.comp
       /\ job[p].mnt.ver < job[p].new.ver
  /\ pc[p] \in {"look", "mount", "ins", "del"} =>
       /\ Contains(job[p].list, job[p].mnt)
       /\ \A b \in Branch : Contains(job[p].list, b) => Shows(b.comp, b.ver)
  /\ pc[p] = "del" => Shows(job[p].new.comp, job[p].new.ver)
GapInv ==
  /\ AllShown
  /\ \A b \in mounted : b.ver <= cur[b.comp]
  /\ \A p \in Procs : JobInv(p)

(* ... and the newest image the file system has of it never gets older, if *)
(* the current names only move forward.                                    *)
NeverOlder == [][~mode.rollback => \A c \in Comps, v \in Vers : Shows(c, v) => Shows(c, v)']_vars

(* Components keep their places: a branch never rises above or sinks below *)
(* a branch of another component, also where deleting the old branch fails *)
(* and both remain.  This needs commands one at a time: the index at which *)
(* one inserts is stale as soon as another one has inserted.               *)
LayersKept == mode.serial => \A i, j \in DOMAIN stack : i < j => stack[i].comp <= stack[j].comp

(* Every branch shows an image: whatever earlier commands left behind in   *)
(* the stack, and wherever the current name went since, no command unmounts*)
(* an image that is still a branch.  This too needs them one at a time:    *)
(* with three, the second may unmount what the third has found mounted.    *)
StackMounted == mode.serial => ToSet(stack) \subseteq mounted
=============================================================================
