------------------------------ MODULE SfsStore ------------------------------
(***************************************************************************)
(* The commands that change a directory of SFS images, on one component of *)
(* it: update-sfs copies a newer image from a source (SFSFile.replace_with)*)
(* and rebuild-sfs builds one (SFSBuilder); both publish it with           *)
(* FSPath.replace_file; prune-old-sfs deletes backups.                     *)
(* Nothing locks the directory, so each command is a process that          *)
(* interleaves with the others at every system call that changes or reads  *)
(* a name.                                                                 *)
(*                                                                         *)
(* Abstractions: one component; a process runs one command and its pid is  *)
(* not used again; directory operations reach the disk in order (the       *)
(* journal's job) while file data need fsync; the ownership and mode that  *)
(* replace_file copies at the end, checksum files and the remounting of    *)
(* read-only targets are left out.                                         *)
(***************************************************************************)
EXTENDS SfsDir, Sequences

CONSTANTS
  Pids,        \* the processes
  Ops,         \* the commands they may run
  LinkModes,   \* how replace_file may name the new image
  FsyncOn,     \* SFS_FSYNC_SIZE > 0
  ShortReads,  \* a source connection may end early without an error
  Faults,      \* "kill": a process dies; "power": the machine does;
               \* "disk": an fsync or a later write-back fails
  Alone        \* the commands of which only one runs at a time

ASSUME StoreAssumption ==
  /\ Ops \subseteq {"update", "build", "prune"} /\ Alone \subseteq Ops
  /\ LinkModes \subseteq {"symlink", "plain", "eperm"}
  /\ {FsyncOn, ShortReads} \subseteq BOOLEAN
  /\ Faults \subseteq {"kill", "power", "disk"}

VARIABLES
  cur,     \* x.sfs
  named,   \* x.sfs.<stamp>
  old,     \* x.sfs.OLD.<time>
  temp,    \* x.sfs.NEW.<pid>
  clock,   \* the time of day, in seconds
  src,     \* the version the update source offers
  pc,      \* where each process is
  job      \* its local variables

files == <<cur, named, old, temp>>
vars == <<cur, named, old, temp, clock, src, pc, job>>

Doomed == [name : {"named", "old"}, t : Stamps]
Job == [stamp  : Stamps,            \* change_stamp of replace_file
        at     : Stamps,            \* the time in backup_name
        listed : BOOLEAN,           \* prune: cur_sfs_lst is not empty
        olds   : SUBSET Stamps,     \* prune: OLD entries still to look at
        doomed : Seq(Doomed)]       \* prune: to_be_unlinked, in order
NoJob == [stamp |-> 0, at |-> 0, listed |-> FALSE, olds |-> {}, doomed |-> <<>>]

PCs == {"idle", "open", "copy", "build", "check", "backup", "name", "publish",
        "list", "look", "unlink", "done", "failed", "dead"}
Ended == {"idle", "done", "failed", "dead"}
Pruning == {"list", "look", "unlink"}

TypeOK ==
  /\ cur \in Entry
  /\ named \in [Stamps -> Image]
  /\ old \in [Stamps -> Entry]
  /\ temp \in [Pids -> Image]
  /\ clock \in Stamps
  /\ src \in Stamps
  /\ pc \in [Pids -> PCs]
  /\ job \in [Pids -> Job]

(***************************************************************************)
(* The directory starts with version 0 in place, under a link or, where    *)
(* links are not used, as a regular file.                                  *)
(***************************************************************************)
First == [ver |-> 0, st |-> "durable"]
Init ==
  /\ \/ cur = Link(0) /\ named = [t \in Stamps |-> IF t = 0 THEN First ELSE NoImage]
     \/ cur = File(First) /\ named = [t \in Stamps |-> NoImage]
  /\ old = [t \in Stamps |-> NoEntry]
  /\ temp = [p \in Pids |-> NoImage]
  /\ clock = 0
  /\ src = 0
  /\ pc = [p \in Pids |-> "idle"]
  /\ job = [p \in Pids |-> NoJob]

goto(p, l) == pc' = [pc EXCEPT ![p] = l]

(***************************************************************************)
(* The surroundings: time passes, the source publishes a newer version.    *)
(***************************************************************************)
Tick == clock < MaxTime /\ clock' = clock + 1 /\ UNCHANGED <<files, src, pc, job>>

NewRelease ==
  /\ src < clock
  /\ src' \in (src + 1)..clock
  /\ UNCHANGED <<files, clock, pc, job>>

(***************************************************************************)
(* Starting a command.  update_sfs visits an existing x.sfs and compares   *)
(* the two create_stamps; a rebuild is decided by the caller and may also  *)
(* make a missing one.                                                     *)
(***************************************************************************)
Start(p, op) ==
  /\ op \in Ops
  /\ pc[p] = "idle"
  /\ op \in Alone =>
       \A q \in Pids : pc[q] \in Ended \cup (IF "prune" \in Alone THEN {} ELSE Pruning)

(* Mutant: the versions are not compared. *)
BeginUpdateAlways(p) ==
  Start(p, "update") /\ goto(p, "open") /\ UNCHANGED <<files, clock, src, job>>

BeginUpdate(p) ==
  /\ Start(p, "update")
  /\ Exists(cur, named)
  /\ src > Content(cur, named).ver
  /\ goto(p, "open")
  /\ UNCHANGED <<files, clock, src, job>>

(***************************************************************************)
(* replace_with opens the temporary file, then the source, and takes       *)
(* create_stamp from the first bytes it reads, not from the comparison.    *)
(***************************************************************************)
OpenTemp(p) ==
  /\ pc[p] = "open"
  /\ temp' = [temp EXCEPT ![p] = [ver |-> src, st |-> "writing"]]
  /\ job' = [job EXCEPT ![p].stamp = src]
  /\ goto(p, "copy")
  /\ UNCHANGED <<cur, named, old, clock, src>>

(* Mutants: the last bytes are not flushed before the file is renamed, or   *)
(* flushed but not synced; an error ends the copy without being raised.     *)
CopyEndUnflushed(p) ==
  pc[p] = "copy" /\ goto(p, "check") /\ UNCHANGED <<files, clock, src, job>>
CopyEndUnsynced(p) ==
  /\ pc[p] = "copy"
  /\ temp' = [temp EXCEPT ![p].st = "cached"]
  /\ goto(p, "check")
  /\ UNCHANGED <<cur, named, old, clock, src, job>>
WriteFailSwallowed(p) ==
  /\ pc[p] \in {"copy", "build"}
  /\ temp' = [temp EXCEPT ![p].st = "torn"]
  /\ goto(p, "check")
  /\ UNCHANGED <<cur, named, old, clock, src, job>>

(* Whether or not a file is fsynced, a disk that fails may keep its tail    *)
(* waiting or drop it, and nobody is told: replace_with ignores an fsync's *)
(* error and mksquashfs does not call it.                                  *)
Unsaved == IF "disk" \in Faults THEN {"cached", "torn"} ELSE {}

(* The loop ends at the first empty read: at the end of the image, or where *)
(* a connection broke off.  The last fsync precedes close.                 *)
CopyEnd(p) ==
  /\ pc[p] = "copy"
  /\ \E st \in {IF FsyncOn THEN "durable" ELSE "cached"} \cup Unsaved
               \cup (IF ShortReads THEN {"torn"} ELSE {}) :
       temp' = [temp EXCEPT ![p].st = st]
  /\ goto(p, "check")
  /\ UNCHANGED <<cur, named, old, clock, src, job>>

(* A read or write error, or a failing mksquashfs or build script.         *)
WriteFail(p) ==
  /\ pc[p] \in {"copy", "build"}
  /\ temp' = [temp EXCEPT ![p].st = "torn"]
  /\ goto(p, "failed")
  /\ UNCHANGED <<cur, named, old, clock, src, job>>

(* mksquashfs stamps the image with the time it starts and does not fsync; *)
(* replace_file names the result by its modification time.                 *)
BeginBuild(p) ==
  /\ Start(p, "build")
  /\ temp' = [temp EXCEPT ![p] = [ver |-> clock, st |-> "writing"]]
  /\ goto(p, "build")
  /\ UNCHANGED <<cur, named, old, clock, src, job>>

(* Mutant: the modification time is rounded up. *)
BuildEndRounded(p) ==
  /\ pc[p] = "build"
  /\ temp' = [temp EXCEPT ![p].st = "cached"]
  /\ job' = [job EXCEPT ![p].stamp = clock + 1]
  /\ goto(p, "check")
  /\ UNCHANGED <<cur, named, old, clock, src>>

BuildEnd(p) ==
  /\ pc[p] = "build"
  /\ \E st \in {"cached"} \cup Unsaved : temp' = [temp EXCEPT ![p].st = st]
  /\ job' = [job EXCEPT ![p].stamp = clock]
  /\ goto(p, "check")
  /\ UNCHANGED <<cur, named, old, clock, src>>

(***************************************************************************)
(* replace_file.  backup_name is computed from the time before the current *)
(* name is tested; the rename that makes the backup replaces a backup of   *)
(* the same second and fails if another process has just made its own.     *)
(***************************************************************************)
CheckTarget(p) ==
  /\ pc[p] = "check"
  /\ job' = [job EXCEPT ![p].at = clock]
  /\ goto(p, IF Present(cur) THEN "backup" ELSE "name")
  /\ UNCHANGED <<files, clock, src>>

Backup(p) ==
  /\ pc[p] = "backup"
  /\ IF Present(cur)
     THEN /\ old' = [old EXCEPT ![job[p].at] = cur]
          /\ cur' = NoEntry
          /\ goto(p, "name")
     ELSE goto(p, "failed") /\ UNCHANGED <<cur, old>>
  /\ UNCHANGED <<named, temp, clock, src, job>>

(* Mutants: the new name is made from the time of day; the linking is forgotten. *)
NameTempByTime(p) ==
  /\ pc[p] = "name"
  /\ named' = [named EXCEPT ![clock] = temp[p]]
  /\ temp' = [temp EXCEPT ![p] = NoImage]
  /\ goto(p, "publish")
  /\ UNCHANGED <<cur, old, clock, src, job>>
NameTempOnly(p) ==
  /\ pc[p] = "name"
  /\ named' = [named EXCEPT ![job[p].stamp] = temp[p]]
  /\ temp' = [temp EXCEPT ![p] = NoImage]
  /\ goto(p, "done")
  /\ UNCHANGED <<cur, old, clock, src, job>>

NameTemp(p) ==
  /\ pc[p] = "name"
  /\ named' = [named EXCEPT ![job[p].stamp] = temp[p]]
  /\ temp' = [temp EXCEPT ![p] = NoImage]
  /\ goto(p, "publish")
  /\ UNCHANGED <<cur, old, clock, src, job>>

(* NO_SFS_SYMLINKS or .nolinks ("plain") is looked up now, by each process *)
(* for itself; a file system without links answers EPERM.  os.symlink      *)
(* refuses a name that exists, whatever the file system says about links;  *)
(* rename_from replaces it, but needs its source.                          *)
PublishLink(p) ==
  /\ pc[p] = "publish"
  /\ "symlink" \in LinkModes
  /\ ~Present(cur)
  /\ cur' = Link(job[p].stamp)
  /\ goto(p, "done")
  /\ UNCHANGED <<named, old, temp, clock, src, job>>

PublishRename(p) ==
  /\ pc[p] = "publish"
  /\ "plain" \in LinkModes \/ ("eperm" \in LinkModes /\ ~Present(cur))
  /\ LET new == named[job[p].stamp] IN
       /\ new.st # "none"
       /\ cur' = File(new)
  /\ named' = [named EXCEPT ![job[p].stamp] = NoImage]
  /\ goto(p, "done")
  /\ UNCHANGED <<old, temp, clock, src, job>>

PublishFail(p) ==
  /\ pc[p] = "publish"
  /\ \/ LinkModes # {"plain"} /\ Present(cur)
     \/ LinkModes # {"symlink"} /\ named[job[p].stamp].st = "none"
  /\ goto(p, "failed")
  /\ UNCHANGED <<files, clock, src, job>>

(***************************************************************************)
(* SFSDirectory.prune_old_sfs: list the current names, list the OLD ones,  *)
(* look at each OLD entry, then unlink what was found.                     *)
(***************************************************************************)
BeginPrune(p) ==
  /\ Start(p, "prune")
  /\ job' = [job EXCEPT ![p].listed = Present(cur)]
  /\ goto(p, "list")
  /\ UNCHANGED <<files, clock, src>>

PruneList(p) ==
  /\ pc[p] = "list"
  /\ job' = [job EXCEPT ![p].olds = {t \in Stamps : Present(old[t])}]
  /\ goto(p, "look")
  /\ UNCHANGED <<files, clock, src>>

(* os.path.samefile raises when the current name it is given is gone; of a *)
(* link the second loop compares the target with the current name again.   *)
SamefileRaises(p, t) ==
  /\ Exists(old[t], named)
  /\ job[p].listed \/ (Present(cur) /\ old[t].kind = "link")
  /\ ~Exists(cur, named)

(* Mutant: nothing is recognised as current. *)
NeverCurrent(t) == FALSE
IsCurrent(t) == cur.kind = "link" /\ cur.to = old[t].to /\ Exists(cur, named)

(* Mutant: the link's target is what the current link points at. *)
FoundThroughCurrent(p, t) ==
  (IF old[t].kind = "link" THEN <<[name |-> "named", t |-> cur.to]>> ELSE <<>>)
  \o <<[name |-> "old", t |-> t]>>

(* What to_be_unlinked, a dictionary by path, gains for one OLD entry: a   *)
(* link's target unless it is current, and the entry itself.               *)
Found(p, t) ==
  LET target == [name |-> "named", t |-> old[t].to] IN
    (IF /\ old[t].kind = "link" /\ ~IsCurrent(t)
        /\ \A i \in DOMAIN job[p].doomed : job[p].doomed[i] # target
     THEN <<target>> ELSE <<>>)
    \o <<[name |-> "old", t |-> t]>>

PruneLook(p, t) ==
  /\ pc[p] = "look"
  /\ t \in job[p].olds
  /\ IF SamefileRaises(p, t)
     THEN goto(p, "failed") /\ UNCHANGED job
     ELSE /\ job' = [job EXCEPT ![p].olds = @ \ {t},
                                ![p].doomed = @ \o Found(p, t)]
          /\ UNCHANGED pc
  /\ UNCHANGED <<files, clock, src>>

PruneDecided(p) ==
  /\ pc[p] = "look"
  /\ job[p].olds = {}
  /\ goto(p, "unlink")
  /\ UNCHANGED <<files, clock, src, job>>

PruneUnlink(p) ==
  /\ pc[p] = "unlink"
  /\ job[p].doomed # <<>>
  /\ LET d == Head(job[p].doomed) IN
       \/ d.name = "named" /\ named' = [named EXCEPT ![d.t] = NoImage] /\ UNCHANGED old
       \/ d.name = "old" /\ old' = [old EXCEPT ![d.t] = NoEntry] /\ UNCHANGED named
  /\ job' = [job EXCEPT ![p].doomed = Tail(@)]
  /\ UNCHANGED <<cur, temp, clock, src, pc>>

PruneEnd(p) ==
  /\ pc[p] = "unlink"
  /\ job[p].doomed = <<>>
  /\ goto(p, "done")
  /\ UNCHANGED <<files, clock, src, job>>

(***************************************************************************)
(* Faults.  A killed process leaves its temporary file as it is; a power   *)
(* failure ends all processes and keeps only data that had reached the     *)
(* disk: by fsync, or by luck for the versions in kept.                    *)
(***************************************************************************)
Broken(i) == IF i.st = "writing" THEN [i EXCEPT !.st = "torn"] ELSE i

Kill(p) ==
  /\ "kill" \in Faults
  /\ pc[p] \notin Ended
  /\ temp' = [temp EXCEPT ![p] = Broken(@)]
  /\ goto(p, "dead")
  /\ UNCHANGED <<cur, named, old, clock, src, job>>

Lost(i, kept) ==
  IF i.st = "writing" \/ (i.st = "cached" /\ i.ver \notin kept)
  THEN [i EXCEPT !.st = "torn"]
  ELSE IF i.st = "cached" THEN [i EXCEPT !.st = "durable"] ELSE i

PowerLoss ==
  /\ "power" \in Faults
  /\ \E p \in Pids : pc[p] \notin Ended
  /\ \E kept \in SUBSET Stamps :
       /\ cur' = [cur EXCEPT !.img = Lost(@, kept)]
       /\ named' = [t \in Stamps |-> Lost(named[t], kept)]
       /\ old' = [t \in Stamps |-> [old[t] EXCEPT !.img = Lost(@, kept)]]
       /\ temp' = [p \in Pids |-> Lost(temp[p], kept)]
  /\ pc' = [p \in Pids |-> IF pc[p] \in Ended THEN pc[p] ELSE "dead"]
  /\ UNCHANGED <<clock, src, job>>

Replace(p) ==
  \/ CheckTarget(p) \/ Backup(p) \/ NameTemp(p)
  \/ PublishLink(p) \/ PublishRename(p) \/ PublishFail(p)

Prune(p) ==
  \/ BeginPrune(p) \/ PruneList(p) \/ (\E t \in Stamps : PruneLook(p, t))
  \/ PruneDecided(p) \/ PruneUnlink(p) \/ PruneEnd(p)

Command(p) ==
  \/ BeginUpdate(p) \/ OpenTemp(p) \/ CopyEnd(p) \/ WriteFail(p)
  \/ BeginBuild(p) \/ BuildEnd(p) \/ Replace(p) \/ Prune(p)

Next ==
  \/ Tick \/ NewRelease \/ PowerLoss
  \/ \E p \in Pids : Command(p) \/ Kill(p)

(***************************************************************************)
(* Copying and building may hang for ever (no timeout is set on a source); *)
(* the few system calls of replace_file do not.                            *)
(***************************************************************************)
Spec == Init /\ [][Next]_vars
FairSpec == Spec /\ \A p \in Pids : WF_vars(Replace(p))

-----------------------------------------------------------------------------
(***************************************************************************)
(* Properties.                                                             *)
(***************************************************************************)

(* When nothing outside the commands destroys data: connections deliver    *)
(* whole images, the disk takes what is written to it, and power fails     *)
(* only where every image is fsynced.                                      *)
DataSafe ==
  /\ ~ShortReads /\ "disk" \notin Faults
  /\ "power" \in Faults => FsyncOn /\ "build" \notin Ops

(* The images the directory has for its readers: those under permanent     *)
(* names, and those that a living process is about to give one.  The .NEW  *)
(* file of a dead or failed command does not count: nothing publishes it.  *)
Arriving == {p \in Pids : pc[p] = "name"}
Images ==
  {Content(cur, named)} \cup {named[t] : t \in Stamps}
    \cup {old[t].img : t \in Stamps} \cup {temp[p] : p \in Arriving}

shelf == {v \in Stamps : \E i \in Images : Whole(i) /\ i.ver = v}
NoVersion == MaxTime + 1
shown == IF Exists(cur, named) THEN Content(cur, named).ver ELSE NoVersion

(* No permanent name ever holds part of an image: a process that is        *)
(* interrupted in replace_with or make_sfs leaves its damage in .NEW.      *)
PublishedIntact ==
  /\ \A t \in Stamps : named[t].st # "none" => Whole(named[t])
  /\ \A t \in Stamps : old[t].kind = "file" => Whole(old[t].img)
  /\ cur.kind = "file" => Whole(cur.img)

(* The inductive form: an image a process is about to publish, and every   *)
(* published one, has all its bytes where no modelled fault takes them.    *)
Kept(i) == i.st = "durable" \/ (i.st = "cached" /\ "power" \notin Faults)
IntactInv ==
  /\ \A t \in Stamps : named[t].st # "none" => Kept(named[t])
  /\ \A t \in Stamps : old[t].kind = "file" => Kept(old[t].img)
  /\ cur.kind = "file" => Kept(cur.img)
  /\ \A p \in Pids : pc[p] \in {"check", "backup", "name"} => Kept(temp[p])
  /\ \A p \in Pids : pc[p] = "build" => "build" \in Ops

(* NO_SFS_SYMLINKS is part of a process's environment: that all commands   *)
(* on a directory have it, or none, is up to who calls them.               *)
Agree == "symlink" \in LinkModes => LinkModes = {"symlink"}

(* Whatever commands run together and wherever they are killed, x.sfs is   *)
(* never a symlink to nothing: replace_file links only to a name it has    *)
(* filled, and nothing takes that name away while it is the current one.   *)
CurrentResolves == Present(cur) => Exists(cur, named)

(* The inductive form: the link's target is there from the moment the      *)
(* process that will make the link has named its image.                    *)
ResolvesInv ==
  /\ CurrentResolves
  /\ \A p \in Pids : pc[p] \in {"copy", "build", "check", "backup", "name"} =>
       temp[p].st # "none"
  /\ \A p \in Pids : pc[p] = "publish" /\ "symlink" \in LinkModes =>
       named[job[p].stamp].st # "none"
  /\ \A p \in Pids : pc[p] \in {"list", "look", "unlink"} => "prune" \in Ops

(* The directory never loses its last complete image.                      *)
CopyKept == \E i \in Images : Whole(i)

(* The stronger form: one of them is out of reach of every fault.  Only     *)
(* regular files carry an image of their own, and a temporary file has one *)
(* exactly from the moment its process opens it.                           *)
CopyInv == \E i \in Images : Kept(i)
ShapeInv ==
  /\ cur.kind # "file" => cur.img = NoImage
  /\ \A t \in Stamps : old[t].kind # "file" => old[t].img = NoImage
  /\ \A p \in Pids : pc[p] \in {"idle", "open"} => temp[p] = NoImage
  /\ \A p \in Pids : pc[p] \in {"copy", "build"} => temp[p].st = "writing"

(* A process moves aside only an image older than (for a rebuild: not      *)
(* newer than) the one it is about to publish.                             *)
BacksUpOlder ==
  [][\A p \in Pids :
       pc[p] = "backup" /\ pc'[p] = "name" /\ Whole(Content(cur, named)) =>
         Content(cur, named).ver <= temp[p].ver]_vars

(* Deleting backups leaves what x.sfs reads as alone.                      *)
PruneSparesCurrent ==
  [][(\E p \in Pids : pc[p] = "unlink" /\ job'[p] # job[p]) /\ Exists(cur, named)
        => Content(cur, named)' = Content(cur, named)]_vars

(* prune-old-sfs, "delete old .sfs files from directory", deletes an image *)
(* only if another complete one at least as new is there for the readers.  *)
PruneDeletesOnlyOld ==
  [][\A p \in Pids : pc[p] = "unlink" /\ job'[p] # job[p] =>
       \A v \in shelf : \E w \in shelf' : v <= w]_vars

(* x.sfs is missing only while the process that moved it away is on its    *)
(* way to put the new image there, unless such a process is killed.        *)
Reappears ==
  ~Present(cur) ~> Present(cur) \/ \E p \in Pids : pc[p] = "dead"

(* The commands keep the promise of SfsPublish.                            *)
Publish == INSTANCE SfsPublish WITH Versions <- Stamps
PublishSpec == Publish!Spec
=============================================================================
