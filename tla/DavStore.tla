------------------------------ MODULE DavStore ------------------------------
(***************************************************************************)
(* update-sfs on a component x.sfs that lies on a web server: the same     *)
(* SFSFile.replace_with and FSPath.replace_file as in SfsStore, whose file *)
(* operations FSPathURLMixin turns into requests: writing is a PUT that a  *)
(* forked child sends from a pipe, renaming a MOVE, testing a HEAD.  Links *)
(* are not used, so every name is a file.                                  *)
(*                                                                         *)
(* Abstractions: one component; a process replaces it once; requests take  *)
(* effect at one moment and a MOVE replaces its destination; a failing     *)
(* request has the effect or not.  Checksum files are left out.            *)
(***************************************************************************)
EXTENDS SfsDir

CONSTANTS
  Pids,         \* the processes
  Faults,       \* "http": requests fail; "kill": processes die
  ShortReads,   \* a source connection may end early without an error
  KeepsBroken   \* the server keeps what it got of an upload that broke off

ASSUME DavAssumption ==
  /\ Faults \subseteq {"http", "kill"}
  /\ ShortReads \in BOOLEAN /\ KeepsBroken \in BOOLEAN

VARIABLES
  cur,     \* x.sfs
  named,   \* x.sfs.<stamp>
  old,     \* x.sfs.OLD.<time>
  temp,    \* x.sfs.NEW.<pid>
  clock,   \* the time of day, in seconds
  src,     \* the version the update source offers
  child,   \* the child that uploads for each process (_write_pid)
  pc,      \* where each process is
  job      \* its local variables

files == <<cur, named, old, temp>>
vars == <<cur, named, old, temp, clock, src, child, pc, job>>

Job == [stamp : Stamps,     \* change_stamp
        at    : Stamps,     \* the time in the backup's name
        sent  : BOOLEAN]    \* the whole image has gone into the pipe
PCs == {"idle", "open", "copy", "check", "backup", "name", "look", "again",
        "publish", "done", "failed", "dead"}
Ended == {"done", "failed", "dead"}

TypeOK ==
  /\ cur \in Image
  /\ named \in [Stamps -> Image] /\ old \in [Stamps -> Image]
  /\ temp \in [Pids -> Image]
  /\ clock \in Stamps /\ src \in Stamps
  /\ child \in [Pids -> {"none", "putting", "ended"}]
  /\ pc \in [Pids -> PCs]
  /\ job \in [Pids -> Job]

First == [ver |-> 0, st |-> "cached"]
Init ==
  /\ cur = First
  /\ named = [t \in Stamps |-> NoImage] /\ old = [t \in Stamps |-> NoImage]
  /\ temp = [p \in Pids |-> NoImage]
  /\ clock = 0 /\ src = 0
  /\ child = [p \in Pids |-> "none"]
  /\ pc = [p \in Pids |-> "idle"]
  /\ job = [p \in Pids |-> [stamp |-> 0, at |-> 0, sent |-> FALSE]]

goto(p, l) == pc' = [pc EXCEPT ![p] = l]
There(i) == i.st # "none"

Tick == clock < MaxTime /\ clock' = clock + 1 /\ UNCHANGED <<files, src, child, pc, job>>

NewRelease ==
  /\ src < clock /\ src' \in (src + 1)..clock
  /\ UNCHANGED <<files, clock, child, pc, job>>

(* The header of x.sfs is fetched and compared with that of the source.    *)
Begin(p) ==
  /\ pc[p] = "idle" /\ There(cur) /\ src > cur.ver
  /\ goto(p, "open")
  /\ UNCHANGED <<files, clock, src, child, job>>

-----------------------------------------------------------------------------
(***************************************************************************)
(* The upload: a pipe, and a child that sends what comes out of it until   *)
(* its end.  That end is also what the child sees when its parent fails or *)
(* is killed; the request it then completes carries part of the image.     *)
(***************************************************************************)
OpenTemp(p) ==
  /\ pc[p] = "open"
  /\ temp' = [temp EXCEPT ![p] = [ver |-> src, st |-> "writing"]]
  /\ child' = [child EXCEPT ![p] = "putting"]
  /\ job' = [job EXCEPT ![p].stamp = src]
  /\ goto(p, "copy")
  /\ UNCHANGED <<cur, named, old, clock, src>>

(* The pipe takes the last bytes whether or not the child still reads.  An *)
(* empty read ends the loop, also when the source has broken off.          *)
CopyEnd(p) ==
  /\ pc[p] = "copy"
  /\ \E all \in {TRUE} \cup (IF ShortReads THEN {FALSE} ELSE {}) :
       job' = [job EXCEPT ![p].sent = all]
  /\ goto(p, "check")
  /\ UNCHANGED <<files, clock, src, child>>

Uploaded(p, st) ==
  /\ child[p] = "putting"
  /\ temp' = [temp EXCEPT ![p].st = st]
  /\ child' = [child EXCEPT ![p] = "ended"]
  /\ UNCHANGED <<cur, named, old, clock, src, pc, job>>

Put(p) ==
  /\ pc[p] # "copy"
  /\ Uploaded(p, IF job[p].sent THEN "cached" ELSE "torn")

(* The child dies of any error; nobody asks how it ended.                  *)
PutFails(p) ==
  /\ "http" \in Faults
  /\ \E st \in {"none"} \cup (IF KeepsBroken THEN {"torn"} ELSE {})
                       \cup (IF job[p].sent THEN {"cached"} ELSE {}) :
       Uploaded(p, st)

-----------------------------------------------------------------------------
(***************************************************************************)
(* replace_file: x.sfs is moved to its OLD name first; only the MOVE of    *)
(* the temporary file waits for the child (_rename_as_move).  Then         *)
(* rename_from looks for x.sfs once more and moves the new image there.    *)
(***************************************************************************)

(* Mutant: the time is rounded up.                                         *)
LookRounded(p, l, ifThere, ifNot) ==
  /\ pc[p] = l
  /\ job' = [job EXCEPT ![p].at = clock + 1]
  /\ goto(p, IF There(cur) THEN ifThere ELSE ifNot)
  /\ UNCHANGED <<files, clock, src, child>>

Look(p, l, ifThere, ifNot) ==
  /\ pc[p] = l
  /\ job' = [job EXCEPT ![p].at = clock]
  /\ goto(p, IF There(cur) THEN ifThere ELSE ifNot)
  /\ UNCHANGED <<files, clock, src, child>>

(* A MOVE ends as asked for, with an error (a source that is not there is  *)
(* one), or with its reply lost.                                           *)
Answered(p, next) == goto(p, next) \/ ("http" \in Faults /\ goto(p, "failed"))

(* Mutant: the old image is deleted to make room.                          *)
BackupDeletes(p, l, next) ==
  /\ pc[p] = l /\ There(cur)
  /\ cur' = NoImage
  /\ Answered(p, next)
  /\ UNCHANGED <<named, old, temp, clock, src, child, job>>

Backup(p, l, next) ==
  /\ pc[p] = l /\ There(cur)
  /\ old' = [old EXCEPT ![job[p].at] = cur]
  /\ cur' = NoImage
  /\ Answered(p, next)
  /\ UNCHANGED <<named, temp, clock, src, child, job>>

(* Mutants: the upload is not waited for; the MOVE to x.sfs is forgotten.  *)
NameTempAtOnce(p) ==
  /\ pc[p] = "name" /\ There(temp[p])
  /\ named' = [named EXCEPT ![job[p].stamp] = temp[p]]
  /\ temp' = [temp EXCEPT ![p] = NoImage]
  /\ Answered(p, "look")
  /\ UNCHANGED <<cur, old, clock, src, child, job>>
NameTempOnly(p) ==
  /\ pc[p] = "name" /\ child[p] = "ended" /\ There(temp[p])
  /\ named' = [named EXCEPT ![job[p].stamp] = temp[p]]
  /\ temp' = [temp EXCEPT ![p] = NoImage]
  /\ goto(p, "done")
  /\ UNCHANGED <<cur, old, clock, src, child, job>>

NameTemp(p) ==
  /\ pc[p] = "name" /\ child[p] = "ended" /\ There(temp[p])
  /\ named' = [named EXCEPT ![job[p].stamp] = temp[p]]
  /\ temp' = [temp EXCEPT ![p] = NoImage]
  /\ Answered(p, "look")
  /\ UNCHANGED <<cur, old, clock, src, child, job>>

PublishMove(p) ==
  /\ pc[p] = "publish" /\ There(named[job[p].stamp])
  /\ cur' = named[job[p].stamp]
  /\ named' = [named EXCEPT ![job[p].stamp] = NoImage]
  /\ Answered(p, "done")
  /\ UNCHANGED <<old, temp, clock, src, child, job>>

NotFound(p) ==
  \/ pc[p] \in {"backup", "again"} /\ ~There(cur)
  \/ pc[p] = "name" /\ child[p] = "ended" /\ ~There(temp[p])
  \/ pc[p] = "publish" /\ ~There(named[job[p].stamp])

(* Reading the source or writing to the pipe fails, or a request does.     *)
Fails(p) ==
  /\ \/ NotFound(p)
     \/ "http" \in Faults /\ pc[p] \in PCs \ ({"idle", "open"} \cup Ended)
  /\ goto(p, "failed")
  /\ UNCHANGED <<files, clock, src, child, job>>

Kill(p) ==
  /\ "kill" \in Faults /\ pc[p] \notin {"idle"} \cup Ended
  /\ goto(p, "dead")
  /\ UNCHANGED <<files, clock, src, child, job>>

-----------------------------------------------------------------------------
Upload(p) == Put(p) \/ PutFails(p)
Replace(p) ==
  \/ Look(p, "check", "backup", "name") \/ Backup(p, "backup", "name") \/ NameTemp(p)
  \/ Look(p, "look", "again", "publish") \/ Backup(p, "again", "publish")
  \/ PublishMove(p) \/ Fails(p)

Next ==
  \/ Tick \/ NewRelease
  \/ \E p \in Pids :
       Begin(p) \/ OpenTemp(p) \/ CopyEnd(p) \/ Upload(p) \/ Replace(p) \/ Kill(p)

(* Requests, an upload whose pipe has ended among them, are answered or    *)
(* fail; reading the source may take for ever.                             *)
Spec == Init /\ [][Next]_vars
FairSpec == Spec /\ \A p \in Pids : WF_vars(Upload(p)) /\ WF_vars(Replace(p))

-----------------------------------------------------------------------------
(***************************************************************************)
(* Properties.                                                             *)
(***************************************************************************)

(* Where sources deliver whole images and the server drops broken uploads, *)
(* no permanent name ever holds part of an image, although the child's     *)
(* fate is never asked for: what is moved is there only if its upload has  *)
(* succeeded.                                                              *)
DataSafe == ~ShortReads /\ ~KeepsBroken
Published == {cur} \cup {named[t] : t \in Stamps} \cup {old[t] : t \in Stamps}
PublishedIntact == DataSafe => \A i \in Published : There(i) => Whole(i)

(* The inductive form: the temporary file of a process that is going to    *)
(* move it is being sent, whole, or not there.                             *)
IntactInv ==
  /\ PublishedIntact
  /\ \A p \in Pids :
       /\ pc[p] \in {"idle", "open"} => child[p] = "none" /\ temp[p] = NoImage
       /\ child[p] = "putting" => temp[p].st = "writing"
       /\ ~ShortReads /\ pc[p] \in {"check", "backup", "name"} => job[p].sent
       /\ /\ DataSafe /\ pc[p] \in {"copy", "check", "backup", "name"}
          /\ child[p] = "ended" /\ There(temp[p])
          => Whole(temp[p])

(* x.sfs, once moved away, comes back, unless a process dies or fails:     *)
(* also when another has taken it away in between.                         *)
Reappears ==
  ~There(cur) ~> There(cur) \/ \E p \in Pids : pc[p] \in {"dead", "failed"}

(* The requests keep the promise of SfsPublish: a whole image remains at   *)
(* every moment under one of the permanent names.                          *)
CopyInv == \E i \in Published : Whole(i)
shelf == {v \in Stamps : \E i \in Published : Whole(i) /\ i.ver = v}
NoVersion == MaxTime + 1
shown == IF There(cur) THEN cur.ver ELSE NoVersion
Publish == INSTANCE SfsPublish WITH Versions <- Stamps
PublishSpec == Publish!Spec
=============================================================================
