------------------------------ MODULE Rebuild ------------------------------
(***************************************************************************)
(* update-sfs --auto-rebuild on one component x.sfs that is built from a   *)
(* git repository: the decision (SFSFile.latest_stamp and needs_update),   *)
(* the build in a container (SFSBuilder, LXC) and what is taken down when  *)
(* the command ends, well or not (the __del__ methods of MountPoint and    *)
(* LXC).  Commands are processes without a lock; they share x.sfs, the     *)
(* directory it is mounted on and the git checkouts.                       *)
(*                                                                         *)
(* Abstractions: publishing the image is one step here, see SfsStore; the  *)
(* first look at x.sfs and at the loop devices is one step; a build is     *)
(* apt-get update and NScripts scripts; build shells and the environment's *)
(* own scripts run like those; the configuration of a container is written *)
(* in one step and commands that clean up do not fail.                     *)
(***************************************************************************)
EXTENDS GitCache, FiniteSets

CONSTANTS
  Procs,      \* the processes
  NScripts,   \* build scripts of the component
  Worlds      \* the circumstances the commands may run under

(***************************************************************************)
(* alone    : commands are run one after the other                         *)
(* timely   : commits are pushed when they are made, and like images from  *)
(*            elsewhere only while no command runs, and not in the second  *)
(*            an image is from                                             *)
(* faults   : "fail": commands and the network fail, disks are full,       *)
(*            containers end early; "kill": processes are killed           *)
(* web      : the URL of the source is http, https or git, and not ssh or  *)
(*            the path of a bare repository                                *)
(* side     : the component is built from another branch than the default  *)
(*            branch of its source, which stays where they parted          *)
(* script   : the check the image brings along, if any                     *)
(* readonly : the file system of x.sfs is mounted read-only                *)
(* booted   : the system runs from the first image, which is mounted       *)
(***************************************************************************)
World == [alone : BOOLEAN, timely : BOOLEAN,
          faults : SUBSET {"fail", "kill"}, web : BOOLEAN, side : BOOLEAN,
          script : {"none", "latest", "check"},
          readonly : BOOLEAN, booted : BOOLEAN]

ASSUME RebuildAssumption ==
  IsFiniteSet(Procs) /\ NScripts \in Nat \ {0} /\ Worlds \subseteq World

VARIABLES
  world,     \* the circumstances, chosen once
  img,       \* the image x.sfs names
  mounted,   \* how often the mount directory named for a stamp is mounted on
  target,    \* the file system of x.sfs: "ro" or "rw"
  owned,     \* of which images each process is to undo the mount (_remove_on_del)
  held,      \* what each process has set up for its build
  pc,        \* where each process is
  job        \* its local variables

vars == <<git, world, img, mounted, owned, target, held, pc, job>>

NoCommit == -1

(* from: the commit the tree was unpacked from; label, branch: the commit  *)
(* and branch written into it (.git-commit, .git-source), both or neither; *)
(* env: its build settings (.env) are those of its predecessor; torn: files*)
(* of the source are missing; scripts: the build scripts that are there;   *)
(* ran: how many have succeeded.                                           *)
Image == [from : Commits, label : Commits \cup {NoCommit}, branch : {"branch", "default"},
          stamp : Times, env : BOOLEAN,
          torn : BOOLEAN, scripts : 0..NScripts, ran : 0..NScripts]
Job == [img : Image,                        \* x.sfs as first looked at
        src : BOOLEAN,                      \* git_source is not None
        commit : Commits \cup {NoCommit},   \* git_commit
        latest : Times,                     \* latest_stamp
        apt : BOOLEAN,                      \* apt_updated
        new : Image,                        \* the image being built
        remounted : BOOLEAN]                \* remount_ro
Things == {"destdir", "comnt", "layers", "config", "running"}
PCs == {"idle", "mount", "source", "commit", "pull", "clone", "head", "stamp",
        "script", "decide", "init", "pull2", "clone2", "dest", "container",
        "start", "apt", "run", "label", "squash", "publish", "restore",
        "clean", "stop", "destroy", "dead"}

TypeOK ==
  /\ GitTypeOK /\ world \in World
  /\ img \in Image
  /\ mounted \in [Times -> Int]
  /\ owned \in [Procs -> SUBSET Times]
  /\ target \in {"ro", "rw"}
  /\ held \in [Procs -> SUBSET Things]
  /\ pc \in [Procs -> PCs]
  /\ job \in [Procs -> Job]

First == [from |-> 0, label |-> 0, branch |-> "branch", stamp |-> 0, env |-> TRUE,
          torn |-> FALSE, scripts |-> NScripts, ran |-> NScripts]
NoJob == [img |-> First, src |-> FALSE, commit |-> NoCommit,
          latest |-> 0, apt |-> FALSE, new |-> First, remounted |-> FALSE]

(* Mounts of the images by the system, and by processes.                   *)
Booted(s) == IF world.booted /\ s = First.stamp THEN 1 ELSE 0
Owned(s) == Cardinality({p \in Procs : s \in owned[p]})

Init ==
  /\ GitInit /\ world \in Worlds
  /\ img = First
  /\ mounted = [s \in Times |-> Booted(s)]
  /\ owned = [p \in Procs |-> {}]
  /\ target = IF world.readonly THEN "ro" ELSE "rw"
  /\ held = [p \in Procs |-> {}]
  /\ pc = [p \in Procs |-> "idle"]
  /\ job = [p \in Procs |-> NoJob]

-----------------------------------------------------------------------------
goto(p, l) == pc' = [pc EXCEPT ![p] = l]
At(p, l) == pc[p] = l
May(fault) == fault \in world.faults
Resting(p) == pc[p] \in {"idle", "dead"}
Quiet == \A p \in Procs : Resting(p)

(* The image p looks at is still mounted where p, or another, mounted it.  *)
MountThere(p) == mounted[job[p].img.stamp] > 0
Unmount(p) ==
  /\ mounted' = [s \in Times |-> mounted[s] - (IF s \in owned[p] THEN 1 ELSE 0)]
  /\ owned' = [owned EXCEPT ![p] = {}]
Fail(p) == goto(p, "clean")
system == <<git, world, img, mounted, owned, target, held>>

(***************************************************************************)
(* The surroundings.                                                       *)
(***************************************************************************)
Time == Tick /\ UNCHANGED <<world, img, mounted, owned, target, held, pc, job>>

Commit ==
  /\ \E when \in Times :
       /\ world.timely => Quiet /\ when = clock /\ when > img.stamp
       /\ Push(when)
  /\ UNCHANGED <<world, img, mounted, owned, target, held, pc, job>>

(* update-sfs <source> brings a newer image that was built elsewhere.      *)
Other(c, s) == [First EXCEPT !.from = c, !.label = c, !.stamp = s]
Import ==
  /\ world.alone \/ world.timely => Quiet
  /\ \E c \in img.from..head, s \in (img.stamp + 1)..clock :
       /\ s >= ctime[c] /\ (world.timely => c = head)
       /\ img' = Other(c, s)
  /\ UNCHANGED <<git, world, mounted, owned, target, held, pc, job>>

-----------------------------------------------------------------------------
(***************************************************************************)
(* The image is mounted when a file of it is first opened, unless a loop   *)
(* device shows it already.  Two that find it unmounted both mount it.     *)
(***************************************************************************)
Visit(p) ==
  /\ At(p, "idle")
  /\ world.alone => \A q \in Procs \ {p} : Resting(q)
  /\ job' = [job EXCEPT ![p].img = img]
  /\ goto(p, IF mounted[img.stamp] > 0 THEN "source" ELSE "mount")
  /\ UNCHANGED system

Mount(p) ==
  /\ At(p, "mount")
  /\ \/ /\ job' = [job EXCEPT ![p].img = img]
        /\ mounted' = [mounted EXCEPT ![img.stamp] = @ + 1]
        /\ owned' = [owned EXCEPT ![p] = {img.stamp}]
        /\ goto(p, "source")
     \/ /\ mounted[img.stamp] > 0
        /\ job' = [job EXCEPT ![p].img = img]
        /\ goto(p, "source") /\ UNCHANGED <<mounted, owned>>
     \/ May("fail") /\ Fail(p) /\ UNCHANGED <<job, mounted, owned>>
  /\ UNCHANGED <<git, world, img, target, held>>

(* What cannot be opened counts as not there.                              *)
ReadSource(p) ==
  LET there == MountThere(p) /\ job[p].img.label # NoCommit IN
  /\ At(p, "source")
  /\ job' = [job EXCEPT ![p].src = there]
  /\ goto(p, IF there THEN "commit" ELSE "script")
  /\ UNCHANGED system

ReadCommit(p) ==
  /\ At(p, "commit")
  /\ job' = [job EXCEPT ![p].commit = IF MountThere(p) THEN job[p].img.label ELSE NoCommit]
  /\ goto(p, "pull")
  /\ UNCHANGED system

-----------------------------------------------------------------------------
(***************************************************************************)
(* Downloader.dl_file_git for checkout c, called at pull and returning to  *)
(* next.                                                                   *)
(***************************************************************************)
Tip(c) == IF c = "branch" \/ ~world.side THEN head ELSE 0

(* The check asks for url#branch.  The build appends the branch only to    *)
(* URLs of three schemes and gets another checkout for any other.          *)
Checked(j) == j.img.branch
Built(j) == IF world.web THEN j.img.branch ELSE "plain"

Pull(p, c, pull, clone, next) ==
  /\ At(p, pull)
  /\ \/ PullSucceeds(c, Tip(c)) /\ goto(p, next)
     \/ PullSucceeds(c, Tip(c)) /\ May("fail") /\ Fail(p)    \* git submodule update
     \/ PullFails(c) /\ (repo[c].st = "cloning" \/ May("fail")) /\ goto(p, next)
     \/ BeginClone(c) /\ goto(p, clone)
     \/ repo[c].st = "cloning" /\ Fail(p) /\ UNCHANGED repo   \* it was not there before
  /\ UNCHANGED <<clock, head, ctime, world, img, mounted, owned, target, held, job>>

Clone(p, c, clone, next) ==
  /\ At(p, clone)
  /\ \/ EndClone(c, Tip(c)) /\ goto(p, next)
     \/ May("fail") /\ AbortClone(c) /\ Fail(p)
  /\ UNCHANGED <<clock, head, ctime, world, img, mounted, owned, target, held, job>>

-----------------------------------------------------------------------------
(***************************************************************************)
(* SFSFile.latest_stamp.                                                   *)
(***************************************************************************)
HeadOf(c) == repo[c].at

Head(p) ==
  LET c == Checked(job[p]) IN
  /\ At(p, "head")
  /\ \/ ~Ready(c) /\ Fail(p)
     \/ Ready(c) /\ HeadOf(c) = job[p].commit /\ goto(p, "script")
     \/ Ready(c) /\ HeadOf(c) # job[p].commit /\ goto(p, "stamp")
  /\ UNCHANGED <<system, job>>

LatestIs(p, stamp) == job' = [job EXCEPT ![p].latest = stamp] /\ goto(p, "decide")

LastStamp(p) == ctime[HeadOf(Checked(job[p]))]
Stamp(p) == At(p, "stamp") /\ LatestIs(p, LastStamp(p)) /\ UNCHANGED system

(* .get-latest-stamp says when there was something new, .check-up-to-date  *)
(* only whether there is.                                                  *)
Script(p) ==
  LET script == IF MountThere(p) THEN world.script ELSE "none" IN
  /\ At(p, "script")
  /\ \/ script = "none" /\ LatestIs(p, job[p].img.stamp)
     \/ script = "latest" /\ \E t \in 0..clock : LatestIs(p, t)
     \/ script = "latest" /\ May("fail") /\ Fail(p) /\ UNCHANGED job
     \/ script = "check" /\ LatestIs(p, clock)
     \/ script = "check" /\ LatestIs(p, IF job[p].src THEN LastStamp(p) ELSE job[p].img.stamp)
  /\ UNCHANGED system

(* Mutant: any other stamp counts as an update.                            *)
DecideDiffers(p) ==
  /\ At(p, "decide")
  /\ goto(p, IF job[p].latest # job[p].img.stamp THEN "init" ELSE "clean")
  /\ UNCHANGED <<system, job>>

(* needs_update.  With --no-act, and in the checker of the GTK program,    *)
(* nothing follows.                                                        *)
Decide(p) ==
  /\ At(p, "decide")
  /\ \/ job[p].latest > job[p].img.stamp /\ goto(p, "init")
     \/ job[p].latest > job[p].img.stamp /\ ~world.alone /\ goto(p, "clean")
     \/ job[p].latest <= job[p].img.stamp /\ goto(p, "clean")
  /\ UNCHANGED <<system, job>>

-----------------------------------------------------------------------------
(***************************************************************************)
(* SFSBuilder: the source and the settings of the last build, then the     *)
(* tree to build in.                                                       *)
(***************************************************************************)
Blank(env) == [First EXCEPT !.label = NoCommit, !.env = env, !.ran = 0]

(* Mutant: the settings are taken over only if the source is not known.    *)
InitBuilderFresh(p) ==
  /\ At(p, "init")
  /\ job' = [job EXCEPT ![p].new = Blank(~job[p].src)]
  /\ goto(p, IF job[p].src THEN "pull2" ELSE "dest")
  /\ UNCHANGED system

InitBuilder(p) ==
  /\ At(p, "init")
  /\ job' = [job EXCEPT ![p].new = Blank(MountThere(p) /\ job[p].img.env)]
  /\ goto(p, IF job[p].src THEN "pull2" ELSE "dest")
  /\ UNCHANGED system

Hold(p, things) == held' = [held EXCEPT ![p] = @ \cup things]
Release(p, things) == held' = [held EXCEPT ![p] = @ \ things]

(* Without a build script no container is started.                         *)
BuildWith(p, scripts) == goto(p, IF scripts = 0 THEN "label" ELSE "container")

(* git archive HEAD | tar x, whose failure goes unnoticed, whatever it is: *)
(* only the status of the submodules' pipelines after it is looked at.  So *)
(* any part of the tree may be missing; without a HEAD all of it is.       *)
DestFromSource(p) ==
  LET c == Built(job[p]) IN
  /\ At(p, "dest") /\ job[p].src
  /\ \/ \E torn \in {~Ready(c), ~Ready(c) \/ May("fail")}, scripts \in 0..NScripts :
          /\ ~torn => scripts = NScripts
          /\ ~Ready(c) => scripts = 0
          /\ job' = [job EXCEPT ![p].new.from = HeadOf(c), ![p].new.torn = torn,
                                ![p].new.scripts = scripts]
          /\ BuildWith(p, scripts)
     \/ May("fail") /\ Fail(p) /\ UNCHANGED job
  /\ Hold(p, {"destdir"})
  /\ UNCHANGED <<git, world, img, mounted, owned, target>>

(* A writable layer over the old image, or over what is left of its mount  *)
(* directory.                                                              *)
DestFromImage(p) ==
  LET there == MountThere(p)
      scripts == IF there THEN job[p].img.scripts ELSE 0
  IN
  /\ At(p, "dest") /\ ~job[p].src
  /\ job' = [job EXCEPT ![p].new =
               [job[p].img EXCEPT
                  !.label = IF there THEN @ ELSE NoCommit,
                  !.env = job[p].new.env \/ (there /\ @),
                  !.torn = @ \/ ~there,
                  !.scripts = scripts, !.ran = 0]]
  /\ Hold(p, {"destdir", "comnt"})
  /\ BuildWith(p, scripts)
  /\ UNCHANGED <<git, world, img, mounted, owned, target>>

Container(p) ==
  /\ At(p, "container")
  /\ \/ Hold(p, {"layers", "config"}) /\ goto(p, "start")
     \/ May("fail") /\ Hold(p, {"layers"}) /\ Fail(p)    \* a part is not found
  /\ UNCHANGED <<git, world, img, mounted, owned, target, job>>

-----------------------------------------------------------------------------
(***************************************************************************)
(* SFSBuilder.build: each command starts the container if it is not        *)
(* running.  The container's own init is a sleep that may end.             *)
(***************************************************************************)
Running(p) == "running" \in held[p]
Start(p) ==
  /\ At(p, "start")
  /\ \/ Hold(p, {"running"}) /\ goto(p, IF job[p].apt THEN "run" ELSE "apt")
     \/ ~Running(p) /\ May("fail") /\ Fail(p) /\ UNCHANGED held
  /\ UNCHANGED <<git, world, img, mounted, owned, target, job>>

ContainerEnds(p) ==
  /\ May("fail") /\ Running(p) /\ Release(p, {"running"})
  /\ UNCHANGED <<git, world, img, mounted, owned, target, pc, job>>

(* Mutant: after the last script one more is run.                          *)
AttachMore(p) ==
  /\ pc[p] \in {"apt", "run"} /\ Running(p)
  /\ job' = [job EXCEPT ![p].apt = TRUE, ![p].new.ran = IF At(p, "run") THEN @ + 1 ELSE @]
  /\ goto(p, IF job[p].new.ran < job[p].new.scripts THEN "start" ELSE "label")

Attach(p) ==
  \/ /\ At(p, "apt") /\ Running(p)
     /\ job' = [job EXCEPT ![p].apt = TRUE]
     /\ goto(p, "start")
  \/ /\ At(p, "run") /\ Running(p)
     /\ job' = [job EXCEPT ![p].new.ran = @ + 1]
     /\ goto(p, IF job[p].new.ran + 1 < job[p].new.scripts THEN "start" ELSE "label")

(* Mutant: after the shell that looks into the failure the build goes on.  *)
AttachFailsShell(p) ==
  pc[p] \in {"apt", "run"} /\ May("fail") /\ goto(p, "label") /\ UNCHANGED job

(* BuildAborted.                                                           *)
AttachFails(p) == pc[p] \in {"apt", "run"} /\ May("fail") /\ Fail(p) /\ UNCHANGED job

Run(p) == (Attach(p) \/ AttachFails(p)) /\ UNCHANGED system

-----------------------------------------------------------------------------
(***************************************************************************)
(* SFSBuilder.make_sfs.                                                    *)
(***************************************************************************)

(* Mutant: the commit is asked of the source, as git ls-remote does.       *)
LabelRemote(p) ==
  /\ At(p, "label")
  /\ job' = IF job[p].src THEN [job EXCEPT ![p].new.label = Tip(Built(job[p]))] ELSE job
  /\ goto(p, "squash")
  /\ UNCHANGED system

(* The upstream branch and the commit of the checkout.  source_url makes   *)
(* None of a failing git, and then neither is written.                     *)
Label(p) ==
  LET c == Built(job[p])
      upstream == IF c = "branch" \/ ~world.side THEN "branch" ELSE "default"
  IN
  /\ At(p, "label")
  /\ \/ ~job[p].src /\ goto(p, "squash") /\ UNCHANGED job
     \/ /\ job[p].src /\ Ready(c)
        /\ job' = [job EXCEPT ![p].new.label = HeadOf(c), ![p].new.branch = upstream]
        /\ goto(p, "squash")
     \/ /\ job[p].src /\ (May("fail") \/ ~Ready(c))
        /\ goto(p, "squash") \/ Fail(p)
        /\ UNCHANGED job
  /\ UNCHANGED system

(* The user is asked whether to remount a read-only file system; that      *)
(* nobody says yes is one of the failures.                                 *)
Squash(p) ==
  /\ At(p, "squash")
  /\ \/ /\ target = "rw"
        /\ job' = [job EXCEPT ![p].new.stamp = clock]
        /\ goto(p, "publish") /\ UNCHANGED target
     \/ /\ target = "ro" /\ target' = "rw"
        /\ job' = [job EXCEPT ![p].remounted = TRUE]
        /\ UNCHANGED pc
     \/ May("fail") /\ Fail(p) /\ UNCHANGED <<job, target>>
  /\ UNCHANGED <<git, world, img, mounted, owned, held>>

(* replace_file drops what was cached about the old image, its mount too.  *)
Publish(p) ==
  /\ At(p, "publish")
  /\ \/ /\ target = "rw"
        /\ img' = job[p].new
        /\ Unmount(p)
        /\ goto(p, IF job[p].remounted THEN "restore" ELSE "clean")
     \/ target = "ro" /\ Fail(p) /\ UNCHANGED <<img, mounted, owned>>
  /\ UNCHANGED <<git, world, target, held, job>>

Restore(p) ==
  /\ At(p, "restore") /\ goto(p, "clean")
  /\ target' = "ro" \/ (May("fail") /\ UNCHANGED target)
  /\ UNCHANGED <<git, world, img, mounted, owned, held, job>>

-----------------------------------------------------------------------------
(***************************************************************************)
(* The end of a command: mounts are lazily unmounted, the container        *)
(* stopped and destroyed.  The writable layer's tmpfs has no owner.        *)
(***************************************************************************)

(* Mutant: images that are mounted to be read stay mounted.                *)
CleanMounted(p) ==
  /\ At(p, "clean")
  /\ Release(p, {"destdir", "layers"})
  /\ owned' = [owned EXCEPT ![p] = {}]
  /\ job' = [job EXCEPT ![p] = NoJob]
  /\ goto(p, IF "config" \in held[p] THEN "stop" ELSE "idle")
  /\ UNCHANGED <<git, world, img, mounted, target>>

Clean(p) ==
  /\ At(p, "clean")
  /\ Release(p, {"destdir", "layers"})
  /\ Unmount(p)
  /\ job' = [job EXCEPT ![p] = NoJob]
  /\ goto(p, IF "config" \in held[p] THEN "stop" ELSE "idle")
  /\ UNCHANGED <<git, world, img, target>>

Stop(p) ==
  /\ At(p, "stop") /\ Release(p, {"running"}) /\ goto(p, "destroy")
  /\ UNCHANGED <<git, world, img, mounted, owned, target, job>>

Destroy(p) ==
  /\ At(p, "destroy") /\ Release(p, {"config"}) /\ goto(p, "idle")
  /\ UNCHANGED <<git, world, img, mounted, owned, target, job>>

(* Mounts, containers and the rest survive the process that made them.     *)
Kill(p) ==
  /\ May("kill") /\ ~Resting(p) /\ goto(p, "dead")
  /\ \/ At(p, "clone") /\ KillClone(Checked(job[p]), Tip(Checked(job[p])))
     \/ At(p, "clone2") /\ KillClone(Built(job[p]), Tip(Built(job[p])))
     \/ pc[p] \notin {"clone", "clone2"} /\ UNCHANGED repo
  /\ job' = [job EXCEPT ![p] = NoJob]
  /\ UNCHANGED <<clock, head, ctime, world, img, mounted, owned, target, held>>

-----------------------------------------------------------------------------
DlFileGit(p) ==
  \/ Pull(p, Checked(job[p]), "pull", "clone", "head")
  \/ Clone(p, Checked(job[p]), "clone", "head")
  \/ Pull(p, Built(job[p]), "pull2", "clone2", "dest")
  \/ Clone(p, Built(job[p]), "clone2", "dest")
Check(p) ==
  \/ Visit(p) \/ Mount(p) \/ ReadSource(p) \/ ReadCommit(p) \/ Head(p)
  \/ Stamp(p) \/ Script(p) \/ Decide(p)
Build(p) ==
  \/ InitBuilder(p) \/ DestFromSource(p) \/ DestFromImage(p) \/ Container(p)
  \/ Start(p) \/ Run(p) \/ Label(p) \/ Squash(p) \/ Publish(p) \/ Restore(p)
End(p) == Clean(p) \/ Stop(p) \/ Destroy(p)
Command(p) == DlFileGit(p) \/ Check(p) \/ Build(p) \/ End(p)

Next ==
  \/ Time \/ Commit \/ Import
  \/ \E p \in Procs : Command(p) \/ ContainerEnds(p) \/ Kill(p)

Spec == Init /\ [][Next]_vars

(* A timer runs update-sfs again and again.                                *)
FairSpec == Spec /\ WF_vars(\E p \in Procs : Command(p))

-----------------------------------------------------------------------------
(***************************************************************************)
(* Properties.                                                             *)
(***************************************************************************)

(* What is published as x.sfs was built to the end: every script that is   *)
(* in its tree has succeeded, in whatever container it ran, and, one       *)
(* command at a time and if no command fails, nothing is missing from the  *)
(* tree.                                                                   *)
Complete ==
  /\ img.ran = img.scripts
  /\ ~img.torn => img.scripts = NScripts
  /\ world.alone /\ ~May("fail") => ~img.torn

(* Commands run one after the other: .git-commit, written when the build   *)
(* is over, names the commit the tree was unpacked from at its beginning,  *)
(* so that the next check compares with what the image really holds.  Only *)
(* a command that fails can leave an image without it.                     *)
LabelTrue ==
  world.alone => img.label = img.from \/ (img.label = NoCommit /\ May("fail"))

(* Commands run one after the other: the settings of a build (.env) are    *)
(* handed on from image to image.                                          *)
SettingsKept == world.alone => img.env

(* Commands run one after the other and the source has a URL to which the  *)
(* build appends the branch: however pulls fail, checkouts lag behind or   *)
(* checks fail, an image of a later commit is not replaced by one of an    *)
(* earlier commit.  Of any other source the build has a checkout of its    *)
(* own, which may lag behind that of the check.                            *)
NeverBack == [][world.alone /\ world.web => img'.from >= img.from]_vars

(* A command that ends, well or not, has stopped and destroyed its         *)
(* container and unmounted its build directories; of the mounts it has     *)
(* made, only the writable layer (comnt-rw) of a build without a source    *)
(* stays.  It unmounts images exactly as often as it has mounted them: the *)
(* mount directories hold what the system and living or killed commands    *)
(* have mounted.  If nothing fails, a file system remounted for the image  *)
(* is read-only again.                                                     *)
OnlyLayersStay ==
  /\ \A p \in Procs : At(p, "idle") => held[p] \subseteq {"comnt"}
  /\ \A s \in Times : mounted[s] = Booted(s) + Owned(s)
  /\ world.readonly /\ world.faults = {} /\ Quiet => target = "ro"

(* A commit pushed between two commands reaches the running system's image *)
(* if nothing fails, whatever the component's own checks say, unless the   *)
(* build reads another branch than the check.                              *)
SameBranch == world.web \/ ~world.side
UpdatesArrive ==
  \A c \in Commits :
    (world.alone /\ world.timely /\ world.faults = {} /\ SameBranch /\ head = c)
      ~> (img.from >= c)

(* src/README.md promises this of every commit.                            *)
EveryCommitArrives ==
  \A c \in Commits :
    (world.alone /\ world.faults = {} /\ head = c) ~> (img.from >= c)
=============================================================================
