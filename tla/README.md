# A TLA+ development of LiveBootUtils

LiveBootUtils keeps the SFS (squashfs) images of a live system up to date, builds them, and replaces
them under a running aufs root. Most of it is one Python module, `src/lbu_common.py` (command line in
`lbu_cli.py`, GTK front end in `lbu_gtk.py`), with shell scripts that do parts of the same work on a
target system. Its commands are separate processes that share directories, mounts and pipes and take
no locks: the interesting behaviour is what they do to each other, and what they leave behind when
they fail or die halfway. That is what is modelled here.

Line references `C:n` are to `src/lbu_common.py`, `G:n` to `src/lbu_gtk.py`.

## 1. Inventory

| Component | State | Operations | Hard behaviour | What makes it correct |
|---|---|---|---|---|
| SFS file store (`FSPath.replace_file` C:1604, `SFSFile.replace_with` C:2281, `SFSBuilder.make_sfs` C:1164, `SFSDirectory.prune_old_sfs` C:1269) | `x.sfs`, `x.sfs.<stamp>`, `x.sfs.OLD.<time>`, `x.sfs.NEW.<pid>` | update-sfs, rebuild-sfs, prune-old-sfs | no lock; backup, naming and linking are three system calls; one-second names; kills, power failures, connections that end early | a name never holds part of an image; `x.sfs` never dangles; the last copy is never lost; pruning deletes only what is old |
| `run_command` C:2998 | two pipes, two buffers, the child | the select loop, `_read_until_block`, wait | two bounded pipes, grandchildren that keep them open, characters torn by reads | no deadlock, no output lost |
| aufs-update-branch C:3371 | aufs branch list, image mounts | insert, delete, unmount | cached branch list and index, several commands at once, busy branches | no component disappears, none goes back, layers keep their order |
| GTK front end G:119-281 | list store, `Checker.todo`, `wait_lock` | refresh, background checks | two threads without a lock: lost wake-ups, list emptied under the reader, stale row paths | every row gets a verdict, on the right row |
| Freshness (`needs_update` C:2344, `latest_stamp` C:2217, `git_source`, `git_commit`) | stamps, commits, cached properties | the decision of update-sfs, `--auto-rebuild` | answers cached for the life of an object | a component whose sources changed is rebuilt |
| Downloader (C:1889-2018) | git and HTTP cache | clone, pull, conditional download | truncated bodies cached and then answered by 304; stalled connections | the cache holds what the server has |
| WebDAV targets (`FSPathURLMixin` C:1696-1790) | remote names | PUT by a forked child, MOVE, HEAD | order of PUT and MOVE, the child's exit status | the same promise as the local store |
| SFSBuilder and LXC (C:565-755, C:1036-1162) | container, mounts, build tree | run scripts, bundle, squash, clean up | failures at every step, destructors | what was set up is taken down |
| MountPoint, loop devices (C:2398-2590) | mounts, mount directories, loop devices | mount, umount, `__del__` | shared mount directories | nothing in use is unmounted |
| SFSFinder, SFSBasename, SFSDirectory search (C:2055-2110, C:1226-1262) | none | search, compare, prioritise | names with versions and priorities | search finds the current file |
| SourceList, BootDirBuilder (C:2597-2930), `build-iso.sh` | parsed list, boot directory | parse, collect, build | `SourceList.__iter__` C:2613 asks bytes whether they start with a `str`: on Python 3 it raises | all listed files are in the boot directory |
| Command line (`cli_func`, `cli_parse_argv` C:161) | registry | parse | `--opt` versus positional | arguments reach the function they were meant for |
| ChecksumFile (C:2024) | one text file | replace a line in place | concurrent replacements, a kill between image and checksum | the sum belongs to the image |
| Shell updates (`update-cwd-sfs.sh`, `scripts/common.func`, `scripts/rm-unused-sfs.sh`) | the store's names | the same commands in other orders | they run beside the Python commands | as for the store |
| Shell aufs tools (`scripts/upgrade-aufs-in-place.sh`, ...) | aufs branches | walk over branch files | branches shift under the walk | as for aufs-update-branch |
| Installation, netboot, virtual machines, recipes | disks, child processes | sequential scripts | none of their own | not modelled |

Interactions: update-sfs and rebuild-sfs end in `replace_file` on one directory; prune-old-sfs and
the shell scripts delete in it; aufs-update-branch compares a mounted image with what `x.sfs` reads
as *now* and so depends on that directory; the GTK front end starts these commands in a terminal,
one for each row activated, and compares rows with the directory in a second thread; everything
starts its tools with `run_command`.

## 2. Modules

| Module | Models | Correspondence |
|---|---|---|
| `SfsDir` | names and images | an image has a version (its creation stamp) and a state: `writing` (open), `cached` (complete, in the page cache), `durable` (synced), `torn` (part of it); an entry is nothing, a link to a stamp or a file |
| `SfsPublish` | abstract specification: what replacing an image promises to readers | `shelf`, the versions of which a complete copy exists; `shown`, what `x.sfs` reads as; one step |
| `SfsStore` | the store | each process runs one command; every action is one system call on a shared name, or the step between two |
| `MCSfsStore` | instances | two or three interchangeable processes |
| `SfsStoreProofs`, `SfsPruneProofs` | theorems about `SfsStore`, those in which images may be pruned in the second | |
| `RunCommand`, `RunCommandProofs` | `run_command` | the parent's loop unit by unit, the command, and one process it leaves behind |
| `AufsBranches`, `MCAufsBranches`, `AufsBranchesProofs` | aufs-update-branch | `cur`, what `x.sfs` of each component reads as; the branch list; the mounts; each reading of that name, and each remount, is an action |
| `GtkChecker`, `GtkCheckerProofs` | branch list and checker | each operation on `todo`, `wait_lock` or the store is an action of the main or the checker thread |
| `GitCache` | the git source of a component and its checkouts in the download cache | `head` and `ctime`, the commits of the component's branch and their committer's times; `repo`, the checkouts, one for each way the source is written; the ways `dl_file_git` goes on |
| `Rebuild`, `MCRebuild`, `RebuildProofs` | update-sfs --auto-rebuild: freshness, build, container, clean-up; extends `GitCache` | each process runs the command; one action per file read from the mounted image, git call, container call or step of the build |
| `DavStore`, `DavStoreProofs` | the store on a web server (`FSPathURLMixin`) | one action per request, and the end of the upload by the child |
| `HttpCache`, `MCHttpCache`, `HttpCacheProofs` | a file of the HTTP cache (`dl_file_url`) | one action per request, read and rename |

`SfsStore` in more detail. `BeginUpdate` is the comparison of C:3204-3287 (only an existing `x.sfs`
is visited), `OpenTemp` and `CopyEnd` the loop of `replace_with`, `WriteFail` an exception in it or in
mksquashfs, `BeginBuild` and `BuildEnd` `make_sfs`. `CheckTarget`, `Backup`, `NameTemp` and one of
`PublishLink`, `PublishRename` and `PublishFail` are `replace_file`: the backup name is taken from
the time before `x.sfs` is looked at, an update is named by the creation stamp and a rebuild by its
modification time, `os.symlink` refuses an existing name and a rename does not. A process that loses
a race stops where the exception leaves it. `prune_old_sfs` reads the current names once, lists the
OLD names, looks at each and deletes at the end; `SamefileRaises` is the exception of
`os.path.samefile` on a missing file. `Kill` may end a process between any two actions, and
`PowerLoss` ends all of them and tears every file that was not synced, unless the kernel happened to
have written it. Both fsyncs are wrapped in `except OSError: pass` (C:2322, C:2334), so a disk that
cannot write the image back does not stop its publication: the fault "disk" (`Unsaved`).

What counts as kept (`Images`, and `shelf` of the refinement) are the images under permanent names,
and the temporary file of a process that is about to give it its name. The `.NEW` file of a process
that has died or failed counts for nothing: no command ever publishes it.

`LinkModes` says how images may be published on the directory: under a symlink, renamed because
`NO_SFS_SYMLINKS` or `.nolinks` says so ("plain"), or renamed because the file system answers EPERM.
`Alone` names commands of which one runs at a time, as where one cron job runs them.

Left out of `SfsStore`: checksum files, owner and mode (`replace_file` copies both after publishing,
best effort), the remounting of read-only targets (in `Rebuild`), and directories with several
components, which the commands treat one after the other and independently.

`Rebuild` in more detail. `Visit` is the loop of `update_sfs` reaching x.sfs; `Mount`, `ReadSource`
and `ReadCommit` are the first files read from the image, which mount it; `Pull` and `Clone` are
`dl_file_git`, called once for the check and once more for the build; `Head`, `Stamp`, `Script` and
`Decide` are `latest_stamp` and `needs_update`. `InitBuilder` is `SFSBuilder.__init__`,
`DestFromSource` and `DestFromImage` are `dest_dir`, `Container` is `LXC.from_sfs`, `Start` and `Run`
are `LXC.run` for each command of `build`, `Label`, `Squash`, `Publish` and `Restore` are `make_sfs`.
`Clean`, `Stop` and `Destroy` are the destructors. What a command has mounted is in `owned`: the
mount directory is named for the component and its stamp and so is shared by all commands on one
image, found mounted by some and mounted once more by others, and each owner's destructor takes one
mount away, under whoever is reading. `held` is what was set up for the build. The record `world`
says under which circumstances the commands run (one at a time or not, what may fail, which check
the image brings along, read-only target, booted from the image) and never changes, so that one run
covers them all and each property names the ones it needs.

Three parts of it follow errors the code passes over. The status of `git archive | tar` is not looked
at (C:898), so that any part of the tree may be missing; the scripts there are in the tree are counted
(`scripts`), and the build runs those. `source_url` makes None of a failing git (C:1861), and then no
label is written. And the build appends the recorded branch only to http, https and git URLs (C:853-859),
while the check appends it to every URL (C:2187): `Checked` and `Built` name the checkout each of them
uses, `world.web` says whether they are the same, and `world.side` whether the component's branch is
another than the default one. A local repository that `SFSBuilder` uses in place, without a checkout, is
left out.

The cached properties of an `SFSFile` are the fields of `job`: `git_commit`, `latest_stamp` and the
mounted path are read once per command, and `replace_file` drops them (`clear_cached_properties`).

`DavStore` has the same `replace_file` with HEAD for `exists`, MOVE for `rename` and a child that
PUTs what comes out of a pipe. The child sees the end of the pipe when its parent has written all,
fails or dies, and then completes the request; only the MOVE of the temporary file waits for it.
Every request may fail, and a MOVE may have happened although its reply is lost.

`HttpCache` has one file. `Begin` and `Ask` are the conditional request, `Open`, `Read` and `ReadEnd`
the loop, `Move` `os.utime` and `os.rename`. Build scripts run in containers that number their
processes alike and have the cache bound in (C:973): `world.same` gives the processes one number,
and `fd` follows the file a process has open through the renames of others.

## 3. Runs

| Run | Properties | Instance |
|---|---|---|
| store_link | TypeOK, PublishedIntact, CurrentResolves, CopyKept, PublishSpec | two processes, updates and rebuilds, kills, symlinks |
| store_nolinks | PublishedIntact, Reappears | two processes, updates and prunings, kills and power failures, no symlinks (by choice or EPERM) |
| store_prune | CurrentResolves, PruneDeletesOnlyOld, PublishSpec | three processes, prunings beside one update at a time, nothing dies, symlinks or not, as each update finds it |
| store_serial | BacksUpOlder, PruneSparesCurrent | three processes one after the other, all commands, kills and disks that fail to sync |
| store_prune_race | PruneDeletesOnlyOld (violated) | two updates and a pruning at once, nobody dies |
| command | TypeOK, Complete, DecodesWhole, Termination | pipes of one unit, two units of output, a process left behind, kills |
| aufs | TypeOK, NoGap, LayersKept, StackMounted, NeverOlder | three commands, two components, busy branches, kills; at once with current names that move forward, and one at a time with names that also move back |
| gtk | TypeOK, NoLostWakeup, IconsFit, Complete, RowsSettle | up to three rows, two refreshes, at any moment or only while the checker is idle, branches that go away while they are listed |
| web | TypeOK, PublishedIntact, PublishSpec, Reappears | two updates, failing requests, lost replies, kills; whole sources, broken uploads dropped |
| rebuild | TypeOK, Complete, LabelTrue, SettingsKept, OnlyLayersStay, NeverBack, UpdatesArrive | two processes that run commands again and again: one at a time where commands, network and containers fail, or where processes are killed; two at once on one checkout where nothing fails; one at a time where nothing fails and commits come between commands, URLs of both kinds, the default branch or another (`UpdatesArrive` is about these) |
| rebuild_late | EveryCommitArrives (violated) | one command at a time, nothing fails, commits at any time |
| http | TypeOK, CacheWhole, Converges | two processes, files of two reads, three versions, every combination of circumstances |

Why these bounds are enough to be interesting.

* *Store.* Three clock values (`MaxTime = 2`) give two releases and, since several commands fit in
  one second, colliding backup and image names. A race over a name needs two processes, the loss of
  an image to pruning two updaters and a pruner; a process runs one command, so three of them in a
  row are three commands.
* *run_command.* With a pipe of one unit, two units to one stream block the writer while the parent
  may be reading the other: the deadlock the select loop is there to avoid. Two units are also the
  two bytes of a torn character. With a larger pipe (two units, three of output) the invariants hold too.
* *aufs.* Two components have an order to lose; three versions allow a command to be overtaken twice.
* *Rebuild.* One commit to come (`MaxCommit = 1`) and three seconds: the commit may come before,
  during and after a build, with the time of the image, before or after it, and an image may be
  replaced more than once. Two processes share a mount in every way one can disturb the other. One
  script is enough for a build that fails, or a tree that has lost it. The processes are not made
  interchangeable, because the run has a liveness property. With two scripts, with kills and failures
  together, and with two commands at once on two checkouts, which would take too long here, the safety
  properties hold too.
* *Web.* Two processes meet at every request; one replaces the image once, and three clock values
  give two releases and colliding backup names.
* *HTTP.* Two reads are needed for a mixture of two versions; three versions give a download two
  releases to miss.
* *GTK.* The second refresh meets every state the first one's checks can be in; two rows give a path
  that exists in both lists and means different branches.

What the runs show beyond the verdicts, from instances that were tried and are not part of the project:

* With prunings *and* rebuilds in the same second as another build, and a kill, the last copy may be
  lost and `x.sfs` may dangle (names collide). One command at a time this takes a kill: the rebuild
  overwrites the image that the backup it has just made links to, dies before it has linked `x.sfs`
  to it again, and the next pruning deletes both. The theorems of `SfsPruneProofs` say which orders
  exclude it.
* With updates and prunings one at a time, and one kill, `PruneDeletesOnlyOld` fails as well, against
  "delete old .sfs files from directory" (C:3454). An update moves `x.sfs` to its OLD name and dies
  before it has named the new image (between C:1614 and C:1618). The OLD link and its target are now
  the only image that is published; the next pruning deletes both. The new image is complete under its
  `.NEW` name, but no command looks for it there. Hence nothing dies in `store_prune`. That `x.sfs` still
  resolves and pruning spares it is proved with every fault, and the latter checked with kills (`store_serial`).
* With three processes, where some have `NO_SFS_SYMLINKS` set and others do not, `x.sfs` may be left
  dangling: the proofs assume `Agree`.
* A connection that breaks off early (`ShortReads`) publishes a torn image, and a later pruning then
  deletes the last complete one. `CurrentResolves` is unaffected and proved for this case too.
* aufs-update-branch, described as "Update aufs branch real-time" (C:3371), with one command at a time
  whose current name is put back while it runs: it compares the mounted image with what `x.sfs` reads
  as (C:3376) and reads the name again when it looks for the image's mount (C:3387) and when it mounts
  it (C:3389). It may then find the very mount it is to replace, report "Updated component already
  included in AUFS" (C:3393), and delete the component's only branch (C:3402). `NoGap` therefore
  supposes that names only move forward; `LayersKept` and `StackMounted` are checked where they do not.
* aufs-update-branch: two commands and three components suffice to swap two layers, because the
  insertion index is stale; three commands can unmount an image that is a branch.
* Rebuild: with two commands at once, one command's pull moves the checkout while the other builds
  (`LabelTrue` fails), and one that ends unmounts the image the other reads its settings from
  (`SettingsKept` fails): both properties need commands one at a time. Where commands fail, an image
  with files missing is published, because the status of `git archive | tar` is not looked at, and an
  image without label, which no later check finds updates of. A command that finds the checkout it
  builds from still being cloned by another publishes an empty image.
* Rebuild, sources that are not http, https or git: the build's checkout is not the check's and may lag
  behind it, and then an image may be from an earlier commit than the one it replaces: `NeverBack`
  supposes `world.web`. The branch an image was built from is appended to its source for http, https
  and git URLs only (C:853-859): an image of another branch of an ssh source is rebuilt from the default
  branch and says so from then on (C:1168-1170), so that commits of its branch no longer reach it,
  although a rebuild is to retain "settings (environment/git repo etc)" (`src/README.md:16`).
  `UpdatesArrive` leaves this out (`SameBranch`).
* A build without a source leaves the tmpfs of its writable layer mounted, for which there is no owner
  (C:2562-2567): `OnlyLayersStay` says that nothing else stays.
* GTK: a branch that goes away while the list is filled, as the updates the program itself starts make
  them, ends the listing after the list has been cleared. `Complete` says that nothing else does.
* Web: while a new image is uploaded x.sfs may already be missing, because it is moved to its OLD name
  before the child is waited for; if the upload then fails it stays missing. `Reappears` exempts
  processes that fail. A server that keeps broken uploads gets them under the permanent name, and a
  source that breaks off early (`ShortReads`) is uploaded in part and moved there by every server.
* HTTP: with connections that end early, or equal numbers, the cache keeps a file that is no version
  of the server's, and a later request is answered by 304.

### Findings

`rebuild_late`: "Automatically update running system's currently used components (based on their git
sources, or `.check-up-to-date` script)" (`src/README.md:22`). A commit whose time is not after the
image's creation, for instance one made while the image was being built from the commit before, is
seen to differ (C:2219) and yet is not an update (C:2346): no later run builds it, until another
commit comes. A commit pushed between two commands when it is made does arrive (`UpdatesArrive`).

`store_prune_race`: `prune-old-sfs`, "delete old .sfs files from directory" (C:3454), deletes the
newest image. Two updates publish the same release; the first finishes, the second has moved `x.sfs`
to its OLD name, which is now a link to the image just published. A pruning finds that link, finds no
current file the target could be, and unlinks the target. With updates one at a time and nobody
dying this does not happen (`store_prune`).

### Fairness

* `SfsStore!FairSpec`: the system calls of `replace_file` return. Nothing is assumed of copying and
  building, which may hang (no timeout is set), nor of prunings. `Reappears` therefore says that a
  missing `x.sfs` comes back because of the process that moved it away, and exempts killed processes.
* `Rebuild!FairSpec`: some command goes on, and is started again, while one can: a timer or the user
  runs update-sfs again and again. Which of several goes on is not fair, and commits, kills and
  failures are not. Where a target is read-only, the question whether to remount it is answered.
  `UpdatesArrive` needs no more: it is about commands one at a time, where nothing fails, and check
  and build read the same branch, if not the same checkout.
* `DavStore!FairSpec`: requests are answered or fail, an upload whose pipe has ended among them.
  Reading the source may take for ever, and then x.sfs is still there.
* `HttpCache!FairSpec`: some process downloads on, and is started again; a stalled one may wait for ever.
* `GtkChecker!FairSpec`: the GLib main loop runs a callback to its end, and the checker thread is
  scheduled; every check ends, with an exception if need be. Refreshes are the user's: not fair.
* `RunCommand!FairSpec`: parent, command and what it leaves behind take steps while they can. A
  command ends by itself, but not in the middle of a write: a writer on a full pipe depends on the
  parent. Killing is not fair. A daemon that never closes its output would keep `run_command` for
  ever; that a process ends is an assumption about commands, not about this code.

### Checks of the properties themselves

Each property is shown to be falsifiable by a mutant: an operator next to the one it replaces (named
for it, commented "Mutant") with a plausible bug, under which the run finds the property violated.

## 4. Proofs

All theorems hold for any number of processes, versions, rows, components and units.

`SfsStoreProofs`
: `TypeCorrect`. `Intact`: `PublishedIntact`, assuming `DataSafe` (connections deliver whole images,
  the disk takes what is written to it, and power fails only where everything is fsynced and nothing
  is rebuilt, for mksquashfs does not sync). `PublishedIntact` is not inductive: `IntactInv` adds that the temporary file of a process
  that has passed the copy is complete. `NewerReplacesOlder`: `BacksUpOlder` where commands that write
  run one at a time (prunings may run beside them); `AgesInv` adds that no image is newer than the
  clock, and compares `x.sfs` with the source from the first comparison to the backup. The lemmas
  `PublishStep` and `PublishImplied` reduce the refinement of `SfsPublish` to one invariant: every step
  of the store is a step or stutter of it as long as the directory keeps a complete image that no
  fault can harm and that is published or about to be (`SomeName`).

`SfsPruneProofs`
: What the store promises while images are pruned depends on the order its callers keep, and the
  theorems name four: `NoPruning` (and `Agree`); `OneUpdate`, no rebuilds and one update at a time,
  prunings at any moment; `NoLinks`, no rebuilds and no symlinks, everything else at any moment;
  `Serial`, one command of any kind at a time. `Resolves` (`CurrentResolves`) holds under each of
  them, with every fault. `KeepsCopy` (`CopyKept`) and `ImplementsPublish` (`PublishSpec`) hold with
  `DataSafe` under `NoPruning`, and under the others where nothing dies: a process that dies between
  backing up `x.sfs` and naming the new image leaves the last one to the next pruning. `CurrentSpared`
  (`PruneSparesCurrent`) holds under the last three, with every fault. `PrunesOnlyOld`
  (`PruneDeletesOnlyOld`) holds under `OneUpdate` and `Serial` where nothing dies; two updates at once
  violate it (`store_prune_race`), and so does one kill.
  `NeverAbandoned` proves under all four what the liveness property `Reappears` rests on: while `x.sfs`
  is missing some process is about to name an image (which it has, `HeldInv`) or to publish one that no
  pruning will take from it, or a process has died.

  Each order has its own inductive invariant. Without pruning, `ResolvesInv`: the name a process will
  link to is filled from `NameTemp` on; and `CopyInv`. With one update at a time, `RankInv`: a
  published image bears its version as its name, and every backup, and every image some pruning has
  condemned, is older than what `x.sfs` reads as or, while it is missing, than the image about to be
  published.
  Without links, `FirstInv`: the only links lead to the image the directory started with, which
  nothing overwrites, because whatever is published is newer. One command at a time, `SpareInv`: what a pruning has condemned is not what
  the current link points at, or is missing; `SerialInv`: `x.sfs` resolves, and the process replacing
  it has what it needs; and where nothing dies `TopInv`: `x.sfs` is missing only while such a process
  runs, and reads as the newest of all images. Where nothing dies a complete image is kept because
  `x.sfs` resolves to one or, by `NeverAbandoned`, some process is about to publish one.

`RunCommandProofs`
: `AllOutput`: `Complete`. The invariant says of each stream that what was written is the buffer, then
  what this turn has read, then the pipe; that a stream given up has an empty pipe and no writer;
  and that a stream `select` named stays readable until it is read. The last part is what makes an
  empty read mean the end of the stream. `TypeCorrect`, from the same invariant. `TornCharactersJoin`:
  `DecodesWhole` without `ShowOutput`, because decoding then happens once, when both streams are given up.
  `NoDeadlock` and `NeverInVain` prove what the liveness property `Termination` rests on, for pipes
  of any size: until `run_command` has ended, the parent or a live process is not blocked
  (`NeverStuck`; a writer blocks on a full pipe only, and the parent still reads that pipe), and
  every step but a `Fork` lowers a measure of what is left, which is never below 0. `ParentFree` and
  `WriterFree` spell out when the fair actions `Parent` and `Writer(w)` are enabled.

`AufsBranchesProofs`
: `TypeCorrect`. Where current names do not move back, `GapInv` adds that what a command is about to
  delete is older than what it has found or inserted, and that branches, once shown, are only ever
  covered by newer ones: `OnlyForward` (`NeverOlder`) and
  `NeverGap` (`NoGap`), whichever image a command reads the name as, and when. One command at a time, `AloneInv` adds that the
  list a command has read is still that of the mount, that no branch is there twice, and what is
  mounted: `OrderKept` (`LayersKept`) and `AllMounted` (`StackMounted`), also where names are put back. They rest on lemmas about `InsertAt` and `RemoveAt`: where each element goes, what is kept,
  no duplicates, the order.

`GtkCheckerProofs`
: `NeverSleepsOnWork`: `NoLostWakeup`, inductive as it stands. `TypeCorrect` for at least one row.
  `IconsTrue` (`IconsFit`) and `AllListed` (`Complete`) for a patient user: `AliveInv` says that the
  thread sleeps, or has not been started, while the list is emptied, so that it never pops from a
  list that has become empty; `ItemsInv` that every queued check and the one under way are about
  rows shown now, and about SFS files. `AllListed` is for behaviours in which no branch goes away
  while it is listed (`steady`); the others need no such assumption.

`DavStoreProofs`
: `TypeCorrect`. `Intact`: `PublishedIntact`; `IntactInv` adds that the temporary file of a process
  that is going to move it is being sent, whole, or not there: what makes it safe to ignore the
  child's exit status. `ImplementsPublish`: the requests implement `SfsPublish`; a whole image remains
  among the permanent names (`CopyInv`). Both are for `DataSafe`: sources deliver whole images, and the
  server drops broken uploads.

`RebuildProofs`
: `TypeCorrect`. `OnlyLayersLeft`: `OnlyLayersStay`, for any circumstances. A mount directory is mounted
  on as often as the system and the owners of a mount say (`MountsInv`, an equation of a count and a
  cardinality, which each mount and each destructor keeps); `HeldInv` says what a process may hold
  where it is, `TargetInv` who has to put the read-only mount back. `BuiltWhole`: `Complete`, from
  `RanInv`, the scripts that have succeeded where a process is, and `AloneInv`. `Labelled`,
  `SettingsHandedOn` and `NeverOlder`: `LabelTrue`, `SettingsKept` and `NeverBack`, one command at a
  time, from `AloneInv`: what the running command has seen of the image, knows of the source, builds and
  keeps is still so, because no other command has moved since. `ClonesInv` (a checkout is being cloned by
  somebody) shows that, one at a time and if no command fails, the build has a checkout with a HEAD. That
  nothing goes back also rests on `GitInv` (a checkout is never ahead of its source, later commits have
  later or equal times) and `ImageInv` (an image is not from a commit later than its own stamp): a commit
  later than the image is a later commit; and on check and build using one checkout (`world.web`).

`HttpCacheProofs`
: `TypeCorrect`. `Whole`: `CacheWhole`; the invariant adds that downloads at once have different
  temporary files, and that each file has all its process has read.

Assumptions on constants are the named `ASSUME`s of the modules; further ones are the `ASSUME` parts of the theorems.
Every safety invariant and action property of the runs is stated by a theorem, and so are the
refinements. Only model-checked: all liveness (`Reappears`, `RowsSettle`, `Termination`,
`UpdatesArrive`, `Converges`), which is out of this prover's reach. Of `Reappears`
and `Termination` the invariants and the measure they rest on are proved (`NeverAbandoned`,
`NoDeadlock`, `NeverInVain`); fairness, `ENABLED` and the induction over the measure are not.

## 5. Not modelled

* *Checksum files and file attributes.* Best effort after the publication; nothing reads them back.
  The checksum line is overwritten in place (C:2039): until then, and after a kill, it is the old image's.
* *Shell commands* (`update-cwd-sfs.sh`, `rm-unused-sfs.sh`, `upgrade-aufs-in-place.sh` and others).
  Older forms of the commands that are modelled, on the same names in another order. Two
  steps of theirs to be careful with: a complete `.NEW` file that is closed and not yet renamed matches
  the unused images of `rm-unused-sfs.sh` (line 39), and `upgrade-aufs-in-place.sh` (line 20) lists the
  branch files once, while an insertion whose delete fails shifts the branches under its walk.
* *The composition of the store with aufs-update-branch.* `AufsBranches!Release` moves the current
  name at once; the gap in which `x.sfs` is missing ends the command with an error. Within `SFSFile.mount` the
  stamp that names the mount directory and the image mounted on it are read in one step.
* *Boot directories and ISO images.* `SourceList.__iter__` (C:2613) applies `startswith("#")` to bytes
  and raises on Python 3, so that what follows is not reached.
* *Searches by name and argument parsing.* Functions of strings without state.
* *Interactive shells, package lists and the merging of /usr in a build.* They run like scripts, or
  move files within the tree being built.
* *Installation, disk formatting, netboot, virtual machines, remote access, kernel and root recipes.*
  Sequences of external commands without state of their own.
