------------------------------ MODULE GitCache ------------------------------
(***************************************************************************)
(* The git source of a component, and the checkouts of it that             *)
(* Downloader.dl_file_git keeps in the download cache for all commands,    *)
(* one for each way the source is written: url#branch with the branch the  *)
(* component was built from, url#branch with the source's default branch,  *)
(* or the url alone, which means the default branch too.                   *)
(*                                                                         *)
(* Commits are numbered in the order of the component's branch.  A         *)
(* checkout that is there is pulled and, if that fails, used as it is; one *)
(* that is not is cloned.  git creates the directory first, so a checkout  *)
(* whose clone is under way is there too, but cannot be pulled and has no  *)
(* HEAD; nor has a "broken" one, whose clone was killed, but a pull may    *)
(* repair it.                                                              *)
(***************************************************************************)
EXTENDS Integers

CONSTANTS
  MaxCommit,   \* the last commit of the branch
  MaxTime      \* the last second the clock shows

ASSUME GitAssumption == MaxCommit \in Nat /\ MaxTime \in Nat

Commits == 0..MaxCommit
Times == 0..MaxTime

VARIABLES
  clock,   \* the time of day, in seconds
  head,    \* the last commit pushed to the component's branch
  ctime,   \* the committer's time of each commit (GitRepo.last_stamp)
  repo     \* the checkouts: whether each is there, and its HEAD

git == <<clock, head, ctime, repo>>

Repo == [st : {"none", "cloning", "broken", "ready"}, at : Commits]
Checkouts == {"branch", "default", "plain"}
Ready(c) == repo[c].st = "ready"

GitTypeOK ==
  /\ clock \in Times /\ head \in Commits
  /\ ctime \in [Commits -> Times]
  /\ repo \in [Checkouts -> Repo]

(* The component was built on this machine, as url#branch: this checkout   *)
(* is in the cache, or has been cleaned away since.                        *)
GitInit ==
  /\ clock = 0 /\ head = 0
  /\ ctime = [c \in Commits |-> 0]
  /\ \E there \in {"none", "ready"} :
       repo = [c \in Checkouts |-> [st |-> IF c = "branch" THEN there ELSE "none", at |-> 0]]

Tick == clock < MaxTime /\ clock' = clock + 1 /\ UNCHANGED <<head, ctime, repo>>

(* A commit is made and, at once or later, pushed.                         *)
Push(when) ==
  /\ head < MaxCommit
  /\ head' = head + 1
  /\ when \in ctime[head]..clock
  /\ ctime' = [c \in Commits |-> IF c > head THEN when ELSE ctime[c]]
  /\ UNCHANGED <<clock, repo>>

(***************************************************************************)
(* dl_file_git: the ways a call for checkout c goes on; tip is the last    *)
(* commit of the branch that c follows.                                    *)
(***************************************************************************)
MarkAs(c, st) == repo' = [repo EXCEPT ![c].st = st]
HasTip(c, tip) == repo' = [repo EXCEPT ![c] = [st |-> "ready", at |-> tip]]
There(c) == repo[c].st \in {"ready", "broken"}

BeginClone(c) == repo[c].st = "none" /\ MarkAs(c, "cloning")
EndClone(c, tip) == HasTip(c, tip)
AbortClone(c) == MarkAs(c, "none")
KillClone(c, tip) == MarkAs(c, "none") \/ MarkAs(c, "broken") \/ HasTip(c, tip)

(* Mutant: git fetch instead of git pull.                                  *)
PullFetches(c, tip) == There(c) /\ MarkAs(c, "ready")
PullSucceeds(c, tip) == There(c) /\ HasTip(c, tip)
PullFails(c) == repo[c].st # "none" /\ UNCHANGED repo
=============================================================================
