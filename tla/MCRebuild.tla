----------------------------- MODULE MCRebuild -----------------------------
(***************************************************************************)
(* Instances of Rebuild: one command at a time where commands fail or are  *)
(* killed, two at once where nothing fails, and the calm circumstances     *)
(* under which an update must arrive.                                      *)
(***************************************************************************)
EXTENDS Rebuild

Scripts == {"none", "latest", "check"}

Failing ==
  [alone : {TRUE}, timely : {FALSE}, faults : {{"fail"}}, web : BOOLEAN, side : {TRUE},
   script : Scripts, readonly : {TRUE}, booted : {TRUE}]
Killed ==
  [alone : {TRUE}, timely : {FALSE}, faults : {{"kill"}}, web : BOOLEAN, side : {FALSE},
   script : {"check"}, readonly : {TRUE}, booted : {FALSE}]
Together ==
  [alone : {FALSE}, timely : {TRUE}, faults : {{}}, web : {TRUE}, side : {FALSE},
   script : {"check"}, readonly : {TRUE}, booted : {FALSE}]
Calm ==
  [alone : {TRUE}, timely : {TRUE}, faults : {{}}, web : BOOLEAN, side : BOOLEAN,
   script : Scripts, readonly : BOOLEAN, booted : BOOLEAN]

AllWorlds == Failing \cup Killed \cup Together \cup Calm

(* Commits come in at any time.                                            *)
LateWorlds ==
  [alone : {TRUE}, timely : {FALSE}, faults : {{}}, web : {TRUE}, side : {FALSE},
   script : {"none"}, readonly : {FALSE}, booted : {TRUE}]
=============================================================================
