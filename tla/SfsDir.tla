------------------------------- MODULE SfsDir -------------------------------
(***************************************************************************)
(* The file names one SFS component has in its directory, and the images   *)
(* behind them.  A component x.sfs occupies                                *)
(*   x.sfs               the current name: a symlink or a regular file     *)
(*   x.sfs.<stamp>       a published image                                 *)
(*   x.sfs.OLD.<time>    whatever x.sfs was before a replacement           *)
(*   x.sfs.NEW.<pid>     an image that is still being written              *)
(* Symlinks made by FSPath.replace_file are always local and always point  *)
(* at an x.sfs.<stamp>.  An image is its version (the creation time in its *)
(* superblock, SFSFile.create_stamp) and how far its bytes have come.      *)
(***************************************************************************)
EXTENDS Naturals

CONSTANT MaxTime    \* the last second the clock shows

ASSUME MaxTimeAssumption == MaxTime \in Nat

Stamps == 0..MaxTime

(***************************************************************************)
(* "writing": a process has the file open for writing; "cached": complete, *)
(* its tail possibly only in the page cache; "durable": complete and on    *)
(* the disk; "torn": bytes are missing and nobody will add them.           *)
(***************************************************************************)
ImageStates == {"none", "writing", "cached", "durable", "torn"}
Image == [ver : Stamps, st : ImageStates]
NoImage == [ver |-> 0, st |-> "none"]
Whole(i) == i.st \in {"cached", "durable"}

Entry == [kind : {"none", "link", "file"}, to : Stamps, img : Image]
NoEntry == [kind |-> "none", to |-> 0, img |-> NoImage]
Link(t) == [kind |-> "link", to |-> t, img |-> NoImage]
File(i) == [kind |-> "file", to |-> 0, img |-> i]

(* What open() reads through directory entry e, and the tests lexists      *)
(* (islink or exists) and exists (os.path.exists follows the link).        *)
Content(e, named) == IF e.kind = "link" THEN named[e.to] ELSE e.img
Present(e) == e.kind # "none"
Exists(e, named) == Content(e, named).st # "none"
=============================================================================
