------------------------------- MODULE LockFile -------------------------------
(***************************************************************************)
(* A lock file that names its owner, as the sidecar processes use it:      *)
(* writeFile(path, content, { flag: "wx" }) creates the file and fails     *)
(* when the path exists, but the content follows in a second system call,  *)
(* so others may read an empty file.  Unlink and rename act on the path,   *)
(* whatever file it names by then; a write goes to the file that its       *)
(* process created, although the path may name another one.                *)
(***************************************************************************)
CONSTANTS
  Procs,    \* process ids
  Absent    \* no file at the path

ASSUME LockFileAssumption == Absent \notin [by : Procs, written : BOOLEAN]

VARIABLE lock

File(p, w) == [by |-> p, written |-> w]

LockTypeOK == lock \in [by : Procs, written : BOOLEAN] \cup {Absent}

Exists == lock # Absent
Names(p) == lock = File(p, TRUE)

CreateExclusive(p) ==
  /\ ~Exists
  /\ lock' = File(p, FALSE)

WriteContent(p) == lock' = IF lock = File(p, FALSE) THEN File(p, TRUE) ELSE lock

RemovePath == lock' = Absent
===============================================================================
