------------------------------ MODULE FileStore ------------------------------
(***************************************************************************)
(* What a file system promises: files of which one operation changes one,  *)
(* entirely or not at all.  An operation reported as successful has        *)
(* happened, unless a read failed in it and it did not notice: then it may *)
(* have done nothing.  One that failed, or that a crash ended, has         *)
(* happened, or has done nothing, or has left an empty file where it was   *)
(* to make or to overwrite one.  On some volumes an overwrite that failed  *)
(* may leave anything of the file it was about.  Nothing is promised of a  *)
(* volume once it is broken.                                               *)
(***************************************************************************)
EXTENDS Naturals, Sequences

CONSTANTS
  Files,  \* pairs of a volume and a path, a sequence of names
  InPlace \* the volumes that overwrite in place

Absent == [t |-> "absent"]
Dir == [t |-> "dir"]
File(c) == [t |-> "file", c |-> c]

VARIABLES
  files,  \* what is found at each path
  last,   \* the last operation: kind, file, data, whether it returned Ok, and
          \* whether it took a failed read for a name that is not there
  broken  \* the volumes that are broken

vars == <<files, last, broken>>

Init == broken = {}

\* What the operation makes of the file it is about.
Result(o) ==
  CASE o.kind = "mkdir" -> Dir
    [] o.kind = "append" /\ files[o.file].t = "file" -> File(files[o.file].c \o o.data)
    [] OTHER -> File(o.data)

Outcomes(o) ==
  IF o.ok /\ ~o.missed THEN {Result(o)}
  ELSE IF o.ok THEN {files[o.file], Result(o)}
  ELSE {files[o.file], Result(o)}
       \cup (IF o.kind = "overwrite" \/ (o.kind = "append" /\ files[o.file] = Absent)
             THEN {File(<<>>)} ELSE {})

\* mkdir makes the directories above the one it is asked for as well.
Above(f, g) == f[1] = g[1] /\ Len(f[2]) < Len(g[2]) /\ f[2] = SubSeq(g[2], 1, Len(f[2]))

MayMake(o, f) == o.kind = "mkdir" /\ Above(f, o.file) /\ files[f] = Absent

Operate ==
  /\ last'.kind \in {"append", "overwrite", "mkdir"}
  /\ last'.file \in Files
  /\ broken \subseteq broken'
  /\ \A f \in Files : f[1] \notin broken' =>
       \/ f = last'.file /\ files'[f] \in Outcomes(last')
       \/ f = last'.file /\ last'.kind = "overwrite" /\ ~last'.ok /\ f[1] \in InPlace
       \/ f # last'.file /\ files'[f] = files[f]
       \/ f # last'.file /\ files'[f] = Dir /\ MayMake(last', f)

Spec == Init /\ [][Operate]_vars
=============================================================================
