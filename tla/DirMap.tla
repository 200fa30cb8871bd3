------------------------------- MODULE DirMap -------------------------------
(***************************************************************************)
(* What a file system promises of its directories: a name in a directory   *)
(* is unbound or bound to one inode, and a step binds or unbinds one name. *)
(***************************************************************************)
EXTENDS Naturals

CONSTANTS Dirs, Names, Inodes

VARIABLE names   \* the inode of each name, 0 for none

Init == names = [k \in Dirs \X Names |-> 0]

\* One name is bound, or is no longer.
Change(k) ==
  /\ names[k] # names'[k]
  /\ 0 \in {names[k], names'[k]}
  /\ \E i \in Inodes \cup {0} : names' = [names EXCEPT ![k] = i]

Next == \E k \in Dirs \X Names : Change(k)

Spec == Init /\ [][Next]_names
=============================================================================
