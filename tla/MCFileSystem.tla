---------------------------- MODULE MCFileSystem ----------------------------
(* Instances of the file system for TLC: the paths that commands are given. *)
EXTENDS FileSystem

NameSymmetry == Permutations(Names)

Bare == {<<n>> : n \in Names}
Here == {<<".", n>> : n \in Names}
Up == {<<".">>, <<"..">>} \cup Bare

\* Directories come and go; the power fails; links; a used file system is made
\* anew.
Directories ==
  { {"mkdir", "touch", "rmdir", "rename", "cd", "statfs"},
    {"mkdir", "touch", "cd", "loss"},
    {"mkdir", "touch", "link", "symlink", "cd"},
    {"mkdir", "touch", "cd", "mkfs"} }

Files ==
  { {"touch", "fopen", "fwrite", "fread", "fclose", "cat"},
    {"touch", "fopen", "fwrite", "loss"} }
=============================================================================
