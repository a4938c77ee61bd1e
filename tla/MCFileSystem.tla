---------------------------- MODULE MCFileSystem ----------------------------
(***************************************************************************)
(* FileSystem for TLC: an instance with directories, and one with files    *)
(* next to directories, which take and return blocks between them.         *)
(***************************************************************************)
EXTENDS FileSystem

TreeCalls == {"mkdir", "rmdir", "touch", "cd", "mkfs", "power"}
FileCalls == {"mkdir", "rmdir", "touch", "fopen", "fclose", "fseek", "fread", "fwrite", "power"}

\* Names and bytes are only compared for equality.
Symmetry == Permutations(Names) \cup Permutations(Values)
=============================================================================
