------------------------------ MODULE FileTree ------------------------------
(***************************************************************************)
(* The directory tree that the example services keep their stores in, and  *)
(* what the helpers of docs/examples/c/utils/utils.c ask of it.  A path is *)
(* a sequence of names.  The content of a file is the value of one request,*)
(* Empty between fopen("wb") and fwrite, or Mixed when two writers have    *)
(* written over each other.                                                *)
(***************************************************************************)
EXTENDS Sequences, SequencesExt

CONSTANTS Empty, Mixed

Without(tree, p) == [dirs |-> tree.dirs \ {p},
                    files |-> [q \in DOMAIN tree.files \ {p} |-> tree.files[q]]]

HasFile(tree, p) == p \in DOMAIN tree.files

\* The name is taken: mkdir fails on it, and stat finds it.
Exists(tree, p) == p \in tree.dirs \cup DOMAIN tree.files
Entries(tree, d) ==
    {p \in tree.dirs \cup DOMAIN tree.files : p # <<>> /\ Front(p) = d}

\* mkdir, as create_directory calls it: nothing happens if the path is there or its parent is not.
MakeDir(tree, p) ==
    IF Front(p) \in tree.dirs /\ ~Exists(tree, p)
    THEN [tree EXCEPT !.dirs = @ \cup {p}] ELSE tree

\* fopen("wb") needs the directory; what the file held is gone.
CanOpenForWrite(tree, p) == Front(p) \in tree.dirs
Truncate(tree, p) ==
    [tree EXCEPT !.files = [q \in DOMAIN @ \cup {p} |-> IF q = p THEN Empty ELSE @[q]]]

\* fwrite over what is in the file by now: a value of another length leaves
\* the rest of it behind.
Overwritten(tree, p, val, fixedLength) ==
    LET old == tree.files[p] IN
    IF fixedLength \/ old \in {Empty, val} THEN {val} ELSE {val, Mixed}

\* rmdir refuses a directory with entries.
RemoveDir(tree, d) ==
    IF d \in tree.dirs /\ Entries(tree, d) = {} THEN Without(tree, d) ELSE tree
=============================================================================
