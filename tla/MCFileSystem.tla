---------------------------- MODULE MCFileSystem ----------------------------
(***************************************************************************)
(* The file system on a disk of a few clusters, for TLC.                   *)
(***************************************************************************)
EXTENDS FileSystem

CONSTANTS a, b, x, y

TwoLevels == {<<>>, <<a>>, <<b>>, <<a, b>>}

\* echo > opens with CREATE | TRUNCATE, echo >> with CREATE | APPEND, cat and
\* ls with no flag.
ShellFlags == {{}, {"CREATE", "TRUNCATE"}, {"CREATE", "APPEND"}}

\* Nothing, within a cluster, and over the end of one from any place in it.
ShortAndLong == {<<>>, <<x>>, <<x, y, x>>}

\* No action reads what the last call returned, and no property before the step.
\* Nor does any read the cells of a file behind its size, or of a cluster that is
\* nobody's, but for one that a word of Stale may name.
StateView ==
  LET dirs == {loc \in Reachable : At(loc).dir}
      read == (Stale \ {0}) \cup ToSet(resolve_chain(fat, RootClus))
                \cup UNION {Owned(loc) : loc \in dirs}
  IN  <<fat, [c \in read |-> content[c]], [loc \in Reachable \ dirs |-> Node[loc].data],
        new_entry, fd,
        [f \in {g \in ToSet(fd) : ~g.dir} |-> Got([f EXCEPT !.pos = 0], f.size)]>>
==============================================================================
