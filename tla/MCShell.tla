------------------------------ MODULE MCShell ------------------------------
(***************************************************************************)
(* The shell on a disk of a few clusters, for TLC.                         *)
(***************************************************************************)
EXTENDS SectorWrites

CONSTANTS a, b, x, nl

TwoLevels == {<<>>, <<a>>, <<b>>, <<a, b>>}

\* Each path from the root, and relative ones: the directory itself, a name in
\* it, and the one above.
MCArgs ==
  {[abs |-> TRUE, tokens |-> path] : path \in TwoLevels}
    \cup {[abs |-> FALSE, tokens |-> t] : t \in {<<>>, <<b>>, <<DotDot>>}}

\* Nothing, and over the end of a cluster from any place in it.
MCBuffers == {<<>>, <<x, x, x>>}

\* What no command and no property can tell apart is one state: the cells of
\* clusters that belong to nobody or lie behind a file's size, and what was shown.
InDirs(c, clusters) == [clus \in clusters |-> c[clus]]
Seen ==
  LET locs == Reachable
      dirs == {loc \in locs : At(loc).dir}
  IN  <<InDirs(content, ToSet(resolve_chain(fat, RootClus)) \cup UNION {Owned(loc) : loc \in dirs}),
        [loc \in locs \ dirs |-> Node[loc].data]>>
SeenOnPlatter ==
  LET locs == Found!Reachable
      dirs == {loc \in locs : Found!At(loc).dir}
  IN  IF platter = [fat |-> fat, content |-> content] THEN <<>> ELSE
      <<InDirs(platter.content,
          ToSet(resolve_chain(platter.fat, RootClus)) \cup UNION {Found!Owned(loc) : loc \in dirs}),
        [loc \in locs \ dirs |-> Found!Node[loc].data]>>
Queued ==
  [k \in DOMAIN todo |-> IF todo[k].part = "fat" THEN todo[k] ELSE [at |-> todo[k].at]]

StateView ==
  <<fat, Seen, new_entry, fd, cwd, echo, platter.fat, SeenOnPlatter, Queued>>
==============================================================================
