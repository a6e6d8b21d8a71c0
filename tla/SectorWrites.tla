---------------------------- MODULE SectorWrites ----------------------------
(***************************************************************************)
(* The shell's commands on a disk that is written sector by sector: pio.c  *)
(* under fs.c.  A call changes `fat' and `content' at once, and queues the *)
(* sectors it writes, in the order it writes them; `platter' is what the   *)
(* disk holds.  A cluster is one sector, as mkfs.fat makes them on the     *)
(* image of the Makefile.  The power may go off between any two sectors;   *)
(* what comes up then knows the platter only.                              *)
(***************************************************************************)
EXTENDS Shell

VARIABLES platter,  \* [fat, content]
          todo      \* the writes of the last call that are not done yet

diskVars == <<shellVars, platter, todo>>

WritesInit ==
  /\ ShellInit
  /\ platter = [fat |-> fat, content |-> content]
  /\ todo = <<>>

\* An entry of the table gets a value, a cluster gets its cells.
Link(c, to) == [part |-> "fat", at |-> c, value |-> to]
Cluster(c) == [part |-> "content", at |-> c, value |-> content'[c]]

Applied(p, w) ==
  IF w.part = "fat" THEN [p EXCEPT !.fat = link_clus(@, w.at, w.value)]
  ELSE [p EXCEPT !.content = write_clus(@, w.at, w.value)]

------------------------------------------------------------------------------
(* What each call writes, in its order *)

\* create_entry: the cluster is marked and zeroed, then named by the entry.
Creation(path, is_dir) ==
  LET slot == FreeSlot(parse_path(path))
  IN  <<Link(Claimed, EOC)>>
        \o (IF is_dir /\ Claimed # NoClus THEN <<Cluster(Claimed)>> ELSE <<>>)
        \o (IF slot = NoLoc THEN <<>> ELSE <<Cluster(slot[1])>>)

Creates(path) == parse_path(path) # 0 /\ Located(path) = NoLoc

\* fs_open: the truncated file's clusters are freed before its size is set.
Opening(path, flags) ==
  IF Creates(path) THEN Creation(path, FALSE)
  ELSE IF "TRUNCATE" \in flags /\ Kind(path) = "file"
    THEN LET loc == Located(path)
         IN Append([i \in 1 .. Len(ChainOf(loc)) - 1 |-> Link(ChainOf(loc)[i + 1], 0)],
                   Cluster(loc[1]))
  ELSE <<>>

\* fs_write: the clusters are linked one by one, then written, then the size.
Writing(old, new, word) ==
  LET had == Len(old.chain)
      Grow(i) == <<Link(Tip(SubSeq(new.chain, 1, i - 1), word), new.chain[i]),
                   Link(new.chain[i], EOC)>>
      added == [k \in 1 .. Len(new.chain) - had |-> Grow(had + k)]
      data == SelectSeq([k \in DOMAIN Indices(old.pos, new.pos) |->
                           new.chain[Indices(old.pos, new.pos)[k] + 1]],
                        LAMBDA c : c \in Clusters)
  IN  FlattenSeq(added) \o [k \in DOMAIN data |-> Cluster(data[k])]
        \o <<Cluster(old.loc[1])>>

\* A defect the code does not have: the chain is freed before the entry goes.
ChainFirst(loc) ==
  Append([i \in DOMAIN ChainOf(loc) |-> Link(ChainOf(loc)[i], 0)], Cluster(loc[1]))
\* fs_remove, fs_rmdir: the entry goes before its chain is freed.
Removal(loc) ==
  <<Cluster(loc[1])>> \o [i \in DOMAIN ChainOf(loc) |-> Link(ChainOf(loc)[i], 0)]

------------------------------------------------------------------------------
(* Commands, sectors, power cuts *)

Calls(writes) == todo = <<>> /\ todo' = writes /\ UNCHANGED platter

Reads(arg) == (cd(arg) \/ stat(arg) \/ cat(arg) \/ ls(arg)) /\ Calls(<<>>)

Makes(arg) ==
  LET path == normalize_path(arg)
  IN  /\ mkdir(arg)
      /\ Calls(IF Creates(path) THEN Creation(path, TRUE) ELSE <<>>)

Removes(arg) ==
  /\ rm(arg)
  /\ Calls(IF content' = content THEN <<>> ELSE Removal(Located(normalize_path(arg))))

Opens(arg, buffer, append) ==
  /\ EchoOpens(arg, buffer, append)
  /\ Calls(IF echo' = <<>> /\ fat' = fat THEN <<>>
           ELSE Opening(normalize_path(arg), Mode(append)))

Writes(word) ==
  /\ EchoWrites(word)
  /\ Calls(IF fd' = fd THEN <<>> ELSE Writing(fd[1], fd'[1], word))

Closes == EchoCloses /\ Calls(<<>>)

write_sector ==
  /\ todo # <<>>
  /\ platter' = Applied(platter, Head(todo))
  /\ todo' = Tail(todo)
  /\ UNCHANGED shellVars

Found == INSTANCE FileSystem WITH fat <- platter.fat, content <- platter.content

\* The chains' clusters that are marked free: fs_write has linked one that it has
\* not marked as the last yet.
Torn == {loc \in Found!Reachable :
           \E c \in Found!Owned(loc) : platter.fat[c] = 0}

\* Bound: the power does not go off just there (see FoundOneOwner).
PowerCut ==
  /\ Torn = {}
  /\ fat' = platter.fat /\ content' = platter.content
  /\ todo' = <<>>
  /\ fd' = <<>> /\ new_entry' = FALSE /\ Returns(0, <<>>)
  /\ cwd' = <<>> /\ echo' = <<>> /\ shown' = Nothing
  /\ UNCHANGED platter

WritesNext ==
  \/ \E arg \in Args :
       \/ Reads(arg) \/ Makes(arg) \/ Removes(arg)
       \/ \E buffer \in Buffers, append \in BOOLEAN : Opens(arg, buffer, append)
  \/ pwd /\ Calls(<<>>)
  \/ \E word \in Beyond : Writes(word)
  \/ Closes \/ write_sector \/ PowerCut

WritesSpec == WritesInit /\ [][WritesNext]_diskVars

------------------------------------------------------------------------------
(* Properties *)

\* The writes of a call add up to what the call does.
SectorsAddUp ==
  FoldLeft(Applied, platter, todo) = [fat |-> fat, content |-> content]

\* Wherever the power goes off, the disk that is found has no cluster with two
\* owners.  One thing may be wrong with it: the last cluster of a chain that is
\* growing is marked free, and after a cut just then would be given away again.
FoundOneOwner ==
  LET chains == [loc \in Found!Reachable |-> Found!ChainOf(loc)]
  IN /\ \A loc \in DOMAIN chains :
          /\ IsInjective(chains[loc])
          /\ \A i \in DOMAIN chains[loc] : platter.fat[chains[loc][i]] = 0 =>
               i = Len(chains[loc]) /\ echo # <<>> /\ todo # <<>>
          /\ RootClus \notin ToSet(chains[loc])
     /\ \A loc, other \in DOMAIN chains :
          loc # other => ToSet(chains[loc]) \cap ToSet(chains[other]) = {}

\* The open file is one a full disk left behind: shorter than its size, or without
\* a cluster of its own, so that a write to it goes to where Tip's word leads.
LeftBehind ==
  /\ fd # <<>> /\ fd[1].loc \in Found!Reachable
  /\ Found!Short(fd[1].loc) \/ Found!At(fd[1].loc).clus = NoClus

\* Every call takes effect with one sector: what would be found is the tree from
\* before the call, and then the one from after it, and never anything else.  Only
\* a write to a file that a full disk left behind shows on the way, and one without
\* a cluster may show in another file, to whose chain it adds.
TreeAtOnce ==
  [][platter' # platter /\ Found!Tree' # Found!Tree =>
       Found!Tree' = Tree' \/ LeftBehind]_diskVars
==============================================================================
