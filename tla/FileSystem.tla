----------------------------- MODULE FileSystem -----------------------------
(***************************************************************************)
(* The FAT32 driver, libk/src/fs.c, each exported call one action.         *)
(*                                                                         *)
(* The disk is cut into cells: a cell is an entry of a directory or a unit *)
(* of a file's data, and a cluster is a sequence of Cells of them.  The    *)
(* shell runs one command at a time, every command closes what it opened   *)
(* before it returns, and none has two files open: one slot of fd_table is *)
(* in use at most.  A name stands for its 8.3 form.                        *)
(***************************************************************************)
EXTENDS Integers, Sequences, FiniteSets, SequencesExt, FiniteSetsExt

CONSTANTS Cells,     \* SecPerClus * BytsPerSec, in cells
          LastClus,  \* the last cluster of the disk
          Names,
          Paths,     \* the paths callers name: sequences of names, <<>> is "/"
          Data,      \* cells of file data
          Zero,      \* an entry never used: Name[0] = 0x00
          Deleted,   \* a removed one: Name[0] = 0xE5
          Flags,     \* the flag sets fs_open is called with
          Buffers,   \* what fs_write is given
          Counts,    \* what fs_read is asked for
          Stale,     \* words the heap may hold after the end of a chain
          Beyond,    \* words that may lie 16 GB behind a chain
          Unknown,   \* a cell of a cluster that is not the file's
          Fills,     \* whether callers fill the disk up
          TruncatesLong,  \* whether callers truncate a file of many clusters
          FirstIntoFull   \* whether the first entry a boot creates may go to
                          \* a directory with no slot left

RootClus == 2
Clusters == RootClus .. LastClus
EOC == LastClus + 1         \* 0x0FFFFFF8
NoClus == LastClus + 2      \* (u32)-1
Locs == (0 .. EOC) \X (0 .. Cells)
NoLoc == <<0, 0>>

Tables == [Clusters -> Clusters \cup {0, EOC}]
Entries == [name : Names, dir : BOOLEAN, clus : Clusters \cup {NoClus}, size : Nat]
Contents == [Clusters -> Seq(Data \cup {Zero, Deleted, Unknown} \cup Entries)]

ASSUME DiskAssumption ==
  /\ Cells \in Nat \ {0}
  /\ LastClus \in Nat /\ LastClus >= RootClus
  /\ \A b \in Buffers : b \in Seq(Data)
  /\ Counts \subseteq Nat
  /\ Stale \subseteq Clusters \cup {0}
  /\ <<>> \in Paths /\ Paths \subseteq Seq(Names)
  /\ \A path \in Paths \ {<<>>} : Front(path) \in Paths
  /\ Zero # Deleted
  /\ \A cell \in Data \cup {Zero, Deleted} : cell \notin Entries
  /\ ~(Fills /\ FirstIntoFull)

\* Bound: the word names a cluster or none.
ASSUME BeyondAssumption == Beyond \subseteq Clusters \cup {0}

VARIABLES fat,        \* cluster -> the next one, EOC, or 0 when free
          content,    \* cluster -> its cells
          new_entry,  \* create_entry's static has been filled since boot
          fd,         \* the open File, or <<>>
          res, out    \* what the last call returned and wrote for its caller

disk == <<fat, content>>
vars == <<fat, content, new_entry, fd, res, out>>

Returns(value, output) == res' = value /\ out' = output

Blank == [i \in 1 .. Cells |-> Zero]

\* A freshly formatted disk: the root directory, and nothing in it.
Init ==
  /\ fat = [c \in Clusters |-> IF c = RootClus THEN EOC ELSE 0]
  /\ content = [c \in Clusters |-> Blank]
  /\ new_entry = FALSE
  /\ fd = <<>>
  /\ res = 0
  /\ out = <<>>

------------------------------------------------------------------------------
(* The table and the chains *)

Valid(clus) == clus > 1 /\ clus < EOC

\* Of both copies of the table only the first is ever read.  A number that is no
\* cluster's has no entry anybody reads: 0 is passed over, that of the end-of-chain
\* mark or of (u32)-1 would lie far behind the disk.  As a link it ends the chain.
link_clus(f, clus, to) ==
  IF clus \in Clusters THEN [f EXCEPT ![clus] = IF to = NoClus THEN EOC ELSE to] ELSE f

\* What is written to no cluster is lost: the end-of-chain mark has no sector, and
\* that of (u32)-1 lies in the second table.
write_clus(c, clus, cells) == IF clus \in Clusters THEN [c EXCEPT ![clus] = cells] ELSE c

Free(f) == {c \in Clusters : f[c] = 0}
find_free_clus(f) == IF Free(f) = {} THEN NoClus ELSE Min(Free(f))
\* Bound: unless Fills, no call finds the disk full.
HasRoom(n) == Fills \/ Cardinality(Free(fat)) >= n

\* The clusters from clus on.  A chain has no more clusters than the disk: one
\* that came back to itself would keep the code in its loop.
resolve_chain(f, clus) ==
  LET longer[chain \in Seq(Clusters)] ==
        IF Valid(f[Last(chain)]) THEN Append(chain, f[Last(chain)]) ELSE chain
      walk[n \in 0 .. LastClus] == IF n = 0 THEN <<clus>> ELSE longer[walk[n - 1]]
  IN  IF Valid(clus) THEN walk[LastClus] ELSE <<>>

\* Every place of a chain, in the order every search of a directory takes.
SlotsOf[chain \in Seq(Clusters)] ==
  [k \in 1 .. Len(chain) * Cells |->
     <<chain[(k - 1) \div Cells + 1], ((k - 1) % Cells) + 1>>]
Slots(f, clus) == SlotsOf[resolve_chain(f, clus)]

At(loc) == content[loc[1]][loc[2]]
IsEntry(cell) == cell \notin Data \cup {Zero, Deleted}

FirstSlot(slots, Test(_)) ==
  LET first[s \in Seq(Locs)] ==
        LET hits == {k \in DOMAIN s : Test(At(s[k]))}
        IN  IF hits = {} THEN NoLoc ELSE s[Min(hits)]
  IN  first[slots]

find_entry(clus, name) ==
  FirstSlot(Slots(fat, clus), LAMBDA cell : IsEntry(cell) /\ cell.name = name)

\* The cluster of the directory at loc, or 0 when there is none.
DirAt[loc \in Locs] == IF loc # NoLoc /\ At(loc).dir THEN At(loc).clus ELSE 0

\* The cluster of the directory that holds the path's last name, or 0.
parse_path(path) ==
  LET below[i \in 1 .. Len(path)] ==
        [clus \in 0 .. NoClus |-> DirAt[find_entry(clus, path[i])]]
      descend[i \in 0 .. Len(path)] ==
        IF i = 0 THEN RootClus ELSE below[i][descend[i - 1]]
  IN  IF path = <<>> THEN 0 ELSE descend[Len(path) - 1]

\* Where the entry is that a path names.
Located(path) ==
  LET entry[clus \in 0 .. NoClus] == find_entry(clus, Last(path))
  IN  IF path = <<>> THEN NoLoc ELSE entry[parse_path(path)]

\* A defect the code does not have: only the first slot is looked at.
FirstSlotIsEmpty(clus) ==
  Slots(fat, clus) = <<>> \/ ~IsEntry(At(Slots(fat, clus)[1]))
is_dir_empty(clus) ==
  LET loc == FirstSlot(Slots(fat, clus), LAMBDA cell : cell # Deleted)
  IN  loc = NoLoc \/ At(loc) = Zero

Store(c, loc, cell) == [c EXCEPT ![loc[1]][loc[2]] = cell]

\* A defect the code does not have: the last cluster of a chain is not freed.
FreeAllButLast(f, chain) ==
  [c \in Clusters |-> IF \E i \in 1 .. Len(chain) - 1 : chain[i] = c THEN 0 ELSE f[c]]
FreeChain(f, chain) ==
  [c \in Clusters |-> IF \E i \in DOMAIN chain : chain[i] = c THEN 0 ELSE f[c]]

\* Where the entries of the files and directories are.
Reachable == {Located(p) : p \in Paths \ {<<>>}} \ {NoLoc}
ChainOf(loc) == resolve_chain(fat, At(loc).clus)
Owned(loc) == ToSet(ChainOf(loc))

------------------------------------------------------------------------------
(* create_entry *)

\* The new file's or directory's cluster, linked and zeroed before a slot is
\* looked for.
Claimed == find_free_clus(fat)
ClaimedFat == link_clus(fat, Claimed, EOC)
ClaimedContent(is_dir) ==
  IF is_dir THEN write_clus(content, Claimed, Blank) ELSE content

\* Slots of removed entries are not taken again.
FreeSlot(clus) == FirstSlot(Slots(fat, clus), LAMBDA cell : cell = Zero)

\* A defect the code does not have: the entry does not name its cluster.
WithoutCluster(name, is_dir, size) ==
  [name |-> name, dir |-> is_dir, clus |-> 0, size |-> size]
NewEntry(name, is_dir, size) ==
  [name |-> name, dir |-> is_dir, clus |-> Claimed, size |-> size]

create_entry(clus, name, is_dir) ==
  /\ HasRoom(1)
  /\ FreeSlot(clus) # NoLoc
  /\ fat' = ClaimedFat
  /\ content' = Store(ClaimedContent(is_dir), FreeSlot(clus), NewEntry(name, is_dir, 0))
  /\ new_entry' = TRUE

\* No slot, and an entry was created before: NULL, the cluster stays claimed.
CreateRefused(clus, is_dir) ==
  /\ HasRoom(1)
  /\ FreeSlot(clus) = NoLoc
  /\ new_entry
  /\ fat' = ClaimedFat
  /\ content' = ClaimedContent(is_dir)
  /\ UNCHANGED new_entry

\* No slot, and nothing was created before: the directory gets a cluster, and
\* the entry is written through the end-of-chain mark, which is no sector.
CreateLost(clus, is_dir) ==
  /\ FirstIntoFull
  /\ HasRoom(2)
  /\ FreeSlot(clus) = NoLoc
  /\ ~new_entry
  /\ LET new_clus == find_free_clus(ClaimedFat)
     IN /\ fat' = link_clus(link_clus(ClaimedFat, Last(resolve_chain(fat, clus)), new_clus),
                            new_clus, EOC)
        /\ content' = [ClaimedContent(is_dir) EXCEPT ![new_clus] = Blank]
  /\ new_entry' = TRUE

------------------------------------------------------------------------------
(* fs_open, fs_close *)

File(chain, entry, loc, flags) ==
  [chain |-> chain, dir |-> entry.dir, size |-> entry.size, loc |-> loc,
   pos |-> IF "APPEND" \in flags /\ ~entry.dir THEN entry.size ELSE 0]

Opened(chain, entry, loc, flags) ==
  fd' = <<File(chain, entry, loc, flags)>> /\ Returns(0, <<>>)

Root == File(resolve_chain(fat, RootClus), [dir |-> TRUE, size |-> 0], NoLoc, {})

OpenRoot ==
  /\ fd' = <<Root>>
  /\ Returns(0, <<>>)
  /\ UNCHANGED <<disk, new_entry>>

OpenFails(path, flags) ==
  /\ \/ parse_path(path) = 0
     \/ Located(path) = NoLoc /\ "CREATE" \notin flags
     \/ Located(path) # NoLoc /\ {"CREATE", "EXCLUSIVE"} \subseteq flags
  /\ Returns(-1, <<>>)
  /\ UNCHANGED <<disk, new_entry, fd>>

\* The entry is there: TRUNCATE frees all the clusters of a file but the first,
\* whose link it leaves, and sets the size to 0.
OpenExisting(path, flags) ==
  /\ Located(path) # NoLoc
  /\ ~({"CREATE", "EXCLUSIVE"} \subseteq flags)
  /\ LET loc == Located(path)
         entry == At(loc)
         cut == "TRUNCATE" \in flags /\ ~entry.dir
         chain == resolve_chain(fat, entry.clus)
         now == IF cut THEN [entry EXCEPT !.size = 0] ELSE entry
     IN /\ cut => TruncatesLong \/ Len(chain) <= 1
        /\ fat' = IF cut THEN FreeChain(fat, SubSeq(chain, 2, Len(chain))) ELSE fat
        /\ content' = Store(content, loc, now)
        /\ Opened(resolve_chain(fat', now.clus), now, loc, flags)
  /\ UNCHANGED new_entry

OpenCreates(path, flags) ==
  /\ parse_path(path) # 0 /\ Located(path) = NoLoc /\ "CREATE" \in flags
  /\ LET clus == parse_path(path)  name == Last(path)
     IN \/ /\ create_entry(clus, name, FALSE)
           /\ Opened(resolve_chain(fat', Claimed), NewEntry(name, FALSE, 0),
                     FreeSlot(clus), flags)
        \/ /\ CreateRefused(clus, FALSE)
           /\ Returns(-1, <<>>)
           /\ UNCHANGED fd
        \/ /\ CreateLost(clus, FALSE)
           /\ Opened(<<Claimed>>, NewEntry(name, FALSE, 1), <<EOC, 1>>, flags)

fs_open(path, flags) ==
  /\ fd = <<>>
  /\ IF path = <<>> THEN OpenRoot
     ELSE OpenFails(path, flags) \/ OpenExisting(path, flags) \/ OpenCreates(path, flags)

fs_close ==
  /\ fd # <<>>
  /\ fd' = <<>>
  /\ Returns(0, <<>>)
  /\ UNCHANGED <<disk, new_entry>>

------------------------------------------------------------------------------
(* fs_read, fs_write: one cluster after the other *)

\* The cells of the i-th cluster, from 0, that lie in from .. end - 1.
StartOffset(from, i) == IF i = from \div Cells THEN from % Cells ELSE 0
EndOffset(end, i) ==
  IF i = (end - 1) \div Cells /\ end % Cells # 0 THEN end % Cells ELSE Cells
Indices(from, end) ==
  [k \in 1 .. (end - 1) \div Cells - from \div Cells + 1 |-> from \div Cells + k - 1]

OnDirectory ==
  /\ fd # <<>> /\ fd[1].dir
  /\ Returns(-1, <<>>)
  /\ UNCHANGED <<disk, new_entry, fd>>

\* Nobody asks whether the chain has the cluster: after its end comes whatever
\* the heap holds, and at its end what find_free_clus gave on a full disk.
CellsOf(chain, i) ==
  IF i < Len(chain) /\ chain[i + 1] \in Clusters THEN content[chain[i + 1]]
  ELSE [k \in 1 .. Cells |-> Unknown]

\* What an open file f gives for cnt.
Got(f, cnt) ==
  LET end == Min({f.pos + cnt, f.size})
      ix  == Indices(f.pos, end)
  IN  IF f.pos = f.size \/ cnt = 0 THEN <<>>
      ELSE FlattenSeq([k \in DOMAIN ix |->
             SubSeq(CellsOf(f.chain, ix[k]), StartOffset(f.pos, ix[k]) + 1,
                    EndOffset(end, ix[k]))])

fs_read(cnt) ==
  \/ OnDirectory
  \/ /\ fd # <<>> /\ ~fd[1].dir
     /\ LET got == Got(fd[1], cnt)
        IN /\ Returns(Len(got), got)
           /\ fd' = <<[fd[1] EXCEPT !.pos = @ + Len(got)]>>
     /\ UNCHANGED <<disk, new_entry>>

\* The clusters a write that ends at end needs beyond the chain's.
ClustersNeeded(chain, end) ==
  LET have == Len(chain) * Cells
  IN  IF end > have THEN (end - have + Cells - 1) \div Cells ELSE 0

\* What the new cluster is linked to.  A file made on a full disk has no cluster,
\* and cluster_count - 1 is then the last index of a u32: the code takes the word
\* 16 GB behind the chain for the last cluster, and relinks whatever file's cluster
\* that names.  Where no memory is, the load faults, before anything of this call
\* was written, and with no handler for that the machine starts again.
Tip(chain, word) == IF chain = <<>> THEN word ELSE Last(chain)

\* A defect the code does not have: the new last cluster is not marked.
Unmarked(f, chain, word) ==
  LET clus == find_free_clus(f)
  IN  [fat |-> link_clus(f, Tip(chain, word), clus), chain |-> Append(chain, clus)]
Extended(f, chain, word) ==
  LET clus == find_free_clus(f)
  IN  [fat |-> link_clus(link_clus(f, Tip(chain, word), clus), clus, EOC),
       chain |-> Append(chain, clus)]

\* Bound: the word names no directory's cluster, whose end would then be cut off
\* or go on in text, to be read as entries.
OfNoDirectory(word) ==
  /\ word \notin ToSet(resolve_chain(fat, RootClus))
  /\ \A loc \in Reachable : At(loc).dir => word \notin Owned(loc)

\* The table and the chain after it got that many clusters more.
Grown(chain, need, word) ==
  LET more[g \in [fat : Tables, chain : Seq(0 .. NoClus)]] == Extended(g.fat, g.chain, word)
      grown[n \in 0 .. need] ==
        IF n = 0 THEN [fat |-> fat, chain |-> chain] ELSE more[grown[n - 1]]
  IN  grown[need]

\* The i-th cluster of the chain with the buffer's part of it.
WriteCluster(c, chain, pos, buffer, i) ==
  LET end == pos + Len(buffer)
      done == IF i = pos \div Cells THEN 0 ELSE i * Cells - pos
      start == StartOffset(pos, i)
      stop == EndOffset(end, i)
      old == CellsOf(chain, i)
  IN  write_clus(c, chain[i + 1],
        SubSeq(old, 1, start) \o SubSeq(buffer, done + 1, done + stop - start)
          \o SubSeq(old, stop + 1, Cells))

\* The content after each cluster that the buffer has a part of.
Written(chain, pos, buffer) ==
  LET ix == Indices(pos, pos + Len(buffer))
      write[i \in Nat] == [c \in Contents |-> WriteCluster(c, chain, pos, buffer, i)]
      put[n \in 0 .. Len(ix)] == IF n = 0 THEN content ELSE write[ix[n]][put[n - 1]]
  IN  put[Len(ix)]

\* A defect the code does not have: the size waits for a later call.
SizeUnwritten(c, loc, size) == c
\* The size goes to the disk in the same call, unless the entry is nowhere.
WithSize(c, loc, size) ==
  IF loc[1] \in Clusters /\ IsEntry(c[loc[1]][loc[2]])
    THEN Store(c, loc, [c[loc[1]][loc[2]] EXCEPT !.size = size]) ELSE c

OfNothing ==
  /\ fd # <<>> /\ ~fd[1].dir
  /\ Returns(0, <<>>)
  /\ UNCHANGED <<disk, new_entry, fd>>

fs_write(buffer, word) ==
  \/ OnDirectory
  \/ buffer = <<>> /\ OfNothing
  \/ /\ fd # <<>> /\ ~fd[1].dir /\ buffer # <<>>
     /\ LET f    == fd[1]
            end  == f.pos + Len(buffer)
            need == ClustersNeeded(f.chain, end)
            grown == Grown(f.chain, need, word)
            size == Max({end, f.size})
        IN /\ HasRoom(need)
           /\ f.chain = <<>> => OfNoDirectory(word)
           /\ fat' = grown.fat
           /\ content' = WithSize(Written(grown.chain, f.pos, buffer), f.loc, size)
           /\ fd' = <<[f EXCEPT !.chain = grown.chain, !.pos = end, !.size = size]>>
           /\ Returns(Len(buffer), <<>>)
     /\ UNCHANGED new_entry

------------------------------------------------------------------------------
(* fs_readdir, fs_stat *)

Info(entry) ==
  <<entry.name, IF entry.dir THEN "directory" ELSE "file", entry.size>>

\* The word at cluster_chain[i]: past the chain's end, whatever the heap holds.
ChainWords(chain, i) == IF i < Len(chain) THEN {chain[i + 1]} ELSE Stale

\* What the k-th turn of fs_readdir's loop looks at, given the word it found in
\* place of the next cluster: Zero stands for every way to return NULL.
Listed(chain, word, k) ==
  LET i == k \div Cells
      clus == IF i < Len(chain) THEN chain[i + 1] ELSE word
  IN  IF Valid(clus) THEN content[clus][(k % Cells) + 1] ELSE Zero

\* How far the loop may look: to the end of the cluster such a word names.
Limit(chain) == (Len(chain) + 1) * Cells

fs_readdir ==
  /\ fd # <<>>
  /\ \E word \in IF fd[1].dir THEN ChainWords(fd[1].chain, Len(fd[1].chain)) ELSE {0} :
       LET f == fd[1]
           limit == Limit(f.chain)
           stops == {k \in f.pos .. limit - 1 : Listed(f.chain, word, k) # Deleted}
           k == Min(stops \cup {limit})
           cell == IF k = limit THEN Zero ELSE Listed(f.chain, word, k)
       IN IF ~f.dir \/ cell = Zero
            THEN /\ Returns(0, <<>>)
                 /\ fd' = IF f.dir THEN <<[f EXCEPT !.pos = k]>> ELSE fd
            ELSE /\ Returns(1, IF IsEntry(cell) THEN Info(cell) ELSE <<cell, "file", 0>>)
                 /\ fd' = <<[f EXCEPT !.pos = k + 1]>>
  /\ UNCHANGED <<disk, new_entry>>

fs_stat(path) ==
  /\ CASE path = <<>> -> Returns(1, <<"directory", 0>>)
       [] path # <<>> /\ Located(path) # NoLoc -> Returns(1, Info(At(Located(path))))
       [] OTHER -> Returns(0, <<>>)
  /\ UNCHANGED <<disk, new_entry, fd>>

------------------------------------------------------------------------------
(* fs_mkdir, fs_remove, fs_rmdir *)

Fails(code) == Returns(code, <<>>) /\ UNCHANGED <<disk, new_entry, fd>>

fs_mkdir(path) ==
  /\ fd = <<>>
  /\ \/ parse_path(path) = 0 /\ Fails(-1)
     \/ Located(path) # NoLoc /\ Fails(-2)
     \/ /\ parse_path(path) # 0 /\ Located(path) = NoLoc
        /\ \/ /\ \/ create_entry(parse_path(path), Last(path), TRUE)
                 \/ CreateLost(parse_path(path), TRUE)
              /\ Returns(0, <<>>)
           \/ CreateRefused(parse_path(path), TRUE) /\ Returns(-3, <<>>)
        /\ UNCHANGED fd

\* The entry is marked, then the chain freed.
Erase(loc) ==
  /\ content' = Store(content, loc, Deleted)
  /\ fat' = FreeChain(fat, resolve_chain(fat, At(loc).clus))
  /\ Returns(0, <<>>)
  /\ UNCHANGED <<new_entry, fd>>

fs_remove(path) ==
  /\ fd = <<>>
  /\ LET loc == Located(path)
     IN \/ parse_path(path) = 0 /\ Fails(-3)
        \/ parse_path(path) # 0 /\ loc = NoLoc /\ Fails(-2)
        \/ loc # NoLoc /\ At(loc).dir /\ Fails(-4)
        \/ loc # NoLoc /\ ~At(loc).dir /\ Erase(loc)

fs_rmdir(path) ==
  /\ fd = <<>>
  /\ IF path = <<>> THEN Fails(-5) ELSE
     LET loc == Located(path)
     IN \/ parse_path(path) = 0 /\ Fails(-3)
        \/ parse_path(path) # 0 /\ loc = NoLoc /\ Fails(-2)
        \/ loc # NoLoc /\ ~At(loc).dir /\ Fails(-4)
        \/ loc # NoLoc /\ At(loc).dir
             /\ IF is_dir_empty(At(loc).clus) THEN Erase(loc) ELSE Fails(-6)

\* The power goes off between two calls: the disk stays, the statics are new.
fs_init ==
  /\ fd' = <<>>
  /\ new_entry' = FALSE
  /\ Returns(0, <<>>)
  /\ UNCHANGED disk

Next ==
  \/ \E path \in Paths :
       \/ \E flags \in Flags : fs_open(path, flags)
       \/ fs_stat(path) \/ fs_mkdir(path) \/ fs_remove(path) \/ fs_rmdir(path)
  \/ \E buffer \in Buffers, word \in Beyond : fs_write(buffer, word)
  \/ \E cnt \in Counts : fs_read(cnt)
  \/ fs_readdir \/ fs_close \/ fs_init

Spec == Init /\ [][Next]_vars

------------------------------------------------------------------------------
(* Properties *)

TypeOK ==
  /\ fat \in Tables
  /\ \A c \in Clusters : \A i \in 1 .. Cells :
       IsEntry(content[c][i]) => content[c][i] \in Entries
  /\ new_entry \in BOOLEAN
  /\ fd # <<>> =>
       /\ fd[1].chain \in Seq(Clusters)
       /\ fd[1].size \in Nat /\ fd[1].pos \in Nat
       /\ fd[1].loc[1] \in Clusters \cup {0, EOC}

\* A file whose size the disk, when it was full, did not keep up with.
Short(loc) == ~At(loc).dir /\ At(loc).size > Cells * Len(ChainOf(loc))
Leaked ==
  {c \in Clusters : fat[c] # 0}
    \ (ToSet(resolve_chain(fat, RootClus)) \cup UNION {Owned(loc) : loc \in Reachable})

\* No cluster belongs to two files or directories or twice to one, and none
\* that belongs to one is free to be given to another; a file's size is within
\* its chain, whose last cluster is marked as the last.
OneOwner ==
  /\ \A loc \in Reachable :
       /\ IsInjective(ChainOf(loc))
       /\ ChainOf(loc) # <<>> /\ fat[Last(ChainOf(loc))] = EOC
       /\ Owned(loc) \cap ToSet(resolve_chain(fat, RootClus)) = {}
       /\ At(loc).size <= Cells * Len(ChainOf(loc))
  /\ \A loc, other \in Reachable : loc # other => Owned(loc) \cap Owned(other) = {}

\* What an open file caches of its entry and its chain is what the disk holds,
\* after every write too.
HandleMatchesDisk ==
  fd # <<>> /\ fd[1].loc[1] \in Clusters =>
    /\ IsEntry(At(fd[1].loc))
    /\ fd[1].chain = ChainOf(fd[1].loc)
    /\ fd[1].size = At(fd[1].loc).size

\* What create_entry is asked for has no slot in its directory.
NoSlotFor(path) ==
  parse_path(path) # 0 /\ Located(path) = NoLoc /\ FreeSlot(parse_path(path)) = NoLoc
EntryIsNowhere == fd # <<>> /\ fd[1].loc[1] = EOC

\* The creation of something in a directory with no slot left, refused or lost.
CreatesInVain ==
  \E path \in Paths \ {<<>>}, is_dir \in BOOLEAN :
    /\ NoSlotFor(path)
    /\ CreateRefused(parse_path(path), is_dir) \/ CreateLost(parse_path(path), is_dir)
WritesToNowhere == EntryIsNowhere /\ \E buffer \in Buffers, word \in Beyond : fs_write(buffer, word)

\* Clusters are lost in one way only: by a creation in a directory with no slot
\* left, which claims a cluster, and that one is lost, before it looks for a slot;
\* and then by writing to the file whose entry is nowhere.  No removal, no other
\* creation and no other write loses any, whatever directories are full.
LeaksOnlyWhenFull ==
  [][~(Leaked' \subseteq Leaked) =>
       \/ CreatesInVain /\ Leaked' \subseteq Leaked \cup {Claimed}
       \/ WritesToNowhere]_vars

Node[loc \in Locs] ==
  LET entry == At(loc)
      slots == IF entry.dir THEN <<>> ELSE Slots(fat, entry.clus)
  IN  [dir |-> entry.dir,
       data |-> [k \in 1 .. Min({entry.size, Len(slots)}) |-> At(slots[k])]]
Tree == [p \in {q \in Paths \ {<<>>} : Located(q) # NoLoc} |-> Node[Located(p)]]
Handle ==
  IF fd = <<>> \/ EntryIsNowhere THEN <<>> ELSE
  LET f == fd[1]
      path == IF f.loc = NoLoc THEN <<>> ELSE CHOOSE p \in Paths : Located(p) = f.loc
      slots == Slots(fat, IF f.loc = NoLoc THEN RootClus ELSE At(f.loc).clus)
      passed == {slots[k] : k \in {i \in DOMAIN slots : i <= f.pos /\ IsEntry(At(slots[i]))}}
  IN  <<[path |-> path, pos |-> IF f.dir THEN 0 ELSE f.pos,
         listed |-> IF f.dir THEN {Append(path, At(loc).name) : loc \in passed} ELSE {}]>>
AsStore == INSTANCE FileStore WITH tree <- Tree, handle <- Handle

\* The first creation since the boot, in a directory with no slot left, makes
\* nothing; what is then done with the handle it may give does nothing either.
MakesNothing ==
  /\ Tree' = Tree
  /\ \/ EntryIsNowhere \/ EntryIsNowhere'
     \/ ~new_entry /\ \E path \in Paths \ {<<>>} : fs_mkdir(path) /\ NoSlotFor(path)

\* A listing that goes on behind the chain of a directory with no slot left, in
\* the cluster the heap names there.
ListsOn ==
  /\ Tree' = Tree /\ Handle' = Handle
  /\ fd' # <<>> /\ fd'[1].dir /\ fd'[1].pos > Len(fd'[1].chain) * Cells

\* The clusters are a tree of files and directories, and every call does to it
\* and returns what it promises, but for that creation and that listing.
ImplementsFileStore ==
  /\ AsStore!Init
  /\ [][AsStore!Next \/ MakesNothing \/ ListsOn]_<<Tree, Handle, res, out>>

\* What a file holds is changed by a write to it, and by opening it to truncate
\* it, never by what is done to another: what cat shows is what echo wrote.
OnlyItsWritesChangeAFile ==
  [][\A p \in DOMAIN Tree \cap DOMAIN Tree' :
       Tree'[p] # Tree[p] => fd' # <<>> /\ fd'[1].loc = Located(p)]_vars
==============================================================================
