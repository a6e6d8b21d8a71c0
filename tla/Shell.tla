-------------------------------- MODULE Shell --------------------------------
(***************************************************************************)
(* The commands of kernel/src/shell that work on files, and the directory  *)
(* they take relative paths against (cwd.c).  A command runs to its end    *)
(* before the next key is read.  One that leaves the disk alone, or makes  *)
(* one call that changes it, is an action; echo's three calls are three.   *)
(* An argument is the sequence of its names and "..", with no "." in it.   *)
(***************************************************************************)
EXTENDS FileSystem

CONSTANTS Args,     \* [abs, tokens]: abs when the path begins with "/"
          DotDot,
          Newline,  \* the cell that echo >> puts before its text
          Chunk,    \* 4096, in cells: what cat reads at once
          MaxSize   \* bound: echo makes no file bigger

ASSUME ShellAssumption ==
  /\ Chunk \in Nat \ {0} /\ MaxSize \in Nat
  /\ Newline \in Data /\ DotDot \notin Names
  /\ \A arg \in Args : arg.abs \in BOOLEAN /\ arg.tokens \in Seq(Names \cup {DotDot})

VARIABLES cwd,   \* the working directory's path
          echo,  \* the echo that is at work: [path, text, wrote], or <<>>
          shown  \* what the last command put on the console: [says, cells]

shellVars == <<vars, cwd, echo, shown>>

Message(text) == [says |-> text, cells |-> <<>>]
Output(cells) == [says |-> "", cells |-> cells]
Nothing == Output(<<>>)

ShellInit ==
  /\ Init
  /\ cwd = <<>>
  /\ echo = <<>>
  /\ shown = Nothing

normalize_path(arg) ==
  LET Step(path, token) ==
        IF token # DotDot THEN Append(path, token)
        ELSE IF path = <<>> THEN path ELSE Front(path)
  IN  FoldLeft(Step, IF arg.abs THEN <<>> ELSE cwd, arg.tokens)

\* Bound: commands are given paths of Paths only.
Given(arg) == fd = <<>> /\ echo = <<>> /\ normalize_path(arg) \in Paths

\* What fs_stat says of a path.
Kind(path) ==
  IF path = <<>> THEN "directory"
  ELSE IF Located(path) = NoLoc THEN "none" ELSE Info(At(Located(path)))[2]

\* The file that fs_open with no flag gives for what is there.
FileAt(path) ==
  IF path = <<>> THEN Root
  ELSE LET entry == At(Located(path))
       IN  File(resolve_chain(fat, entry.clus), entry, Located(path), {})

\* A command that leaves the disk as it was, and every file closed.
Only(text) == shown' = text /\ UNCHANGED <<vars, echo>>

------------------------------------------------------------------------------
(* pwd, cd, stat, cat, ls *)

pwd ==
  /\ fd = <<>> /\ echo = <<>>
  /\ Only(Output(cwd))
  /\ UNCHANGED cwd

cd(arg) ==
  /\ Given(arg)
  /\ cwd' = IF Kind(normalize_path(arg)) = "directory" THEN normalize_path(arg) ELSE cwd
  /\ Only(Nothing)

stat(arg) ==
  /\ Given(arg)
  /\ LET path == normalize_path(arg)
         size == IF path = <<>> \/ Kind(path) = "none" THEN 0 ELSE At(Located(path)).size
     IN Only([says |-> Kind(path), cells |-> <<size>>])
  /\ UNCHANGED cwd

\* A defect the code does not have: the whole chunks are all that is read.
NoRemainder(file, i) == IF i < file.size \div Chunk THEN Chunk ELSE 0
\* What cat's i-th turn, from 0, asks fs_read for.
Asked(file, i) ==
  IF i = (file.size + Chunk - 1) \div Chunk THEN file.size % Chunk ELSE Chunk

\* One turn: what fs_read gives from where the last one ended.
PrintedOn(file, text, i) == text \o Got([file EXCEPT !.pos = Len(text)], Asked(file, i))
\* cat's loop: one turn more than there are chunks.
Printed(file) ==
  LET turns == (file.size + Chunk - 1) \div Chunk
      text[i \in 0 .. turns + 1] ==
        IF i = 0 THEN <<>> ELSE PrintedOn(file, text[i - 1], i - 1)
  IN  text[turns + 1]

cat(arg) ==
  /\ Given(arg)
  /\ LET path == normalize_path(arg)
     IN Only(IF Kind(path) = "file" THEN Output(Printed(FileAt(path)))
             ELSE Message(Kind(path)))
  /\ UNCHANGED cwd

\* One turn: fs_readdir passes over a deleted slot, ls prints what it gives.
ListedOn(names, cell) ==
  IF cell = Deleted THEN names ELSE Append(names, IF IsEntry(cell) THEN cell.name ELSE cell)
\* ls calls fs_readdir until it returns NULL; nothing is opened meanwhile, and
\* the word behind the chain stays the same.
Listing(file, word) ==
  LET limit == Limit(file.chain)
      ends == {k \in 0 .. limit - 1 : Listed(file.chain, word, k) = Zero}
      names[k \in 0 .. limit] ==
        IF k = 0 THEN <<>> ELSE ListedOn(names[k - 1], Listed(file.chain, word, k - 1))
  IN  IF file.dir THEN names[Min(ends \cup {limit})] ELSE <<>>

ls(arg) ==
  /\ Given(arg)
  /\ LET path == normalize_path(arg)
     IN IF Kind(path) = "none" THEN Only(Message("none")) ELSE
        \E word \in ChainWords(FileAt(path).chain, Len(FileAt(path).chain)) :
          Only(Output(Listing(FileAt(path), word)))
  /\ UNCHANGED cwd

------------------------------------------------------------------------------
(* mkdir, rm, echo with a redirection *)

mkdir(arg) ==
  /\ Given(arg)
  /\ fs_mkdir(normalize_path(arg))
  /\ shown' = Nothing
  /\ UNCHANGED <<cwd, echo>>

rm(arg) ==
  /\ Given(arg)
  /\ LET path == normalize_path(arg)
     IN \/ Kind(path) = "none" /\ UNCHANGED vars
        \/ Kind(path) = "directory" /\ fs_rmdir(path)
        \/ Kind(path) = "file" /\ fs_remove(path)
  /\ shown' = Nothing
  /\ UNCHANGED <<cwd, echo>>

Mode(append) == {"CREATE", IF append THEN "APPEND" ELSE "TRUNCATE"}
Text(buffer, append) == IF append THEN <<Newline>> \o buffer ELSE buffer

EchoOpens(arg, buffer, append) ==
  /\ Given(arg)
  /\ append /\ Kind(normalize_path(arg)) = "file" =>
       At(Located(normalize_path(arg))).size + 1 + Len(buffer) <= MaxSize
  /\ fs_open(normalize_path(arg), Mode(append))
  /\ echo' = IF res' = -1 THEN <<>>
             ELSE <<[path |-> normalize_path(arg), text |-> Text(buffer, append),
                     wrote |-> FALSE]>>
  /\ shown' = IF res' = -1 THEN Message("Failed to create file.") ELSE Nothing
  /\ UNCHANGED cwd

\* A result of -1 is reported.
EchoWrites(word) ==
  /\ echo # <<>> /\ ~echo[1].wrote
  /\ fs_write(echo[1].text, word)
  /\ echo' = <<[echo[1] EXCEPT !.wrote = TRUE]>>
  /\ shown' = IF res' = -1 THEN Message("Failed to write content.") ELSE Nothing
  /\ UNCHANGED cwd

EchoCloses ==
  /\ echo # <<>> /\ echo[1].wrote
  /\ fs_close
  /\ echo' = <<>>
  /\ UNCHANGED <<cwd, shown>>

ShellNext ==
  \/ \E arg \in Args :
       \/ cd(arg) \/ stat(arg) \/ cat(arg) \/ ls(arg) \/ mkdir(arg) \/ rm(arg)
       \/ \E buffer \in Buffers, append \in BOOLEAN : EchoOpens(arg, buffer, append)
  \/ \E word \in Beyond : EchoWrites(word)
  \/ pwd \/ EchoCloses

ShellSpec == ShellInit /\ [][ShellNext]_shellVars

------------------------------------------------------------------------------
(* Properties *)

\* Whenever a command can be given, cat would show a file all of it and once,
\* whatever its size is to the chunks it reads; of one that is short, what there
\* is.  ls would show each entry once; behind the chain of a directory with no
\* slot left it may go on.
ShowsTheTree ==
  fd = <<>> =>
    LET tree == Tree
        names(path) == {Last(q) : q \in {p \in DOMAIN tree : Front(p) = path}}
    IN /\ \A path \in {p \in DOMAIN tree : ~tree[p].dir} :
            LET text == Printed(FileAt(path))
            IN /\ Len(text) = At(Located(path)).size
               /\ IsPrefix(tree[path].data, text)
               /\ text = tree[path].data \/ Short(Located(path))
       /\ \A path \in {<<>>} \cup {p \in DOMAIN tree : tree[p].dir} :
            LET file == FileAt(path)
                n == Cardinality(names(path))
            IN \A word \in ChainWords(file.chain, Len(file.chain)) :
                 LET text == Listing(file, word)
                 IN /\ Len(text) >= n
                    /\ ToSet(SubSeq(text, 1, n)) = names(path)
                    /\ \/ Len(text) = n
                       \/ FirstSlot(SlotsOf[file.chain],
                                    LAMBDA cell : cell = Zero) = NoLoc

\* When echo says nothing, the file ends with its text, unless the disk is full;
\* or was when the file was made: then it never gets a cluster.
EchoKeepsTheText ==
  echo # <<>> /\ echo[1].wrote /\ shown = Nothing =>
    LET path == echo[1].path
    IN \/ IsSuffix(echo[1].text, Tree[path].data)
       \/ Free(fat) = {}
       \/ At(Located(path)).clus = NoClus

\* cd goes to directories only, and the working directory stays one until rm is
\* told to remove it.
CwdIsADirectory ==
  [][/\ cwd' # cwd => Kind(cwd)' = "directory"
     /\ Kind(cwd) = "directory" /\ Kind(cwd)' # "directory" =>
          \E arg \in Args : rm(arg) /\ normalize_path(arg) = cwd]_shellVars
==============================================================================
