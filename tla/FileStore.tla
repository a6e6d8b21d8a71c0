----------------------------- MODULE FileStore -----------------------------
(***************************************************************************)
(* What libk/src/fs.h promises its caller, the shell: a tree of files and  *)
(* directories on the disk, which a power cycle keeps, and one open handle *)
(* on it.  Nothing is said of clusters.  A path is the sequence of its     *)
(* names, <<>> is "/"; a file's data is a sequence of cells.               *)
(***************************************************************************)
EXTENDS Integers, Sequences, SequencesExt

CONSTANTS Paths,    \* the paths callers name, <<>> among them
          Buffers,  \* what they write
          Counts    \* how much they ask fs_read for

VARIABLES tree,    \* path -> [dir, data], the nodes below "/"
          handle,  \* [path, pos, listed] of the open file, or <<>>
          res,     \* what the last call returned
          out      \* what it put in the caller's buffer or Stat

Exists(p) == p = <<>> \/ p \in DOMAIN tree
IsDir(p) == p = <<>> \/ (p \in DOMAIN tree /\ tree[p].dir)
Reached(p) == p # <<>> /\ IsDir(Front(p))
Children(p) == {q \in DOMAIN tree : Front(q) = p}

Keep == UNCHANGED <<tree, handle>>
Returns(value, output) == res' = value /\ out' = output

Put(p, node) == tree' = [q \in DOMAIN tree \cup {p} |-> IF q = p THEN node ELSE tree[q]]
Drop(p) == tree' = [q \in DOMAIN tree \ {p} |-> tree[q]]
Opened(p, pos) ==
  Returns(0, <<>>) /\ handle' = <<[path |-> p, pos |-> pos, listed |-> {}]>>

Init == tree = <<>> /\ handle = <<>> /\ res = 0 /\ out = <<>>

\* Opening may create a file, cut one to nothing or start at its end; or fail.
Open(p) ==
  /\ handle = <<>>
  /\ \/ Returns(-1, <<>>) /\ Keep
     \/ Opened(p, 0) /\ Exists(p) /\ UNCHANGED tree
     \/ Opened(p, 0) /\ (Reached(p) /\ ~IsDir(p)) /\ Put(p, [dir |-> FALSE, data |-> <<>>])
     \/ Exists(p) /\ ~IsDir(p) /\ Opened(p, Len(tree[p].data)) /\ UNCHANGED tree

Write(buffer) ==
  /\ handle # <<>>
  /\ LET h == handle[1]  old == tree[h.path].data  end == h.pos + Len(buffer)
     IN IF IsDir(h.path)
          THEN Returns(-1, <<>>) /\ Keep
          ELSE /\ Returns(Len(buffer), <<>>)
               /\ handle' = <<[h EXCEPT !.pos = end]>>
               /\ Put(h.path, [dir |-> FALSE, data |->
                    SubSeq(old, 1, h.pos) \o buffer \o SubSeq(old, end + 1, Len(old))])

Read(count) ==
  /\ handle # <<>>
  /\ LET h == handle[1]
     IN IF IsDir(h.path)
          THEN Returns(-1, <<>>) /\ Keep
          ELSE LET data == tree[h.path].data
                   last == IF h.pos + count < Len(data) THEN h.pos + count ELSE Len(data)
                   got == SubSeq(data, h.pos + 1, last)
               IN /\ Returns(Len(got), got)
                  /\ handle' = <<[h EXCEPT !.pos = @ + Len(got)]>>
                  /\ UNCHANGED tree

Info(p) ==
  IF IsDir(p) THEN <<Last(p), "directory", 0>> ELSE <<Last(p), "file", Len(tree[p].data)>>

\* Each entry of the directory once, in some order, then no more.
ReadDir ==
  /\ handle # <<>>
  /\ UNCHANGED tree
  /\ LET h == handle[1]
     IN \/ /\ IsDir(h.path) => Children(h.path) \subseteq h.listed
           /\ Returns(0, <<>>)
           /\ UNCHANGED handle
        \/ \E q \in Children(h.path) \ h.listed :
             /\ Returns(1, Info(q))
             /\ handle' = <<[h EXCEPT !.listed = @ \cup {q}]>>

Close == Returns(0, <<>>) /\ handle' = <<>> /\ handle # <<>> /\ UNCHANGED tree

Stat(p) ==
  /\ CASE p = <<>> -> Returns(1, <<"directory", 0>>)
       [] p # <<>> /\ Exists(p) -> Returns(1, Info(p))
       [] OTHER -> Returns(0, <<>>)
  /\ Keep

\* A call that fails changes nothing.
Fails(code) == Returns(code, <<>>) /\ handle = <<>> /\ Keep

Mkdir(p) ==
  \/ /\ Returns(0, <<>>) /\ handle = <<>> /\ UNCHANGED handle
     /\ Reached(p) /\ ~Exists(p) /\ Put(p, [dir |-> TRUE, data |-> <<>>])
  \/ ~Reached(p) /\ Fails(-1)
  \/ Reached(p) /\ Exists(p) /\ Fails(-2)
  \/ Reached(p) /\ ~Exists(p) /\ Fails(-3)

\* rm: a file, or a directory that is empty.
Removes(p) == Returns(0, <<>>) /\ handle = <<>> /\ UNCHANGED handle /\ Drop(p)

RemoveFile(p) ==
  \/ Exists(p) /\ ~IsDir(p) /\ Removes(p)
  \/ ~Reached(p) /\ Fails(-3)
  \/ Reached(p) /\ ~Exists(p) /\ Fails(-2)
  \/ Reached(p) /\ IsDir(p) /\ Fails(-4)

RemoveDir(p) ==
  \/ p # <<>> /\ IsDir(p) /\ Children(p) = {} /\ Removes(p)
  \/ p = <<>> /\ Fails(-5)
  \/ p # <<>> /\ ~Reached(p) /\ Fails(-3)
  \/ Reached(p) /\ ~Exists(p) /\ Fails(-2)
  \/ Exists(p) /\ ~IsDir(p) /\ Fails(-4)
  \/ p # <<>> /\ IsDir(p) /\ Children(p) # {} /\ Fails(-6)

\* The power goes off between two calls and comes back.
Reboot == Returns(0, <<>>) /\ handle' = <<>> /\ UNCHANGED tree

Next ==
  \/ Close \/ ReadDir \/ Reboot
  \/ \E buffer \in Buffers : Write(buffer)
  \/ \E count \in Counts : Read(count)
  \/ \E p \in Paths : Open(p) \/ Stat(p) \/ Mkdir(p) \/ RemoveFile(p) \/ RemoveDir(p)

Spec == Init /\ [][Next]_<<tree, handle, res, out>>
==============================================================================
