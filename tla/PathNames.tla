------------------------------ MODULE PathNames ------------------------------
(***************************************************************************)
(* Paths and names as strings: str_tok, the 8.3 names and to_lower of      *)
(* libk's string.c, normalize_path of the shell's cwd.c, and the limit     *)
(* parse_path of fs.c sets to a name.  A string is a sequence of           *)
(* characters, without its NUL.                                            *)
(***************************************************************************)
EXTENDS Integers, Sequences, SequencesExt, FiniteSetsExt, Functions

CONSTANTS Slash, Dot, Space,
          Capital,   \* each small letter's capital one
          Base, Ext, \* the lengths of an 8.3 name's parts: 8 and 3
          Room       \* 12: parse_path takes names of Room + 1 at most

Small == DOMAIN Capital

ASSUME NamesAssumption ==
  /\ Base \in Nat \ {0, 1} /\ Ext \in Nat \ {0} /\ Room = Base + 1 + Ext
  /\ Cardinality({Slash, Dot, Space}) = 3
  /\ Small \cap {Slash, Dot, Space} = {}
  /\ \A c \in Small : Capital[c] \notin Small \cup {Slash, Dot, Space}
  /\ \A c, d \in Small : Capital[c] = Capital[d] => c = d

------------------------------------------------------------------------------
(* normalize_path *)

\* str_tok until it returns NULL: the longest parts without a slash.
Tokens(str) ==
  LET Starts(i) == str[i] # Slash /\ (i = 1 \/ str[i - 1] = Slash)
      order == SelectSeq([i \in DOMAIN str |-> i], Starts)
      End(i) == Min({j \in i .. Len(str) : str[j] = Slash} \cup {Len(str) + 1})
  IN  [k \in DOMAIN order |-> SubSeq(str, order[k], End(order[k]) - 1)]

Names(tokens) == SelectSeq(tokens, LAMBDA token : token \notin {<<Dot>>, <<Dot, Dot>>})

\* A defect the code does not have: what is above the root counts.
KeepsDotDot(tokens, token) ==
  CASE token = <<Dot>> -> tokens
    [] token = <<Dot, Dot>> /\ tokens # <<>> -> Front(tokens)
    [] OTHER -> Append(tokens, token)
Taken(tokens, token) ==
  CASE token = <<Dot>> -> tokens
    [] token = <<Dot, Dot>> -> IF tokens = <<>> THEN tokens ELSE Front(tokens)
    [] OTHER -> Append(tokens, token)

Joined(tokens) ==
  IF tokens = <<>> THEN <<Slash>>
  ELSE FlattenSeq([k \in DOMAIN tokens |-> <<Slash>> \o tokens[k]])

\* Where a path begins from: itself, or the working directory and a slash.
Whole(cwd, path) ==
  IF path[1] = Slash THEN path
  ELSE cwd \o (IF Last(cwd) = Slash THEN <<>> ELSE <<Slash>>) \o path

normalize_path(cwd, path) ==
  IF path = <<>> THEN cwd ELSE Joined(FoldLeft(Taken, <<>>, Tokens(Whole(cwd, path))))

------------------------------------------------------------------------------
(* 8.3 names: Base characters and Ext characters, filled up with Space *)

Padded(str, len) == [i \in 1 .. len |-> IF i \in DOMAIN str THEN str[i] ELSE Space]
Upper(str) == [i \in DOMAIN str |-> IF str[i] \in Small THEN Capital[str[i]] ELSE str[i]]
to_lower(c) == IF \E s \in Small : Capital[s] = c THEN AntiFunction(Capital)[c] ELSE c

\* What begins with two dots is "..", whatever follows.
str_to_fat83(name) ==
  LET stop == Min({i \in DOMAIN name : name[i] = Dot} \cup {Base + 1, Len(name) + 1})
      from == IF stop \in DOMAIN name /\ name[stop] = Dot THEN stop + 1 ELSE stop
  IN  IF IsPrefix(<<Dot, Dot>>, name) THEN Padded(<<Dot, Dot>>, Base + Ext)
      ELSE Padded(Upper(SubSeq(name, 1, stop - 1)), Base)
             \o Padded(Upper(SubSeq(name, from, Len(name))), Ext)

BaseOf(entry) ==
  SubSeq(entry, 1, Min({i \in 1 .. Base : entry[i] = Space} \cup {Base + 1}) - 1)
ExtOf(entry) == SelectSeq(SubSeq(entry, Base + 1, Base + Ext), LAMBDA c : c # Space)

\* A defect the code does not have: the parts are not told apart.
WithoutDot(entry) == BaseOf(entry) \o ExtOf(entry)
fat83_to_str(entry) ==
  BaseOf(entry) \o (IF BaseOf(entry) # <<>> /\ ExtOf(entry) # <<>> THEN <<Dot>> ELSE <<>>)
    \o ExtOf(entry)

\* What ls prints for an entry.
ListedAs(entry) == [i \in DOMAIN fat83_to_str(entry) |-> to_lower(fat83_to_str(entry)[i])]

\* The entry that a path ends in; <<>> when it names none: the root, or a path
\* with a name that is too long.
EntryName(path) ==
  LET tokens == Tokens(path)
  IN  IF tokens = <<>> \/ \E k \in DOMAIN tokens : Len(tokens[k]) > Room + 1 THEN <<>>
      ELSE str_to_fat83(Last(tokens))
==============================================================================
