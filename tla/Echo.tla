-------------------------------- MODULE Echo --------------------------------
(***************************************************************************)
(* The echo command, kernel/src/shell/echo.c: parse walks over the         *)
(* arguments once, and cmd_echo prints what it found between quotes or     *)
(* hands it to a file, whose path it takes against the working directory   *)
(* of cwd.c.  A place is an index into the arguments, 0 is NULL.           *)
(***************************************************************************)
EXTENDS PathNames

CONSTANTS Quote, Greater, Newline, NUL,
          Typed,    \* bound: what is typed after the command's name
          Cwds,     \* working directories
          Wrapped   \* bound: what a difference below 0 wraps to, 2^32 less a little

ASSUME EchoAssumption ==
  /\ Cardinality({Quote, Greater, Newline, NUL}) = 4
  /\ \A str \in Typed :
       Wrapped > Len(str) /\ {Newline, NUL} \cap ToSet(str) = {}
  /\ \A cwd \in Cwds : cwd = Joined(Tokens(cwd)) /\ Names(Tokens(cwd)) = Tokens(cwd)

VARIABLES cwd,
          given,    \* what was typed after the command's name
          args,     \* the same, as echo leaves it: it writes into it
          p, quote, content_l, content_r, name, write,
          state,    \* "parse", "run" or "done"
          said,     \* what went to the console
          opened    \* the file it opened and what it wrote, or <<>>

vars == <<cwd, given, args, p, quote, content_l, content_r, name, write, state, said, opened>>
found == <<content_l, content_r, name, write>>

\* The byte at a place; the string ends in NUL.
Byte(s, i) == IF i \in DOMAIN s THEN s[i] ELSE NUL

Init ==
  /\ cwd \in Cwds
  /\ given \in Typed
  /\ args = given
  /\ p = 1
  /\ quote = FALSE
  /\ content_l = 0 /\ content_r = 0 /\ name = 0 /\ write = 0
  /\ state = "parse"
  /\ said = [kind |-> "nothing", text |-> <<>>]
  /\ opened = <<>>

------------------------------------------------------------------------------
(* parse *)

Turn == state = "parse" /\ UNCHANGED <<cwd, given, said, opened>>

\* Defects the code does not have: the character is looked at again; the one
\* after it is not looked at.
SameAgain(i) == i
TwoFurther(i) == i + 2
Advanced(i) == i + 1

OpeningQuote ==
  /\ Turn /\ Byte(args, p) = Quote /\ ~quote
  /\ quote' = TRUE
  /\ content_l' = p + 1
  /\ p' = Advanced(p)
  /\ UNCHANGED <<args, content_r, name, write, state>>

ClosingQuote ==
  /\ Turn /\ Byte(args, p) = Quote /\ quote
  /\ quote' = FALSE
  /\ content_r' = p
  /\ p' = Advanced(p)
  /\ UNCHANGED <<args, content_l, name, write, state>>

OtherCharacter ==
  /\ Turn
  /\ Byte(args, p) \notin {Quote, NUL}
  /\ Byte(args, p) = Greater => quote
  /\ p' = Advanced(p)
  /\ UNCHANGED <<args, quote, found, state>>

\* The first place from i on that holds none of the given bytes, or one of them.
SkipOver(i, bytes) == Min({j \in i .. Len(args) + 1 : Byte(args, j) \notin bytes})
Find(i, bytes) == Min({j \in i .. Len(args) + 1 : Byte(args, j) \in bytes})

\* A defect the code does not have: >> is skipped as > is.
OneMark == 1
Marks == IF Byte(args, p + 1) = Greater THEN 2 ELSE 1

\* The name is ended in place, and the rest of the arguments is not looked at.
Redirection ==
  /\ Turn /\ Byte(args, p) = Greater /\ ~quote
  /\ write' = Marks
  /\ name' = SkipOver(p + Marks, {Space})
  /\ p' = name'
  /\ args' = SubSeq(args, 1, Find(name', {NUL, Space, Newline}) - 1)
  /\ state' = "run"
  /\ UNCHANGED <<quote, content_l, content_r>>

End ==
  /\ Turn /\ Byte(args, p) = NUL
  /\ state' = "run"
  /\ UNCHANGED <<args, p, quote, found>>

parse == OpeningQuote \/ ClosingQuote \/ OtherCharacter \/ Redirection \/ End

------------------------------------------------------------------------------
(* cmd_echo, after it has called parse *)

\* The bytes from i on, as many as asked: after the string whatever comes next.
Bytes(s, i, count) == [k \in 1 .. count |-> Byte(s, i + k - 1)]

\* A u32: a negative difference wraps to more than the arguments hold.
bytes == IF content_r >= content_l THEN content_r - content_l ELSE Wrapped

Ends == state = "run" /\ state' = "done" /\ UNCHANGED <<cwd, given, p, quote, found>>

Missing == content_l = 0 \/ content_r = 0

Complains ==
  /\ Ends
  /\ Missing
  /\ said' = [kind |-> IF content_l = 0 THEN "Missing opening quote"
                                       ELSE "Missing closing quote",
              text |-> <<>>]
  /\ UNCHANGED <<args, opened>>

\* printlncount prints one byte more than it is told.
Prints ==
  /\ Ends /\ ~Missing /\ write = 0
  /\ said' = [kind |-> "text", text |-> Bytes(args, content_l, bytes + 1)]
  /\ UNCHANGED <<args, opened>>

\* >> makes room for a newline by writing over the opening quote.
Writes ==
  /\ Ends /\ ~Missing /\ write # 0
  /\ LET word == SubSeq(args, name, Len(args))
         To(mode, text) == [name |-> word, path |-> normalize_path(cwd, word),
                            mode |-> mode, text |-> text]
     IN IF write = 2
          THEN /\ args' = [args EXCEPT ![content_l - 1] = Newline]
               /\ opened' = <<To("APPEND", Bytes(args', content_l - 1, bytes + 1))>>
          ELSE /\ opened' = <<To("TRUNCATE", Bytes(args, content_l, bytes))>>
               /\ UNCHANGED args
  /\ UNCHANGED said

cmd_echo == Complains \/ Prints \/ Writes

Next == parse \/ cmd_echo

Spec == Init /\ [][Next]_vars /\ WF_vars(parse \/ cmd_echo)

------------------------------------------------------------------------------
(* Properties *)

\* Whether there is an even number of quotes before a place: it is outside.
Outside(i) == Len(SelectSeq(SubSeq(given, 1, i - 1), LAMBDA c : c = Quote)) % 2 = 0
\* Where the command ends: at the first > outside quotes, if there is one.
Cut == Min({i \in DOMAIN given : given[i] = Greater /\ Outside(i)} \cup {Len(given) + 1})
Quotes == {i \in 1 .. Cut - 1 : given[i] = Quote}
Balanced == Quotes # {} /\ Outside(Cut)
\* The text in the last pair of quotes.
LastText ==
  LET close == Max(Quotes)
  IN  SubSeq(given, Max(Quotes \ {close}) + 1, close - 1)

\* The walk stays in the arguments: it stops at their end and nowhere after it.
TypeOK ==
  /\ p \in 1 .. Len(given) + 1
  /\ content_l \in 0 .. Len(given) + 1 /\ content_r \in 0 .. Len(given)
  /\ name \in 0 .. Len(given) + 1
  /\ write \in {0, 1, 2} /\ quote \in BOOLEAN
  /\ Len(args) <= Len(given)

\* With quotes that match the text of the last pair is given on: to the console,
\* with its closing quote; or to the file named by the word after > or >>, after
\* a newline when it is appended to.  Without a pair of quotes the one that is
\* missing is named, and no file is touched.
GivesTheText ==
  state = "done" =>
    /\ Cardinality(Quotes) < 2 =>
         /\ opened = <<>>
         /\ said.kind = IF Quotes = {} THEN "Missing opening quote"
                                       ELSE "Missing closing quote"
    /\ Balanced /\ Cut > Len(given) =>
         said.text = Append(LastText, Quote) /\ opened = <<>>
    /\ Balanced /\ Cut <= Len(given) =>
         LET append == Byte(given, Cut + 1) = Greater
             words == SubSeq(given, IF append THEN Cut + 2 ELSE Cut + 1, Len(given))
             word == opened[1].name
         IN /\ opened[1].mode = (IF append THEN "APPEND" ELSE "TRUNCATE")
            /\ opened[1].text = (IF append THEN <<Newline>> ELSE <<>>) \o LastText
            /\ \E i \in 0 .. Len(words) :
                 /\ \A j \in 1 .. i : words[j] = Space
                 /\ IsPrefix(word, SubSeq(words, i + 1, Len(words)))
                 /\ Space \notin ToSet(word)
                 /\ Byte(words, i + 1) # Space
                 /\ Byte(words, i + Len(word) + 1) \in {NUL, Space}

\* The path has no empty name, no "." and no "..": what is left is each name that
\* no later part of the path has more ".." than names to take back.
PathIsResolved ==
  opened # <<>> =>
    LET word == opened[1].name
        path == opened[1].path
        tokens == Tokens(IF word # <<>> /\ word[1] = Slash THEN word
                         ELSE cwd \o <<Slash>> \o word)
        Ups(i, j) == Cardinality({k \in i .. j : tokens[k] = <<Dot, Dot>>})
        Downs(i, j) == Len(Names(SubSeq(tokens, i, j)))
        IsLeft(i) == /\ tokens[i] \notin {<<Dot>>, <<Dot, Dot>>}
                     /\ \A j \in i + 1 .. Len(tokens) : Ups(i + 1, j) <= Downs(i + 1, j)
        order == SelectSeq([i \in DOMAIN tokens |-> i], IsLeft)
    IN /\ Tokens(path) = [k \in DOMAIN order |-> tokens[order[k]]]
       /\ path[1] = Slash
       /\ \A i \in 2 .. Len(path) : path[i] = Slash => path[i - 1] # Slash /\ i < Len(path)

\* The file that echo made is listed under a name that finds it when it is typed,
\* unless the name given begins with a dot: ".x" is listed as "x", and what
\* begins with two dots as "..".
ListedNameOpens ==
  opened # <<>> /\ EntryName(opened[1].path) # <<>> =>
    LET entry == EntryName(opened[1].path)
    IN  EntryName(normalize_path(<<Slash>>, ListedAs(entry))) = entry
          <=> Last(Tokens(opened[1].path))[1] # Dot

\* Every command line is dealt with: the walk over it ends.
Returns == <>(state = "done")

\* A quote that is not closed is reported, and nothing is written.
UnclosedIsReported ==
  state = "done" /\ Quotes # {} /\ ~Balanced =>
    said.kind = "Missing closing quote" /\ opened = <<>>
=============================================================================
