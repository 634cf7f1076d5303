------------------------------- MODULE Shell --------------------------------
(***************************************************************************)
(* The shell of sh.c: the recursive-descent parser from gettoken() to      *)
(* parsecmd(), and runcmd() with the file descriptors of the processes it  *)
(* forks.                                                                  *)
(*                                                                         *)
(* A line is a sequence of characters: symbols, " " for white space, and   *)
(* "a" for every other character.  A word is the pair <<q, eq>> of the     *)
(* places where it begins and where it has ended.                          *)
(***************************************************************************)
EXTENDS Integers, SequencesExt

CONSTANTS
    Lines,      \* the lines that are typed
    MAXARGS,    \* a command has fewer words
    NOFILE      \* descriptors of a process

VARIABLE sh     \* the line; the command it is parsed to; what is executed

symbols == {"<", "|", ">", "&", ";", "(", ")"}
NUL == "nul"
Unset == [type |-> "none"]
Syntax == [type |-> "syntax"]

EXEC(argv) == [type |-> "EXEC", argv |-> argv]
REDIR(cmd, r) == [type |-> "REDIR", cmd |-> cmd, file |-> r.file, fd |-> r.fd]
PIPE(left, right) == [type |-> "PIPE", left |-> left, right |-> right]
LIST(left, right) == [type |-> "LIST", left |-> left, right |-> right]
BACK(cmd) == [type |-> "BACK", cmd |-> cmd]

-----------------------------------------------------------------------------
(* gettoken() and peek() at place i of line s                              *)

At(s, i) == IF i > Len(s) THEN NUL ELSE s[i]

\* The first place from i on that has none of the characters cs
Past(s, i, cs) == CHOOSE j \in i .. Len(s) + 1 :
                      At(s, j) \notin cs /\ \A k \in i .. j - 1 : At(s, k) \in cs

\* The token that begins at q
Token(s, q) ==
    LET c == At(s, q)
        append == c = ">" /\ At(s, q + 1) = ">"
        eq == CASE c = NUL -> q
                [] append -> q + 2
                [] c \in symbols /\ ~append -> q + 1
                [] OTHER -> Past(s, q, {"a"})
    IN [tok |-> IF append THEN "+" ELSE c, word |-> <<q, eq>>, next |-> Past(s, eq, {" "})]

gettoken(s, i) == Token(s, Past(s, i, {" "}))

peek(s, i, toks) == At(s, Past(s, i, {" "})) \in toks

-----------------------------------------------------------------------------
(* The parser.  Each operator gives what it parsed, c, and the place after *)
(* it, i; the place is 0 after panic()                                     *)

Panic == [c |-> Syntax, i |-> 0]

\* The redirections rs, with those that begin at i
RECURSIVE parseredirs(_, _, _)

\* A turn of its loop, with the tokens op and file
Redirection(rs, s, op, file) ==
    IF file.tok # "a" THEN Panic
    ELSE parseredirs(Append(rs, [file |-> file.word, fd |-> IF op.tok = "<" THEN 0 ELSE 1]), s, file.next)

parseredirs(rs, s, i) ==
    LET op == gettoken(s, i) IN
    IF ~peek(s, i, {"<", ">"}) THEN [c |-> rs, i |-> i]
    ELSE Redirection(rs, s, op, gettoken(s, op.next))

\* parseexec()'s loop: the words argv that were read, and the redirections r
RECURSIVE Arguments(_, _, _)
Arguments(argv, r, s) ==
    LET t == gettoken(s, r.i) IN
    IF r.i = 0 THEN Panic
    ELSE IF peek(s, r.i, {"|", ")", "&", ";"}) \/ t.tok = NUL
    THEN [c |-> FoldLeft(REDIR, EXEC(argv), r.c), i |-> t.word[1]]
    ELSE IF t.tok # "a" \/ Len(argv) + 1 >= MAXARGS THEN Panic
    ELSE Arguments(Append(argv, t.word), parseredirs(r.c, s, t.next), s)

RECURSIVE parseline(_, _)
RECURSIVE parsepipe(_, _)

\* parseblock() with the line b that follows "(", and the redirections r
Block(b, r, s) ==
    IF b.i = 0 THEN Panic
    ELSE IF ~peek(s, b.i, {")"}) \/ r.i = 0 THEN Panic
    ELSE [c |-> FoldLeft(REDIR, b.c, r.c), i |-> r.i]

parseblock(s, i) ==
    LET b == parseline(s, gettoken(s, i).next) IN
    Block(b, parseredirs(<<>>, s, gettoken(s, b.i).next), s)

parseexec(s, i) ==
    IF peek(s, i, {"("}) THEN parseblock(s, i) ELSE Arguments(<<>>, parseredirs(<<>>, s, i), s)

\* The command l, with the command r if sep follows it
Joined(l, r, s, sep) ==
    IF l.i = 0 THEN Panic
    ELSE IF ~peek(s, l.i, {sep}) THEN l
    ELSE IF r.i = 0 THEN Panic
    ELSE [c |-> IF sep = "|" THEN PIPE(l.c, r.c) ELSE LIST(l.c, r.c), i |-> r.i]

\* Mutant: a pipe takes the rest of the line
parsepipeGreedy(s, i) ==
    LET l == parseexec(s, i) IN Joined(l, parseline(s, gettoken(s, l.i).next), s, "|")

parsepipe(s, i) ==
    LET l == parseexec(s, i) IN Joined(l, parsepipe(s, gettoken(s, l.i).next), s, "|")

\* parseline()'s loop over "&"
RECURSIVE Backs(_, _)
Backs(p, s) ==
    IF p.i = 0 THEN Panic
    ELSE IF peek(s, p.i, {"&"}) THEN Backs([c |-> BACK(p.c), i |-> gettoken(s, p.i).next], s) ELSE p

parseline(s, i) ==
    LET l == Backs(parsepipe(s, i), s) IN
    Joined(l, parseline(s, gettoken(s, l.i).next), s, ";")

\* The places that nulterminate() writes a NUL to
RECURSIVE nulterminate(_)
nulterminate(c) ==
    CASE c.type = "EXEC" -> {c.argv[k][2] : k \in DOMAIN c.argv}
      [] c.type = "REDIR" -> nulterminate(c.cmd) \cup {c.file[2]}
      [] c.type \in {"PIPE", "LIST"} -> nulterminate(c.left) \cup nulterminate(c.right)
      [] c.type = "BACK" -> nulterminate(c.cmd)

\* Nothing may be left over after the line p
Whole(p, s) ==
    IF p.i = 0 THEN Syntax
    ELSE IF Past(s, p.i, {" "}) # Len(s) + 1 THEN Syntax ELSE p.c

parsecmd(s) == Whole(parseline(s, 1), s)

-----------------------------------------------------------------------------
(* runcmd() in a process with descriptors fds: what is executed, with      *)
(* which descriptors, and whether the shell waits for it.  The pipes of a  *)
(* line are told apart by where in the command they are, path              *)

\* What a descriptor is open on: its kind, and which one
Closed == <<"closed", <<>>>>
tty == <<"console", <<>>>>

Lowest(fds) == CHOOSE n \in DOMAIN fds : fds[n] = Closed /\ \A k \in 0 .. n - 1 : fds[k] # Closed
close(fds, n) == [fds EXCEPT ![n] = Closed]
open(fds, x) == [fds EXCEPT ![Lowest(fds)] = x]

RECURSIVE runcmd(_, _, _, _, _)

\* pipe(): its two descriptors and the table with them
pipe(fds, path) ==
    LET one == open(fds, <<"read", path>>) IN
    [p |-> <<Lowest(fds), Lowest(one)>>, fds |-> open(one, <<"write", path>>)]


\* The descriptors of a child of a pipe: end number e + 1 becomes descriptor n
Child(r, n, e) ==
    close(close(open(close(r.fds, n), r.fds[r.p[e + 1]]), r.p[1]), r.p[2])

\* Opening a file to read it fails if it is missing
runcmd(c, fds, path, waited, missing) ==
    CASE c.type = "EXEC" -> IF c.argv = <<>> THEN {} ELSE {[argv |-> c.argv, fds |-> fds, waited |-> waited]}
      [] c.type = "REDIR" ->
             IF c.fd = 0 /\ missing THEN {}
             ELSE runcmd(c.cmd, open(close(fds, c.fd), <<"file", c.file>>), path, waited, missing)
      [] c.type = "LIST" -> runcmd(c.left, fds, path \o <<0>>, waited, missing)
                            \cup runcmd(c.right, fds, path \o <<1>>, waited, missing)
      [] c.type = "PIPE" ->
             LET r == pipe(fds, path) IN
             runcmd(c.left, Child(r, 1, 1), path \o <<0>>, waited, missing)
             \cup runcmd(c.right, Child(r, 0, 0), path \o <<1>>, waited, missing)
      [] c.type = "BACK" -> runcmd(c.cmd, fds, path, FALSE, missing)
      [] OTHER -> {}

-----------------------------------------------------------------------------
(* main(): a line is read, a child parses it and runs the command          *)

Terminal == [n \in 0 .. NOFILE - 1 |-> IF n < 3 THEN tty ELSE Closed]

Init == \E line \in Lines : sh = [line |-> line, cmd |-> Unset, run |-> {}]

Parse == sh.cmd = Unset /\ sh' = [sh EXCEPT !.cmd = parsecmd(sh.line)]

\* What a program sees of a word ends at the first NUL after its beginning
Seen(w, nuls) == <<w[1], CHOOSE j \in nuls : j >= w[1] /\ \A k \in nuls : k >= w[1] => j <= k>>

Run ==
    /\ sh.cmd \notin {Unset, Syntax} /\ sh.run = {}
    /\ \E missing \in BOOLEAN :
          LET nuls == nulterminate(sh.cmd) \cup {Len(sh.line) + 1} IN
          sh' = [sh EXCEPT !.run = {[x EXCEPT !.argv = [k \in DOMAIN @ |-> Seen(@[k], nuls)]] :
                                      x \in runcmd(sh.cmd, Terminal, <<>>, TRUE, missing)}]

Next == Parse \/ Run

-----------------------------------------------------------------------------
(* A line as the grammar has it, by splitting: first at ";", then a final  *)
(* "&", then at "|", always outside of parentheses                         *)

RECURSIVE Tokens(_, _)
Tokens(s, i) == LET t == gettoken(s, i) IN
                IF t.tok = NUL THEN <<>> ELSE <<[tok |-> t.tok, word |-> t.word]>> \o Tokens(s, t.next)

Depth(t, i) == Len(SelectSeq(SubSeq(t, 1, i), LAMBDA x : x.tok = "("))
               - Len(SelectSeq(SubSeq(t, 1, i), LAMBDA x : x.tok = ")"))

\* The places of a token outside of parentheses, and the first of them
Outside(t, tok) == {i \in DOMAIN t : t[i].tok = tok /\ Depth(t, i) = 0}
First(S) == CHOOSE i \in S : \A j \in S : i <= j

Both(l, r, Op(_, _)) == IF Syntax \in {l, r} THEN Syntax ELSE Op(l, r)

\* Redirections only, or words and redirections
Redirections(t) ==
    /\ Len(t) % 2 = 0
    /\ \A i \in 1 .. Len(t) \div 2 : t[2 * i - 1].tok \in {"<", ">", "+"} /\ t[2 * i].tok = "a"

IsFile(t, i) == t[i].tok = "a" /\ i > 1 /\ t[i - 1].tok \in {"<", ">", "+"}
IsSimple(t) == \A i \in DOMAIN t : \/ t[i].tok = "a"
                                   \/ t[i].tok \in {"<", ">", "+"} /\ i < Len(t) /\ t[i + 1].tok = "a"
Words(t) == LET at == SelectSeq([i \in DOMAIN t |-> i], LAMBDA i : t[i].tok = "a" /\ ~IsFile(t, i))
            IN [k \in DOMAIN at |-> t[at[k]].word]
Redirected(c, t) ==
    LET at == SelectSeq([i \in DOMAIN t |-> i], LAMBDA i : IsFile(t, i))
    IN FoldLeft(LAMBDA d, i : REDIR(d, [file |-> t[i].word, fd |-> IF t[i - 1].tok = "<" THEN 0 ELSE 1]), c, at)

RECURSIVE Line(_)

Simple(t) ==
    IF t # <<>> /\ t[1].tok = "("
    THEN LET close_at == Outside(t, ")") IN
         IF close_at = {} THEN Syntax
         ELSE LET j == First(close_at)
                  c == Line(SubSeq(t, 2, j - 1))
                  rest == SubSeq(t, j + 1, Len(t))
              IN IF c = Syntax \/ ~Redirections(rest) THEN Syntax ELSE Redirected(c, rest)
    ELSE IF IsSimple(t) /\ Len(Words(t)) < MAXARGS THEN Redirected(EXEC(Words(t)), t) ELSE Syntax

RECURSIVE Pipeline(_)
Pipeline(t) ==
    LET bars == Outside(t, "|") IN
    IF bars = {} THEN Simple(t)
    ELSE Both(Simple(SubSeq(t, 1, First(bars) - 1)), Pipeline(SubSeq(t, First(bars) + 1, Len(t))), PIPE)

RECURSIVE Background(_)
Background(t) ==
    IF t # <<>> /\ Len(t) \in Outside(t, "&")
    THEN LET c == Background(Front(t)) IN IF c = Syntax THEN Syntax ELSE BACK(c)
    ELSE Pipeline(t)

Line(t) ==
    LET ends == Outside(t, ";") IN
    IF ends = {} THEN Background(t)
    ELSE Both(Background(SubSeq(t, 1, First(ends) - 1)), Line(SubSeq(t, First(ends) + 1, Len(t))), LIST)

(***************************************************************************)
(* parsecmd() accepts the lines of the grammar and no other, and gives the *)
(* command that it is by the rules of precedence: "|" binds more than "&", *)
(* "&" more than ";", redirections belong to one command.                  *)
(***************************************************************************)
ParsesGrammar == sh.cmd # Unset => sh.cmd = Line(Tokens(sh.line, 1))

\* Which words are executed with which input and output
RECURSIVE Wires(_, _, _, _, _, _)
Wires(c, in, out, path, waited, missing) ==
    CASE c.type = "EXEC" -> IF c.argv = <<>> THEN {} ELSE {[argv |-> c.argv, in |-> in, out |-> out, waited |-> waited]}
      [] c.type = "REDIR" /\ c.fd = 0 ->
             IF missing THEN {} ELSE Wires(c.cmd, <<"file", c.file>>, out, path, waited, missing)
      [] c.type = "REDIR" /\ c.fd = 1 -> Wires(c.cmd, in, <<"file", c.file>>, path, waited, missing)
      [] c.type = "LIST" -> Wires(c.left, in, out, path \o <<0>>, waited, missing)
                            \cup Wires(c.right, in, out, path \o <<1>>, waited, missing)
      [] c.type = "PIPE" -> Wires(c.left, in, <<"write", path>>, path \o <<0>>, waited, missing)
                            \cup Wires(c.right, <<"read", path>>, out, path \o <<1>>, waited, missing)
      [] c.type = "BACK" -> Wires(c.cmd, in, out, path, FALSE, missing)


=============================================================================
