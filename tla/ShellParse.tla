----------------------------- MODULE ShellParse -----------------------------
(***************************************************************************)
(* The parser of the shell, usr/sh.c, on the tokens gettoken() cuts a line *)
(* into, and the grammar it implements.  A parse is a record [ok, cmd, i]: *)
(* the command and the index of the next token; when ok is FALSE the code  *)
(* has called panic() and the process has exited.                          *)
(***************************************************************************)
EXTENDS Naturals, Sequences

CONSTANTS Words,     \* tokens of kind 'a'
          MAXARGS

Symbols == {"<", ">", ">>", "|", "&", ";", "(", ")"}
RedirSymbols == {"<", ">", ">>"}

\* Constructors.  A redirection opens a file as descriptor fd.
execcmd(args) == [type |-> "EXEC", argv |-> args]
redircmd(sub, file, n) == [type |-> "REDIR", cmd |-> sub, file |-> file, fd |-> n]
pipecmd(l, r) == [type |-> "PIPE", left |-> l, right |-> r]
listcmd(l, r) == [type |-> "LIST", left |-> l, right |-> r]
backcmd(sub) == [type |-> "BACK", cmd |-> sub]

Parsed(cmd, i) == [ok |-> TRUE, cmd |-> cmd, i |-> i]
Syntax == [ok |-> FALSE, cmd |-> execcmd(<< >>), i |-> 0]

peek(s, i, toks) == i <= Len(s) /\ s[i] \in toks

RECURSIVE parseline(_, _)
RECURSIVE parsepipe(_, _)
RECURSIVE parseredirs(_, _, _)
RECURSIVE parseargs(_, _, _, _)
RECURSIVE parsebacks(_, _, _)

\* Redirections wrap the command; the last one is the outermost.
parseredirs(cmd, s, i) ==
    IF ~peek(s, i, RedirSymbols) THEN Parsed(cmd, i)
    ELSE IF ~peek(s, i + 1, Words) THEN Syntax
    ELSE parseredirs(redircmd(cmd, s[i + 1], IF s[i] = "<" THEN 0 ELSE 1), s, i + 2)

\* The redirections of ret around an execcmd with the arguments args.
RECURSIVE WithArgs(_, _)
WithArgs(ret, args) ==
    IF ret.type = "EXEC" THEN execcmd(args) ELSE [ret EXCEPT !.cmd = WithArgs(@, args)]

\* The loop of parseexec(): args so far, inside of the redirections of ret.
parseargs(ret, args, s, i) ==
    IF i > Len(s) \/ peek(s, i, {"|", ")", "&", ";"})
    THEN Parsed(WithArgs(ret, args), i)
    ELSE IF ~peek(s, i, Words) \/ Len(args) + 1 >= MAXARGS THEN Syntax
    ELSE LET r == parseredirs(ret, s, i + 1)
         IN  IF r.ok THEN parseargs(r.cmd, Append(args, s[i]), s, r.i) ELSE r

parseblock(s, i) ==
    LET b == parseline(s, i + 1)
    IN  IF ~b.ok THEN b
        ELSE IF ~peek(s, b.i, {")"}) THEN Syntax
        ELSE parseredirs(b.cmd, s, b.i + 1)

parseexec(s, i) ==
    IF peek(s, i, {"("}) THEN parseblock(s, i)
    ELSE LET r == parseredirs(execcmd(<< >>), s, i)
         IN  IF r.ok THEN parseargs(r.cmd, << >>, s, r.i) ELSE r

\* Mutant: pipes group to the left.
parsepipeLeft(s, i) ==
    LET l == parseexec(s, i)
        m == parseexec(s, l.i + 1)
        r == parsepipe(s, m.i + 1)
    IN  IF ~l.ok \/ ~peek(s, l.i, {"|"}) THEN l
        ELSE IF ~m.ok \/ ~peek(s, m.i, {"|"})
        THEN [m EXCEPT !.cmd = pipecmd(l.cmd, @)]
        ELSE [r EXCEPT !.cmd = pipecmd(pipecmd(l.cmd, m.cmd), @)]

parsepipe(s, i) ==
    LET l == parseexec(s, i)
        r == parsepipe(s, l.i + 1)
    IN  IF ~l.ok \/ ~peek(s, l.i, {"|"}) THEN l
        ELSE IF r.ok THEN Parsed(pipecmd(l.cmd, r.cmd), r.i) ELSE r

\* The loop of parseline() over "&".
parsebacks(cmd, s, i) ==
    IF peek(s, i, {"&"}) THEN parsebacks(backcmd(cmd), s, i + 1) ELSE Parsed(cmd, i)

parseline(s, i) ==
    LET p == parsepipe(s, i)
        l == parsebacks(p.cmd, s, p.i)
        r == parseline(s, l.i + 1)
    IN  IF ~p.ok THEN p
        ELSE IF ~peek(s, l.i, {";"}) THEN l
        ELSE IF r.ok THEN Parsed(listcmd(l.cmd, r.cmd), r.i) ELSE r

\* parsecmd(): no token may be left over.
parsecmd(s) ==
    LET c == parseline(s, 1) IN IF c.ok /\ c.i <= Len(s) THEN Syntax ELSE c

-----------------------------------------------------------------------------
(* The grammar, by cutting a line in two at every place:                    *)
(*   line ::= pipe "&"* [";" line]      pipe ::= exec ["|" pipe]            *)
(*   exec ::= "(" line ")" redir* | redir* (word redir* )*                  *)

Cut(s, m, n) == SubSeq(s, m, n)

\* Where s has redirections; a simple command has words and redirections only.
RedirAt(s) == {i \in 1 .. Len(s) - 1 : s[i] \in RedirSymbols}
IsSimple(s) ==
    /\ \A i \in 1 .. Len(s) : s[i] \in Words \/ i \in RedirAt(s)
    /\ \A i \in RedirAt(s) : s[i + 1] \in Words

RECURSIVE Line(_, _)
RECURSIVE Pipe(_, _)
RECURSIVE Exec(_, _)

\* Does command c, or for c = {} any command, derive s?
Exec(c, s) ==
    \/ /\ IsSimple(s) /\ RedirAt(s) = {} /\ Len(s) < MAXARGS
       /\ c # {} => c = {execcmd(s)}
    \/ /\ Len(s) >= 2 /\ s[1] = "(" /\ s[Len(s)] = ")"
       /\ Line(c, Cut(s, 2, Len(s) - 1))
    \/ \* the last redirection of a block, or any last one of a simple command
       \E i \in RedirAt(s) :
         /\ s[i + 1] \in Words
         /\ \A j \in RedirAt(s) : j <= i
         /\ IF s[1] = "(" THEN i = Len(s) - 1 ELSE IsSimple(s)
         /\ \A d \in c : d.type = "REDIR" /\ d.file = s[i + 1]
                         /\ d.fd = IF s[i] = "<" THEN 0 ELSE 1
         /\ Exec({d.cmd : d \in c}, Cut(s, 1, i - 1) \o Cut(s, i + 2, Len(s)))

Pipe(c, s) ==
    \/ Exec(c, s)
    \/ \E i \in DOMAIN s :
         /\ s[i] = "|" /\ \A d \in c : d.type = "PIPE"
         /\ Exec({d.left : d \in c}, Cut(s, 1, i - 1))
         /\ Pipe({d.right : d \in c}, Cut(s, i + 1, Len(s)))

RECURSIVE Backs(_, _)
Backs(c, s) ==
    \/ Pipe(c, s)
    \/ /\ s # << >> /\ s[Len(s)] = "&" /\ \A d \in c : d.type = "BACK"
       /\ Backs({d.cmd : d \in c}, Cut(s, 1, Len(s) - 1))

Line(c, s) ==
    \/ Backs(c, s)
    \/ \E i \in DOMAIN s :
         /\ s[i] = ";" /\ \A d \in c : d.type = "LIST"
         /\ Backs({d.left : d \in c}, Cut(s, 1, i - 1))
         /\ Line({d.right : d \in c}, Cut(s, i + 1, Len(s)))
=============================================================================
