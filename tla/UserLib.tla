------------------------------ MODULE UserLib ------------------------------
(***************************************************************************)
(* Algorithms of the user programs that make no system call: the parser of *)
(* sh.c on a line of tokens, the matcher of grep.c, and umalloc.c.  Each   *)
(* has a reference definition below it that it is compared with.           *)
(***************************************************************************)
EXTENDS Integers, Sequences, SequencesExt, FiniteSets, FiniteSetsExt, Functions

CONSTANTS MAXARGS,
          CHUNK,      \* units that morecore asks for, 4096
          HEAPMAX     \* units that sbrk can give

-----------------------------------------------------------------------------
(* sh.c: commands as parsecmd makes them *)

EXEC(w)            == [type |-> "EXEC", argv |-> w]
REDIR(c, f, m, fd) == [type |-> "REDIR", cmd |-> c, file |-> f, mode |-> m, fd |-> fd]
PIPE(l, r)         == [type |-> "PIPE", left |-> l, right |-> r]
LIST(l, r)         == [type |-> "LIST", left |-> l, right |-> r]
BACK(c)            == [type |-> "BACK", cmd |-> c]
PANIC              == [type |-> "PANIC"]

Symbols == {"|", "(", ")", ";", "&", "<", ">", ">>"}

\* What a parsing function leaves: the command, and the tokens it did not use;
\* after a panic no tokens are left.
Parsed(c, s) == [cmd |-> c, s |-> s]
panic == Parsed(PANIC, <<>>)
Panicked(p) == p.cmd.type = "PANIC"

peek(s, toks) == s # <<>> /\ Head(s) \in toks
gettoken(s) == Tail(s)

RECURSIVE parseredirs(_)
parseredirs(p) ==
  LET f == p.s[2]
      to == CASE p.s[1] = "<"  -> REDIR(p.cmd, <<f>>, {}, "0")
              [] p.s[1] = ">"  -> REDIR(p.cmd, <<f>>, {"WRONLY", "CREATE", "TRUNC"}, "1")
              [] p.s[1] = ">>" -> REDIR(p.cmd, <<f>>, {"WRONLY", "CREATE"}, "1")
  IN IF Panicked(p) \/ ~peek(p.s, {"<", ">", ">>"}) THEN p
     ELSE IF Len(p.s) = 1 \/ f \in Symbols THEN panic
     ELSE parseredirs(Parsed(to, SubSeq(p.s, 3, Len(p.s))))

\* cmd->argv[argc] = w, under the redirections of c.
RECURSIVE AddArg(_, _)
AddArg(c, w) == IF c.type = "EXEC" THEN EXEC(Append(c.argv, w)) ELSE [c EXCEPT !.cmd = AddArg(@, w)]
RECURSIVE Argc(_)
Argc(c) == IF c.type = "EXEC" THEN Len(c.argv) ELSE Argc(c.cmd)

RECURSIVE Args(_)
Args(p) ==
  IF Panicked(p) \/ p.s = <<>> \/ peek(p.s, {"|", ")", "&", ";"}) THEN p
  ELSE IF Head(p.s) \in Symbols \/ Argc(p.cmd) + 1 >= MAXARGS THEN panic
  ELSE Args(parseredirs(Parsed(AddArg(p.cmd, Head(p.s)), gettoken(p.s))))

RECURSIVE parseline(_), parsepipe(_), Amps(_)

parseblock(s) ==
  LET p == parseline(gettoken(s))
  IN IF ~peek(p.s, {")"}) THEN panic ELSE parseredirs(Parsed(p.cmd, gettoken(p.s)))

parseexec(s) == IF peek(s, {"("}) THEN parseblock(s) ELSE Args(parseredirs(Parsed(EXEC(<<>>), s)))

\* The command with what the rest of the line, parsed by parse, adds to it.
With(p, parse(_), make(_, _)) ==
  LET q == parse(gettoken(p.s)) IN IF Panicked(q) THEN q ELSE Parsed(make(p.cmd, q.cmd), q.s)

parsepipe(s) ==
  LET p == parseexec(s) IN IF peek(p.s, {"|"}) THEN With(p, parsepipe, PIPE) ELSE p

Amps(p) == IF peek(p.s, {"&"}) THEN Amps(Parsed(BACK(p.cmd), gettoken(p.s))) ELSE p

parseline(s) ==
  LET p == Amps(parsepipe(s)) IN IF peek(p.s, {";"}) THEN With(p, parseline, LIST) ELSE p

parsecmd(s) == LET p == parseline(s) IN IF p.s # <<>> THEN PANIC ELSE p.cmd

\* Reference: a command written down, with brackets where the grammar needs
\* them, is parsed as that command.
RECURSIVE Written(_)
Block(c) == IF c.type \in {"EXEC", "REDIR"} THEN Written(c) ELSE <<"(">> \o Written(c) \o <<")">>
Written(c) ==
  CASE c.type = "EXEC"  -> c.argv
    [] c.type = "REDIR" -> Block(c.cmd) \o (CASE c.mode = {} -> <<"<">>
                             [] "TRUNC" \in c.mode -> <<">">> [] OTHER -> <<">>">>) \o c.file
    [] c.type = "PIPE"  -> Block(c.left) \o <<"|">> \o IF c.right.type = "PIPE" THEN Written(c.right) ELSE Block(c.right)
    [] c.type = "LIST"  -> (IF c.left.type = "LIST" THEN Block(c.left) ELSE Written(c.left)) \o <<";">> \o Written(c.right)
    [] c.type = "BACK"  -> (IF c.cmd.type = "LIST" THEN Block(c.cmd) ELSE Written(c.cmd)) \o <<"&">>

RECURSIVE Commands(_)
Commands(n) ==
  IF n = 0 THEN {EXEC(<<"a">>), EXEC(<<"b", "c">>)}
  ELSE LET S == Commands(n - 1)
       IN S \cup {BACK(c) : c \in S} \cup {PIPE(c, d) : c, d \in S} \cup {LIST(c, d) : c, d \in S}
            \cup {REDIR(c, <<"f">>, {}, "0") : c \in S} \cup {REDIR(c, <<"g">>, {"WRONLY", "CREATE"}, "1") : c \in S}
ParserInvertsWriting(n) == \A c \in Commands(n) : parsecmd(Written(c)) = c
-----------------------------------------------------------------------------
(* grep.c: patterns and texts as sequences of characters *)

RECURSIVE matchhere(_, _)

\* c* takes any number of characters that c stands for.
matchstar(c, re, text) ==
  \E n \in 0 .. Len(text) : /\ \A i \in 1 .. n : text[i] = c \/ c = "."
                            /\ matchhere(re, SubSeq(text, n + 1, Len(text)))

matchhere(re, text) ==
  CASE re = <<>> -> TRUE
    [] Len(re) > 1 /\ re[2] = "*" -> matchstar(re[1], SubSeq(re, 3, Len(re)), text)
    [] re = <<"$">> -> text = <<>>
    [] OTHER -> text # <<>> /\ re[1] \in {".", text[1]} /\ matchhere(Tail(re), Tail(text))

match(re, text) ==
  IF re # <<>> /\ re[1] = "^" THEN matchhere(Tail(re), text)
  ELSE \E i \in 1 .. Len(text) + 1 : matchhere(re, SubSeq(text, i, Len(text)))

\* Reference: the texts that a pattern stands for, from the shortest piece up.
Letters == {"a", "b"}
Texts(n) == UNION {[1 .. k -> Letters] : k \in 0 .. n}
Char(c) == IF c = "." THEN Letters ELSE {c} \cap Letters
RECURSIVE Language(_, _)
Language(re, n) ==      \* texts of at most n characters
  LET star == Len(re) > 1 /\ re[2] = "*"
      first == IF star THEN {t \in Texts(n) : \A i \in DOMAIN t : t[i] \in Char(re[1])}
               ELSE {<<c>> : c \in Char(re[1])}
      rest == Language(SubSeq(re, IF star THEN 3 ELSE 2, Len(re)), n)
  IN IF re = <<>> THEN {<<>>} ELSE {t \o u : t \in first, u \in rest} \cap Texts(n)
\* Some stretch of the text is in the language, at its start after ^ and at
\* its end before $.
Found(re, text) ==
  LET up   == re # <<>> /\ re[1] = "^"
      down == re # <<>> /\ Last(re) = "$" /\ Len(re) > (IF up THEN 1 ELSE 0)
      body == SubSeq(re, IF up THEN 2 ELSE 1, Len(re) - IF down THEN 1 ELSE 0)
  IN \E i \in 1 .. Len(text) + 1 : \E j \in i - 1 .. Len(text) :
       /\ up => i = 1
       /\ down => j = Len(text)
       /\ SubSeq(text, i, j) \in Language(body, Len(text))
MatchFindsLanguage(n) ==
  \A k \in 0 .. n : \A re \in [1 .. k -> {"a", "b", ".", "*", "^", "$"}] :
    \A text \in Texts(3) : match(re, text) = Found(re, text)
-----------------------------------------------------------------------------
(* umalloc.c: addresses and sizes in units of a header.  base is at 0, the *)
(* heap above it; size has every block, next the blocks of the free list.  *)

base == 0
Heap0 == [next |-> (base :> base), size |-> (base :> 0), freep |-> base, brk |-> 2]

\* The free block after which bp belongs.
RECURSIVE Place(_, _, _)
Place(h, bp, p) ==
  LET q == h.next[p]
  IN IF (bp > p /\ bp < q) \/ (p >= q /\ (bp > p \/ bp < q)) THEN p ELSE Place(h, bp, q)

Without(f, x) == Restrict(f, DOMAIN f \ {x})

free(h, bp) ==
  LET p == Place(h, bp, h.freep)
      q == h.next[p]
      up == bp + h.size[bp] = q                         \* joined with q
      h1 == IF up THEN [h EXCEPT !.size = Without([@ EXCEPT ![bp] = @ + h.size[q]], q),
                                 !.next = Without((bp :> h.next[q]) @@ @, q)]
            ELSE [h EXCEPT !.next = (bp :> q) @@ @]
      h2 == IF p + h1.size[p] = bp                      \* joined with p
            THEN [h1 EXCEPT !.size = Without([@ EXCEPT ![p] = @ + h1.size[bp]], bp),
                            !.next = Without([@ EXCEPT ![p] = h1.next[bp]], bp)]
            ELSE [h1 EXCEPT !.next[p] = bp]
  IN [h2 EXCEPT !.freep = p]

\* NoHeap is the result of a sbrk that fails.
NoHeap == [freep |-> -1]
morecore(h, nu) ==
  LET n == IF nu < CHUNK THEN CHUNK ELSE nu
  IN IF h.brk + n > HEAPMAX THEN NoHeap
     ELSE free([h EXCEPT !.size = (h.brk :> n) @@ @, !.brk = @ + n], h.brk)

\* The search from p on, with its predecessor; <<heap, block>>, block 0 if none.
RECURSIVE Fit(_, _, _, _)
Fit(h, prevp, p, n) ==
  CASE h.size[p] = n -> <<[h EXCEPT !.next = Without([@ EXCEPT ![prevp] = h.next[p]], p), !.freep = prevp], p>>
    [] h.size[p] > n -> LET b == p + h.size[p] - n
                        IN <<[h EXCEPT !.size = (b :> n) @@ [@ EXCEPT ![p] = @ - n], !.freep = prevp], b>>
    [] h.size[p] < n /\ p # h.freep -> Fit(h, p, h.next[p], n)
    [] OTHER -> LET m == morecore(h, n)
                IN IF m = NoHeap THEN <<h, 0>> ELSE Fit(m, m.freep, m.next[m.freep], n)
malloc(h, n) == Fit(h, h.freep, h.next[h.freep], n)

\* Reference: free and allocated blocks tile the heap, the list is in order of
\* address, and no two free blocks touch; whatever is allocated and freed.
Tiled(h) ==
  LET Blocks == DOMAIN h.size \ {base}
      Free   == DOMAIN h.next
      After(b) == h.size[b] + b
  IN /\ \A b \in Blocks : h.size[b] > 0 /\ (After(b) = h.brk \/ After(b) \in Blocks)
     /\ MapThenSumSet(LAMBDA b : h.size[b], Blocks) = h.brk - 2
     /\ \A b \in Free : /\ {c \in Free : b < c /\ c < h.next[b]} = {}
                        /\ h.next[b] <= b => b = Max(Free) /\ h.next[b] = base
                        /\ b # base => After(b) \notin Free
RECURSIVE StaysTiled(_, _)
StaysTiled(h, n) ==
  /\ Tiled(h)
  /\ n > 0 => /\ \A k \in 1 .. 3 : StaysTiled(malloc(h, k)[1], n - 1)
              /\ \A b \in DOMAIN h.size \ DOMAIN h.next : StaysTiled(free(h, b), n - 1)
=============================================================================
