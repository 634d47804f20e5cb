---------------------------------- MODULE MCGd ----------------------------------
(* Tokens and revisions are only ever compared with the newest ones: what  *)
(* counts is how far back a token was given, and whether a revision is the *)
(* newest.                                                                 *)
EXTENDS GdApp

Aged(s) == [i \in 1..Len(s) |-> [s[i] EXCEPT !.tok = IF @ = 0 THEN -1 ELSE g.token - @]]
Steps == [i \in 1..Len(todo) |-> IF todo[i].do = "expanded" THEN [todo[i] EXCEPT !.x = @ = g.rev] ELSE todo[i]]
Newest == [g EXCEPT !.token = 0, !.rev = 0, !.symbols = 0, !.varsRev = @ = g.rev, !.cache.rev = @ = g.rev,
                    !.modulesRev = @ = g.symbols, !.sourcesRev = @ = g.symbols]
Shown == [ui EXCEPT !.expanded = {[e EXCEPT !.rev = @ = g.rev] : e \in @}]
View == <<gdb, Aged(cmds), Aged(pipe), Aged(buf), want # 0, Steps, Newest, phase, late, Shown, keys>>
================================================================================
