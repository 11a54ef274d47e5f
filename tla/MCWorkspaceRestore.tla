------------------------- MODULE MCWorkspaceRestore -------------------------
(* A text, a name d that is a file or a directory with a file in it, and a *)
(* file secret that .gitignore may hide.                                   *)
EXTENDS WorkspaceRestore

CONSTANTS text, d, x, secret, a, b

InOrder == <<Gitignore, d, x, secret, text>>
OneStaged == {secret}
DirsOf == [p \in Range(InOrder) |-> IF p = x THEN {d} ELSE {}]
SomeTexts == {<<>>, <<a>>, <<b, a>>, <<a, b, a>>, <<b, b, b>>}
MCVersions ==
  [p \in Range(InOrder) |->
     IF p = text THEN SomeTexts \cup {Binary}
     ELSE IF p = Gitignore THEN {<<>>, <<secret>>} ELSE IF p = d THEN {<<a>>, Dir} ELSE {<<a>>}]

Plain == [git |-> TRUE, tracked |-> {text}, quoted |-> {}, artifacts |-> {}, stuck |-> {}]
MCRepos ==
  {Plain,
   [Plain EXCEPT !.tracked = {text, secret}],
   [Plain EXCEPT !.quoted = {secret}],
   [Plain EXCEPT !.stuck = {x, secret}],
   [Plain EXCEPT !.git = FALSE, !.artifacts = {secret}]}
===============================================================================
