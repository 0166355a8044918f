---------------------------- MODULE MCLibCalls -----------------------------
(* The scenes in which TLC calls the string library.                        *)
EXTENDS LibProperties

Scene(kinds, library, unit, mems) ==
    [kinds |-> kinds, library |-> library, unit |-> unit, mems |-> mems, dests |-> {1},
     sources |-> {1}, sizes |-> {1}, lengths |-> {1}, values |-> {0}, text |-> 0]

\* A memory whose cells are all different.
Labels(n) == {[a \in 1..n |-> a]}
\* Memories of n cells of an alphabet; a tail of fixed cells.
Memories(n, alphabet) == [1..n -> alphabet]
Ending(mems, tail) == {m \o tail : m \in mems}

Bytes == [Scene({"bytes"}, "mem", 1, Labels(32))
            EXCEPT !.dests = {NULL} \cup 4..11, !.sources = {NULL} \cup 4..11,
                   !.sizes = {0, 1, 9, 16, 17}, !.lengths = 0..11, !.values = {0, 99}]
Units16 == [Scene({"units16"}, "mem", 2, Labels(28))
              EXCEPT !.dests = {NULL, 4, 6, 8, 10}, !.sources = {NULL, 4, 6, 8, 10, 12},
                     !.sizes = {0, 1, 5, 8, 9}, !.lengths = 0..6, !.values = {0, 99}]
Units32 == [Scene({"units32"}, "mem", 4, Labels(44))
              EXCEPT !.dests = {NULL, 4, 8, 12}, !.sources = {NULL, 4, 8, 12, 16, 20},
                     !.sizes = {0, 1, 3, 4, 5, 17}, !.lengths = 0..5, !.values = {0, 99}]
Units == [Scene({"compare"}, "mem", 1, Memories(4, {0, 1, 9}))
            EXCEPT !.dests = {NULL, 1, 2}, !.sources = {NULL, 1, 2, 3},
                   !.sizes = {0, 1, 2, 17}, !.lengths = 0..3]

\* Strings in every state of seven or eight cells: each cell is a letter of its own or null.
Strings(n) == {[a \in 1..n |-> IF a \in letters THEN 64 + a ELSE 0] : letters \in SUBSET (1..n)}
Copies == [Scene({"copy"}, "str", 1, Strings(8))
             EXCEPT !.dests = {1, 2, 4}, !.sources = {1, 2, 4}, !.sizes = 1..4, !.lengths = 1..4]
BadCopies == [Scene({"copy"}, "str", 1, Strings(4))
                EXCEPT !.dests = {NULL, 1, 2}, !.sources = {NULL, 1, 2}, !.sizes = {0, 2, 17},
                       !.lengths = {0, 1, 2, 17}]

Texts == [Scene({"edit"}, "str", 1, {<<65>> \o m : m \in Memories(5, {0, 32, 49, 65, 97, 103})})
            EXCEPT !.dests = {2}, !.sizes = {1, 2, 4}]
BadTexts == [Scene({"edit"}, "str", 1, {<<65>> \o m : m \in Memories(3, {0, 9, 33, 200})})
               EXCEPT !.dests = {NULL, 2}, !.sizes = {0, 1, 2, 17}]
Passwords == [Scene({"password"}, "str", 1, Ending(Memories(6, {0, 33, 49, 65, 97}), <<0>>))
                EXCEPT !.sizes = {6, 7}]
BadPasswords == [Scene({"password"}, "str", 1, Ending(Memories(3, {0, 32, 65}), <<97, 33, 49, 49, 0>>))
                   EXCEPT !.dests = {NULL, 1}, !.sizes = {5, 6, 8, 33}]

Searches == [Scene({"scan"}, "str", 1, Ending(Memories(7, {0, 65, 97}), <<0, 0>>))
               EXCEPT !.dests = {1}, !.sources = {5}, !.sizes = {2, 4}, !.lengths = {2, 3},
                      !.values = {65}]
BadSearches == [Scene({"scan"}, "str", 1, Ending(Memories(3, {0, 65, 97}), <<0>>))
                  EXCEPT !.dests = {NULL, 1}, !.sources = {NULL, 1, 3}, !.sizes = {0, 1, 17},
                         !.lengths = {0, 1, 17}, !.values = {0, 97}]

\* Texts of at most five characters; two delimiters behind them, one, none, or three, which is
\* one too many.
Cuts == {[Scene({"tokens"}, "str", 1,
                Ending(Memories(n, {47, 58, 97}), <<0, 47, 58, 0, 47, 58, 92, 0>>))
            EXCEPT !.sources = {n + 2, n + 3, n + 4, n + 5}, !.text = n] : n \in 1..5}

\* Programs that set handlers.
StrHandlers == [Scene({"edit", "handlers"}, "str", 1, {<<65, 97, 0>>})
                  EXCEPT !.dests = {NULL, 2}, !.sizes = {0, 1}]
MemHandlers == [Scene({"bytes", "handlers"}, "mem", 1, {<<0, 0, 0, 0, 0>>})
                  EXCEPT !.dests = {NULL, 4}, !.sources = {4}, !.sizes = {0, 1}]

MCScenes ==
    {Bytes, Units16, Units32, Units, Copies, BadCopies, Texts, BadTexts, Passwords, BadPasswords,
     Searches, BadSearches, StrHandlers, MemHandlers} \cup Cuts
=============================================================================
