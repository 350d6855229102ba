------------------------------ MODULE MCSession ------------------------------
EXTENDS Session
CONSTANTS a, b

\* One document, also given as the argument, and a free name that sorts
\* before it, also given with -o.
MCPaths == {1, 2}
MCStartup == (1 :> Absent) @@ (2 :> <<a, b>>)
MCFilters == {{}, {a}}

\* The same with a shorter document.
MCStartup1 == (1 :> Absent) @@ (2 :> <<a>>)

\* Two documents, and a free name that sorts before both.
MCThree == {1, 2, 3}
MCStartup3 == (1 :> Absent) @@ (2 :> <<a>>) @@ (3 :> <<b>>)
=============================================================================
