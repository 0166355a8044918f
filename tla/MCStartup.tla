----------------------------- MODULE MCStartup -----------------------------
(* Two programs that start on small file systems, for TLC.                  *)
EXTENDS Startup, TLC

CONSTANTS p1, p2

\* The programs lie in /b, and run in /a or in the root.
Home == [cwd |-> <<"", "a">>, exe |-> <<"", "b", "x">>, dirs |-> {Root, <<"", "a">>, <<"", "b">>},
         files |-> {<<"", "b", "x">>}, closed |-> {}]

\* A run from a directory that is deeper than SM_MAX_SUBDIRS, or has a long name.
Within(dir) ==
    [Home EXCEPT !.cwd = dir, !.dirs = @ \cup {SubSeq(dir, 1, i) : i \in 1..Len(dir)}]

\* What may be different: a file in the way, a directory that is closed, a run from the root.
FileSystems ==
    {Home,
     [Home EXCEPT !.files = @ \cup {<<"", "a", "a">>}],
     [Home EXCEPT !.closed = {<<"", "a">>}],
     [Home EXCEPT !.cwd = <<"", "">>],
     Within(<<"", "a", "a", "a", "a", "a">>),
     Within(<<"", "bin", "a", "a", "a">>)}

WithJobs(fs, plan) ==
    [cwd |-> fs.cwd, exe |-> fs.exe, dirs |-> fs.dirs, files |-> fs.files, closed |-> fs.closed,
     jobs |-> plan]

\* Every path of at most four elements, done by one program alone.
Parts == {"", ".", "..", "a"}
AnyPath ==
    LET short == UNION {[1..n -> Parts] : n \in 1..4}
    IN  short \cup {<<Marker>> \o p : p \in UNION {[1..n -> Parts] : n \in 0..3}}
\* Ten and eleven characters, with and without a slash at the end, where eleven are the most.
Limits == {<<"", Marker, Marker, "">>, <<"", Marker, Marker>>, <<"", Marker, "a", "a", "a">>}
Long == {<<"", "a", "a", "a", "a", "">>, <<"", "a", "a", "a", "a", "..", "a">>,
         <<"a", "a", "a", "a", "a">>, <<Marker, "..", "a", "a", "a">>} \cup Limits

Alone ==
    {WithJobs(fs, (p1 :> <<[kind |-> k, dpath |-> path, fname |-> "s"]>>) @@ (p2 :> <<>>)) :
        fs \in FileSystems, k \in {"log", "out"}, path \in AnyPath \cup Long}

\* The jobs of main(), done by two programs at once: the log and the data beside the directory
\* of the program, or in the same directory, or one within the other.
MainJobs(log, data) ==
    <<[kind |-> "log", dpath |-> log, fname |-> "l"],
      [kind |-> "out", dpath |-> data, fname |-> "o"],
      [kind |-> "stop", dpath |-> data, fname |-> "s"]>>

Together ==
    {WithJobs(fs, [p \in {p1, p2} |-> MainJobs(log, data)]) :
        fs \in FileSystems,
        log \in {<<Marker, "..", "d">>, <<"">>, <<"a">>, <<"", Marker, "a", "a", "a">>},
        data \in {<<Marker, "..", "d", "a">>, <<"a", "a">>, <<"l">>, <<"", Marker, "a", "a", "a">>}}

MCStarts == Alone \cup Together
MCPrograms == {p1, p2}
=============================================================================
