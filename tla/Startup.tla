------------------------------ MODULE Startup ------------------------------
(***************************************************************************)
(* What a program does before its threads run: sm_init_log makes the       *)
(* directory of the log and opens the log, createConsumerFin and main()    *)
(* have sm_init_fpath make the directory of the output and of the stop     *)
(* file.  Several programs may start at once on one file system, where     *)
(* each call of stat, mkdir and fopen is a step.                           *)
(***************************************************************************)
EXTENDS Paths, FiniteSets

CONSTANTS Programs,     \* the programs that start
          Starts        \* what they may start with, see Init

\* What main() hands to the calls that make a path; none of the paths is a null string, and the
\* names of the files have one character.
Jobs == [kind : {"log", "out", "stop"}, dpath : Path \ {NoPath}, fname : Names \ {Marker}]

\* The current directory exists, and getcwd names it without a slash at the end unless it is the
\* root; the file system is a tree.
ASSUME StartsAssumption == \A s \in Starts :
    /\ {s.cwd, s.exe} \subseteq Path /\ sm_path_is_abs(s.cwd) /\ sm_path_is_abs(s.exe)
    /\ DirOf(s.cwd) \in s.dirs
    /\ Root \in s.dirs /\ s.dirs \subseteq Directories /\ s.dirs \cap s.files = {}
    /\ \A f \in (s.dirs \ {Root}) \cup s.files : Front(f) \in s.dirs
    /\ s.jobs \in [Programs -> Seq(Jobs)]

VARIABLES cwd, exe,     \* the current directory, and the file the programs were started from
          dirs, files,  \* the directories and the files that exist, as sequences of names
          closed,       \* the directories in which nothing can be made
          jobs,         \* what each program has left to do: [kind, dpath, fname]
          pc,           \* where each program stands
          dpath,        \* the absolute path it works with; Empty for a log without a directory
          done,         \* how many of its directories sm_create_dpath has dealt with
          results       \* every job done, with its path or NoPath

systemVars == <<cwd, exe, closed>>
fsVars == <<dirs, files>>
vars == <<systemVars, fsVars, jobs, pc, dpath, done, results>>

Init ==
    /\ \E s \in Starts :
        /\ cwd = s.cwd /\ exe = s.exe
        /\ dirs = s.dirs /\ files = s.files /\ closed = s.closed
        /\ jobs = s.jobs
    /\ pc = [p \in Programs |-> "begin"]
    /\ dpath = [p \in Programs |-> Empty]
    /\ done = [p \in Programs |-> 0]
    /\ results = [p \in Programs |-> <<>>]

Job(p) == Head(jobs[p])
Goto(p, where) == pc' = [pc EXCEPT ![p] = where]

\* snprintf cuts what does not fit, here the name and perhaps the slash in front of it.
FileIn(dir, name) ==
    LET whole == Joined(dir, <<name>>)
        slash == Joined(dir, Empty)
    IN  IF Fits(whole) THEN whole ELSE IF Fits(slash) THEN slash ELSE dir

\* The path of a log that is given no directory is the name of the file alone.
FilePath(p) ==
    IF dpath[p] = Empty THEN <<Job(p).fname>> ELSE FileIn(dpath[p], Job(p).fname)

\* The file a path names; the system follows a relative path from the current directory, whatever
\* the length of its own path.
Opened(path) == IF sm_path_is_abs(path) THEN path ELSE DirOf(cwd) \o path

\* A job ends with a path or with NoPath.  main() goes on without a log; without a directory for
\* the output createConsumerFin throws, and main() leaves for its catch clause.
Return(p, path) ==
    /\ results' = [results EXCEPT ![p] = Append(@, [job |-> Job(p), path |-> path])]
    /\ jobs' = [jobs EXCEPT ![p] = IF Job(p).kind = "out" /\ path = NoPath THEN <<>> ELSE Tail(@)]
    /\ Goto(p, "begin")
    /\ done' = [done EXCEPT ![p] = 0]

\* sm_make_path_abs.  A log that is given no directory makes none either.
MakePath(p) ==
    /\ pc[p] = "begin" /\ jobs[p] # <<>>
    /\ LET abs == sm_make_path_abs(Job(p).dpath, cwd, exe)
           forLog == Job(p).kind = "log"
       IN  IF forLog /\ Job(p).dpath = Empty
           THEN /\ dpath' = [dpath EXCEPT ![p] = Empty]
                /\ Goto(p, "open")
                /\ UNCHANGED <<jobs, done, results>>
           ELSE IF abs = NoPath
           THEN Return(p, NoPath) /\ UNCHANGED dpath
           ELSE /\ dpath' = [dpath EXCEPT ![p] = abs]
                /\ Goto(p, IF forLog THEN "create" ELSE "find")
                /\ UNCHANGED <<jobs, done, results>>
    /\ UNCHANGED <<systemVars, fsVars>>

\* sm_is_dpath_found in sm_init_dpath: nothing is created when the directory is there.
FindDir(p) ==
    /\ pc[p] = "find"
    /\ IF Subdirs(dpath[p]) \in dirs
       THEN Return(p, FilePath(p))
       ELSE Goto(p, "create") /\ UNCHANGED <<jobs, done, results>>
    /\ UNCHANGED <<systemVars, fsVars, dpath>>

\* sm_create_dpath: stat, and mkdir when there is no such directory.  The names end in a slash,
\* so that stat fails on a file too; nobody looks at the result of mkdir.  Without room for that
\* slash sm_create_dpath fails, which sm_init_dpath reports and the log does not look at.
Prefix(p) == SubSeq(Subdirs(dpath[p]), 1, done[p] + 1)

\* The directory that is there is looked at again.
StatPrefixMutant(p) ==
    /\ pc[p] = "create" /\ done[p] < Len(Subdirs(dpath[p])) /\ Fits(Append(Prefix(p), Nil))
    /\ IF Prefix(p) \in dirs THEN UNCHANGED pc ELSE Goto(p, "mkdir")
    /\ UNCHANGED <<systemVars, fsVars, jobs, dpath, done, results>>

StatPrefix(p) ==
    /\ pc[p] = "create" /\ done[p] < Len(Subdirs(dpath[p])) /\ Fits(Append(Prefix(p), Nil))
    /\ IF Prefix(p) \in dirs
       THEN done' = [done EXCEPT ![p] = @ + 1] /\ UNCHANGED pc
       ELSE Goto(p, "mkdir") /\ UNCHANGED done
    /\ UNCHANGED <<systemVars, fsVars, jobs, dpath, results>>

\* There is no room for the slash.
NoRoom(p) ==
    /\ pc[p] = "create" /\ done[p] < Len(Subdirs(dpath[p])) /\ ~Fits(Append(Prefix(p), Nil))
    /\ IF Job(p).kind = "log"
       THEN Goto(p, "open") /\ UNCHANGED <<jobs, done, results>>
       ELSE Return(p, NoPath)
    /\ UNCHANGED <<systemVars, fsVars, dpath>>

\* A mkdir that fails ends the job.
MakeDirMutant(p) ==
    /\ pc[p] = "mkdir"
    /\ LET dir == Prefix(p)
       IN  IF Front(dir) \in dirs \ closed /\ dir \notin dirs \cup files
           THEN /\ dirs' = dirs \cup {dir}
                /\ done' = [done EXCEPT ![p] = @ + 1]
                /\ Goto(p, "create")
                /\ UNCHANGED <<jobs, results>>
           ELSE Return(p, NoPath) /\ UNCHANGED dirs
    /\ UNCHANGED <<systemVars, files, dpath>>

MakeDir(p) ==
    /\ pc[p] = "mkdir"
    /\ LET dir == Prefix(p)
           possible == Front(dir) \in dirs \ closed /\ dir \notin dirs \cup files
       IN  dirs' = IF possible THEN dirs \cup {dir} ELSE dirs
    /\ done' = [done EXCEPT ![p] = @ + 1]
    /\ Goto(p, "create")
    /\ UNCHANGED <<systemVars, files, jobs, dpath, results>>

\* The last directory is left out.
CreatedMutant(p) == pc[p] = "create" /\ done[p] = Len(Subdirs(dpath[p])) - 1

Created(p) == pc[p] = "create" /\ done[p] = Len(Subdirs(dpath[p]))

ReturnPath(p) ==
    /\ Created(p) /\ Job(p).kind # "log"
    /\ Return(p, FilePath(p))
    /\ UNCHANGED <<systemVars, fsVars, dpath>>

CreatedForLog(p) ==
    /\ Created(p) /\ Job(p).kind = "log"
    /\ Goto(p, "open")
    /\ UNCHANGED <<systemVars, fsVars, jobs, dpath, done, results>>

\* safe_fopen of the log, for appending.
OpenLog(p) ==
    /\ pc[p] = "open"
    /\ LET file == Opened(FilePath(p))
           possible == \/ file \in files
                       \/ Front(file) \in dirs \ closed /\ is_file(file) /\ file \notin dirs
       IN  /\ files' = IF possible THEN files \cup {file} ELSE files
           /\ Return(p, IF possible THEN FilePath(p) ELSE NoPath)
    /\ UNCHANGED <<systemVars, dirs, dpath>>

Step(p) ==
    \/ MakePath(p) \/ FindDir(p)
    \/ StatPrefix(p) \/ NoRoom(p) \/ MakeDir(p) \/ ReturnPath(p)
    \/ CreatedForLog(p) \/ OpenLog(p)

Next == \E p \in Programs : Step(p)

Spec == Init /\ [][Next]_vars

\* A starting program runs by itself, and none of its calls waits for another.
FairSpec == Spec /\ \A p \in Programs : WF_vars(Step(p))
-----------------------------------------------------------------------------
\* The file system stays a tree: what exists lies in a directory, and no name stands for a
\* directory and for a file.
TypeOK ==
    /\ \A f \in (dirs \ {Root}) \cup files : Front(f) \in dirs
    /\ dirs \cap files = {}
    /\ \A p \in Programs : done[p] \in 0..SM_MAX_SUBDIRS

\* The path a program works with is absolute and names each directory once: no "." or "..",
\* nothing between two slashes.  Made absolute again, whatever the current directory, the path
\* whose directories sm_create_dpath makes stays as it is; the directory and the file name make a
\* path up; going into a directory and back does not move it.
PathsAreNormal ==
    \A p \in Programs : dpath[p] # Empty =>
        LET path == dpath[p]
            names == Tail(DirOf(path))
        IN  /\ sm_path_is_abs(path)
            /\ ToSet(names) \cap {Nil, Here, Up} = {}
            /\ pc[p] \in {"find", "create", "mkdir"} =>
                   \A d \in dirs : sm_make_path_abs(path, d, exe) = path
            /\ is_file(path) =>
                   Joined(sm_get_dpath_from_fpath(path), sm_get_fname_from_fpath(path)) = path
            /\ Len(names) + 2 < SM_MAX_SUBDIRS =>
                   \A x \in Names : Subdirs(path \o <<x, Up, Here>>) = Subdirs(path)

\* A job that ends with a path has its directory there, unless mkdir failed on the way to it: a
\* file has the name of a directory, or nothing can be made in the one above.  A log that is open
\* is a file.  The path ends in the name that was asked for, unless it fills its buffer.
DirectoryIsThere ==
    \A p \in Programs : \A r \in ToSet(results[p]) : r.path # NoPath =>
        LET file == Opened(r.path)
            dir == Front(file)
        IN  /\ \/ dir \in dirs
               \/ \E i \in 2..Len(dir) :
                      LET above == SubSeq(dir, 1, i - 1)
                          missing == SubSeq(dir, 1, i)
                      IN  missing \notin dirs /\ (missing \in files \/ above \in closed)
            /\ r.job.kind = "log" => file \in files
            /\ Last(r.path) = r.job.fname \/ PathLength(r.path) = MAX_PATH - 1

\* Programs that start together do not disturb each other: the same job has the same answer,
\* whoever does it, and whether the directories were there, made by itself, or made by another
\* between its stat and its mkdir.
SameJobSameAnswer ==
    \A p, q \in Programs : \A r \in ToSet(results[p]), s \in ToSet(results[q]) :
        r.job = s.job => r.path = s.path

\* Every program gets through its start.
StartupEnds == \A p \in Programs : <>(jobs[p] = <<>>)
=============================================================================
