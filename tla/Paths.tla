------------------------------- MODULE Paths -------------------------------
(***************************************************************************)
(* The paths the file tools build, on Linux.  A path is the sequence of    *)
(* what lies between its slashes: "/a//b/" is <<"", "a", "", "b", "">>.    *)
(* An empty first element makes it absolute, an empty last one makes it    *)
(* end in a slash, and <<"">> is the empty string.  Names have one         *)
(* character.                                                              *)
(***************************************************************************)
EXTENDS Integers, SequencesExt

CONSTANTS Elements,          \* what may lie between two slashes
          Marker,            \* SM_BIN_PATH_MARKER
          MarkerLength,      \* its length
          MAX_PATH,          \* the size of the buffers
          SM_MAX_SUBDIRS     \* how many directories of a path are kept

Nil == ""      \* nothing
Here == "."    \* the same directory
Up == ".."     \* the directory above

ASSUME PathsAssumption ==
    /\ {Nil, Here, Up} \subseteq Elements
    /\ Marker \in Elements \ {Nil, Here, Up}
    /\ MarkerLength \in Nat
    /\ MAX_PATH \in Nat \ {0}
    /\ SM_MAX_SUBDIRS \in Nat \ {0, 1}

Empty == <<Nil>>
Root == <<Nil>>     \* the directories of "/", with the empty one in front of the slash
NoPath == <<>>      \* an error was returned instead of a path

Path == Seq(Elements)
Names == Elements \ {Nil, Here, Up}

\* The name of a directory: the names that lead to it from the root.
Directories ==
    {d \in Path : Len(d) > 0 /\ d[1] = Nil /\ \A i \in 2..Len(d) : d[i] \in Names}

Characters(s) == CASE s = Nil -> 0 [] s = Up -> 2 [] s = Marker -> MarkerLength [] OTHER -> 1
\* The elements and the slashes between them.
PathLength(p) ==
    LET length[i \in 0..Len(p)] ==
            IF i = 0 THEN -1 ELSE length[i - 1] + Characters(p[i]) + 1
    IN  length[Len(p)]
Fits(p) == PathLength(p) < MAX_PATH

is_file(p) == Last(p) # Nil
sm_path_is_abs(p) == Len(p) > 1 /\ Head(p) = Nil

\* What a path names, without the slash at its end.
DirOf(p) == IF is_file(p) THEN p ELSE Front(p)

sm_get_dpath_from_fpath(f) == IF Len(f) = 1 THEN Empty ELSE Append(Front(f), Nil)
sm_get_fname_from_fpath(f) == IF Last(f) = Nil THEN NoPath ELSE <<Last(f)>>

\* A slash is put between two paths unless the first one ends in a slash.
Joined(d, p) == (IF Last(d) = Nil THEN Front(d) ELSE d) \o p

\* A relative path starts at the directory of the program if it begins with the marker, else at
\* the current directory.
Whole(p, cwd, exe) ==
    LET bin == sm_get_dpath_from_fpath(exe)
    IN  IF sm_path_is_abs(p) THEN p
        ELSE IF Head(p) # Marker THEN Joined(cwd, p)
        ELSE IF Len(p) = 1 THEN bin ELSE Joined(bin, Tail(p))

\* The first directory is not left by Up; one directory too many is kept.
EnterMutant(dirs, name) ==
    IF Len(dirs) >= SM_MAX_SUBDIRS \/ name = Here THEN dirs
    ELSE IF name # Up THEN Append(dirs, name)
    ELSE IF Len(dirs) > 2 THEN Front(dirs) ELSE dirs

FullMutant(dirs, name) ==
    IF Len(dirs) > SM_MAX_SUBDIRS \/ name = Here THEN dirs
    ELSE IF name # Up THEN Append(dirs, name)
    ELSE IF Len(dirs) > 1 THEN Front(dirs) ELSE dirs

\* safe_strtok cuts the path into names.  Here is passed over and Up takes one directory back,
\* the root never; once sub_dirs is full the rest is dropped.
Enter(dirs, name) ==
    IF Len(dirs) >= SM_MAX_SUBDIRS \/ name = Here THEN dirs
    ELSE IF name # Up THEN Append(dirs, name)
    ELSE IF Len(dirs) > 1 THEN Front(dirs) ELSE dirs

DirsAfter(p) ==
    LET after[i \in 0..Len(p)] ==
            IF i = 0 THEN Root
            ELSE IF p[i] = Nil THEN after[i - 1] ELSE Enter(after[i - 1], p[i])
    IN  after

Subdirs(p) == DirsAfter(p)[Len(p)]

\* The slash at the end is kept; nothing is left of a path that names the root without one.
sm_make_path_abs(p, cwd, exe) ==
    LET whole == Whole(p, cwd, exe)
        dirs == Subdirs(whole)
    IN  IF p = Empty \/ ~Fits(p) \/ ~Fits(whole) THEN NoPath
        ELSE IF ~is_file(p) THEN Append(dirs, Nil)
        ELSE IF dirs = Root THEN NoPath ELSE dirs
=============================================================================
