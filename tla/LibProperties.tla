--------------------------- MODULE LibProperties ---------------------------
(***************************************************************************)
(* What a caller of the bounded string library relies on.                  *)
(***************************************************************************)
EXTENDS LibCalls, SequencesExt

(* A call of one of fns is made by this step. *)
Calls(fns) == call' # call /\ call'.fn \in fns
Succeeds == call'.err = "EOK"

Cells(p, n) == p..(p + n - 1)
Disjoint(p, n, q, k) == Cells(p, n) \cap Cells(q, k) = {}
Same(m, p, q, n) == \A i \in 0..(n - 1) : m[p + i] = m[q + i]

MoveFunctions == {"memmove", "memmove16", "memmove32", "wmemmove"}
CopyFunctions == {"memcpy", "memcpy16", "memcpy32", "wmemcpy"}
FieldFunctions == {"strcpyfld", "strcpyfldin", "strcpyfldout"}
StringCopies == {"strcpy", "wcscpy", "stpcpy", "wcpcpy", "strncpy", "wcsncpy"}
StringAppends == {"strcat", "wcscat", "strncat", "wcsncat"}
WideFunctions == {"wcscpy", "wcpcpy", "wcsncpy", "wcscat", "wcsncat"}

\* A token that starts behind the string, or a length below zero, would be of another type:
\* the caller hands both back to strtok.
TypeOK ==
    /\ \A a \in DOMAIN mem : mem[a] \in Nat
    /\ call # NoCall => call.heard = <<>> \/ call.heard[1] \in {DefaultHandler, UserHandler}
    /\ handlers \in [{"str", "mem"} -> {NoHandler, DefaultHandler, UserHandler}]
    /\ tok.dmax \in 0..scene.text
    /\ tok.ptr \in 0..(scene.text + 1)

\* No function writes outside the dmax units it is given at dest.  Two writes are known to fall
\* outside and are left out: the terminator stpncpy puts at dest before it looks at dmax, and
\* the blanks in front of a string of blanks only that strremovews trims.
WritesStayInDest ==
    [][ \A a \in DOMAIN mem : mem'[a] # mem[a] =>
          \/ a \in Cells(call'.dest, call'.dmax * scene.unit)
          \/ call'.fn = "strtok" /\ a \in 1..scene.text
          \/ call'.fn = "stpncpy" /\ call'.dmax = 0 /\ a = call'.dest
          \/ call'.fn = "strremovews" /\ SkipBlanks(mem, call'.dest) > call'.dest
                 /\ mem[SkipBlanks(mem, call'.dest)] = 0
      ]_vars

\* A function that returns an error leaves no part of its work behind: the memory is as it was,
\* or the destination is an empty string, or all null where it is a block or a field.
FailureLeavesNoPartialResult ==
    [][ Calls(StringCopies \cup StringAppends \cup FieldFunctions \cup MoveFunctions
              \cup CopyFunctions \cup {"stpncpy", "strljustify", "strremovews"})
        /\ ~Succeeds =>
          \/ mem' = mem
          \/ \A a \in DOMAIN mem : a \in Cells(call'.dest, call'.dmax * scene.unit) => mem'[a] = 0
          \/ /\ call'.fn \in StringCopies \cup StringAppends \cup {"stpncpy"}
             /\ mem'[call'.dest] = 0
      ]_vars

\* Whatever the alignment and the overlap of the two regions, a move leaves what a move through
\* a buffer of its own would leave; a copy does so too, of regions that do not overlap.
MovesLikeThroughABuffer ==
    [][ Calls(MoveFunctions \cup CopyFunctions) /\ Succeeds =>
          LET n == call'.slen * scene.unit
          IN  /\ mem' = [a \in DOMAIN mem |-> IF a \in Cells(call'.dest, n)
                                              THEN mem[call'.src + (a - call'.dest)]
                                              ELSE mem[a]]
              /\ call'.fn \in CopyFunctions /\ call'.dest # call'.src =>
                     Disjoint(call'.dest, n, call'.src, n)
      ]_vars

\* The bytes of a character of a function.
CharSize(fn) == IF fn \in WideFunctions THEN WCHAR_SIZE ELSE 1

\* A string is copied or appended, with its terminator, exactly when the result fits into dmax
\* and the cells written and read are apart; the rest of the memory keeps its value, the cells of
\* dest behind the terminator too.  That is the library as this program builds it, without
\* SAFECLIB_STR_NULL_SLACK, and not as its headers describe it: safe_strcpy.c:49-52,
\* safe_strncpy.c:52-54 and those of wcscpy, wcsncpy, stpcpy and wcpcpy say that the elements
\* behind the terminator are nulled (only safe_wcsncpy.c:56-62 names the macro), and those of the
\* appending functions that they are unspecified (safe_strcat.c:52-55) and that they are nulled
\* (safe_strcat.c:65-66).
StringIsCopiedOrRefused ==
    [][ Calls(StringCopies \cup StringAppends) /\ call'.dest # NULL /\ call'.src # NULL
        /\ call'.dest # call'.src /\ call'.dmax * CharSize(call'.fn) \in 1..RSIZE_MAX_STR
        /\ call'.slen # 0 /\ call'.slen * CharSize(call'.fn) <= RSIZE_MAX_STR =>
          LET ToEnd(p) == Length(mem, p, Max(DOMAIN mem) - p)
              at == IF call'.fn \in StringAppends THEN ToEnd(call'.dest) ELSE 0
              n == IF call'.slen = NoLimit THEN ToEnd(call'.src)
                   ELSE Min({ToEnd(call'.src), call'.slen})
              fits == /\ at + n < call'.dmax
                      /\ Disjoint(call'.dest, at + n + 1, call'.src, n + 1)
          IN  /\ Succeeds <=> fits
              /\ fits => mem' = [a \in DOMAIN mem |->
                                   IF a \in Cells(call'.dest + at, n)
                                   THEN mem[call'.src + (a - call'.dest - at)]
                                   ELSE IF a = call'.dest + at + n THEN 0 ELSE mem[a]]
      ]_vars

\* A field that is filled holds the characters of the source as they were before the call, and
\* nulls behind them; it is filled exactly when the two fields are apart.  How many characters
\* follows the loops, against two headers: strcpyfldin copies up to the terminator or dmax,
\* beyond slen as well, where safe_strcpyfldin.c:48-49 says at most slen; strcpyfldout keeps the
\* last cell for its null and copies dmax - 1 characters when slen is dmax, where
\* safe_strcpyfldout.c:48-53 says slen, and dmax.
FieldIsFilledOrCleared ==
    [][ Calls(FieldFunctions) /\ call'.dest # NULL /\ call'.src # NULL
        /\ call'.dmax \in 1..RSIZE_MAX_STR /\ call'.slen \in 1..call'.dmax =>
          LET n == CASE call'.fn = "strcpyfld" -> call'.slen
                     [] call'.fn = "strcpyfldin" -> Length(mem, call'.src, call'.dmax)
                     [] call'.fn = "strcpyfldout" -> Min({call'.slen, call'.dmax - 1})
              read == IF call'.fn = "strcpyfldin" /\ n < call'.dmax THEN n + 1 ELSE n
          IN  /\ Succeeds <=> Disjoint(call'.dest, n, call'.src, read)
              /\ \A i \in 0..(call'.dmax - 1) :
                     mem'[call'.dest + i] = IF Succeeds /\ i < n THEN mem[call'.src + i] ELSE 0
      ]_vars

\* stpncpy writes as many cells as it is asked for, the string and then nulls, and always ends
\* in a null; it does so exactly when that fits into dmax and the two ranges are apart.
PaddedStringIsCopiedOrRefused ==
    [][ Calls({"stpncpy"}) /\ call'.dest # NULL /\ call'.src # NULL
        /\ call'.dest # call'.src /\ {call'.dmax, call'.slen} \subseteq 1..RSIZE_MAX_STR =>
          LET n == Length(mem, call'.src, call'.slen)
              last == Max({n, call'.slen - 1})
          IN  /\ Succeeds <=> /\ call'.slen < call'.dmax
                              /\ Disjoint(call'.dest, call'.slen + 1, call'.src, call'.slen + 1)
              /\ Succeeds => \A i \in 0..last :
                     mem'[call'.dest + i] = IF i < n THEN mem[call'.src + i] ELSE 0
      ]_vars

\* The sign of a comparison is that of the first place where the two differ, and zero means that
\* no place does.  memcmp32 keeps to it only while the difference is below half the numbers.
SignOf(d) == IF d < 0 THEN -1 ELSE IF d > 0 THEN 1 ELSE 0

ComparesByTheFirstDifference ==
    [][ Calls({"memcmp", "memcmp16", "memcmp32", "wmemcmp", "strcmp", "strcasecmp"})
        /\ call'.heard = <<>> =>
          LET strings == call'.fn \in {"strcmp", "strcasecmp"}
              Cell(a) == IF call'.fn = "strcasecmp" THEN toupper(mem[a]) ELSE mem[a]
              n == IF strings THEN Min({call'.dmax, Length(mem, call'.dest, call'.dmax) + 1})
                   ELSE call'.slen
              x(i) == Cell(call'.dest + i)
              y(i) == Cell(call'.src + i)
              differ == {i \in 0..(n - 1) : x(i) # y(i)}
          IN  IF differ # {}
              THEN LET i == Min(differ)
                   IN  \/ SignOf(call'.out) = SignOf(x(i) - y(i))
                       \/ /\ call'.fn = "memcmp32" /\ call'.out # 0
                          /\ x(i) - y(i) \notin (-(UINT32_SIZE \div 2))..((UINT32_SIZE \div 2) - 1)
              ELSE call'.out = 0 \/ (strings /\ n = call'.dmax)
      ]_vars

\* A search finds the first place of the string where what is sought lies within dmax
\* characters, and nothing only when there is none; a span is the distance to the first
\* character that ends it, so strpbrk finds what strcspn stops at.
SearchFindsTheFirstPlace ==
    [][ Calls({"strstr", "strcasestr", "strpbrk", "strspn", "strcspn"})
        /\ call'.heard = <<>> /\ call'.dest # call'.src =>
          LET Cell(a) == IF call'.fn = "strcasestr" THEN toupper(mem[a]) ELSE mem[a]
              n == Length(mem, call'.dest, call'.dmax)
              k == Length(mem, call'.src, call'.slen)
              set == {mem[call'.src + j] : j \in 0..(k - 1)}
              terminated == mem[call'.src + k] = 0
              matches == {i \in 0..(n - k) :
                            \A j \in 0..(k - 1) : Cell(call'.dest + i + j) = Cell(call'.src + j)}
              members == {i \in 0..(n - 1) : mem[call'.dest + i] \in set}
              others == (0..(n - 1)) \ members
              Found(places) == IF places = {} THEN NULL ELSE call'.dest + Min(places)
          IN  CASE call'.fn \in {"strstr", "strcasestr"} -> call'.out = Found(matches)
                [] call'.fn = "strpbrk" -> terminated => call'.out = Found(members)
                [] call'.fn = "strspn"  -> call'.out = Min(others \cup {n})
                [] call'.fn = "strcspn" -> call'.out = Min(members \cup {n})
      ]_vars

\* Justifying and trimming move the text of a string to its beginning and cut the blanks behind
\* it, and change nothing else of the text.
Trimmed(s) ==
    LET text == {i \in DOMAIN s : s[i] \notin Blanks}
    IN  IF text = {} THEN <<>> ELSE SubSeq(s, Min(text), Max(text))

LeftOnly(s) ==
    LET text == {i \in DOMAIN s : s[i] \notin Blanks}
    IN  IF text = {} THEN s ELSE SubSeq(s, Min(text), Len(s))

EditsKeepTheText ==
    [][ Calls({"strljustify", "strremovews"}) /\ Succeeds /\ call'.dmax > RSIZE_MIN_STR =>
          LET before == StringAt(mem, call'.dest)
          IN  StringAt(mem', call'.dest) =
                  IF call'.fn = "strremovews" THEN Trimmed(before) ELSE LeftOnly(before)
      ]_vars

\* The tokens cut from a string are its maximal runs of characters that are no delimiters, in
\* their order, and none is left out on the way; at the end of the string they are all of
\* them.  A call without any delimiters finds no token, although the whole string is a run.
Runs(s, delimiters) ==
    {r \in (DOMAIN s) \X (DOMAIN s) :
        /\ r[1] <= r[2] /\ \A k \in r[1]..r[2] : s[k] \notin delimiters
        /\ r[1] = 1 \/ s[r[1] - 1] \in delimiters
        /\ r[2] = Len(s) \/ s[r[2] + 1] \in delimiters}

Delimiters == {StringAt(mem, call.src)[i] : i \in DOMAIN StringAt(mem, call.src)}

TokensAreTheRuns ==
    call.fn = "strtok" /\ call.heard = <<>> =>
        LET runs == Runs(tok.string, Delimiters)
            ended == tok.dmax = 0 \/ call.out = NULL
        IN  IF Delimiters = {} THEN tok.tokens = <<>>
            ELSE \E at \in [DOMAIN tok.tokens -> runs] :
                    /\ \A i \in DOMAIN at : tok.tokens[i] = SubSeq(tok.string, at[i][1], at[i][2])
                    /\ \A i, j \in DOMAIN at : i < j => at[i][2] < at[j][1]
                    /\ \A r \in runs :
                          ended \/ (\E i \in DOMAIN at : r[1] < at[i][1]) =>
                              \E i \in DOMAIN at : at[i] = r
=============================================================================
