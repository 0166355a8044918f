----------------------------- MODULE SafeScan ------------------------------
(***************************************************************************)
(* The functions of the library that only read strings: comparing,         *)
(* searching and classifying.  The loops are described by the first        *)
(* position at which they stop.                                            *)
(***************************************************************************)
EXTENDS SafeLib, FiniteSets

(* Refused: the result keeps its first value. *)
Refused(m, e) == Result(m, e, e, 0)
NotFound(m, e) == Result(m, e, "EOK", 0)

CompareError(dest, dmax, src) ==
    FirstError(<<NullDest(dest), NullSrc(src), Zero(dmax), TooLong(dmax, RSIZE_MAX_STR)>>)

SearchError(dest, dmax, src, slen) ==
    FirstError(<<NullDest(dest), NullSrc(src), Zero(dmax), TooLong(dmax, RSIZE_MAX_STR),
                 Zero(slen), TooLong(slen, RSIZE_MAX_STR)>>)

(* How far both strings go together, at most dmax. *)
Common(m, dest, dmax, src) == Min({Length(m, dest, dmax), Length(m, src, dmax)})

(* Comparing.  The difference is taken where the loop stops, which after   *)
(* dmax equal characters is behind dest.                                   *)
safe_strcmp(m, dest, dmax, src) ==
    LET bad == CompareError(dest, dmax, src)
        n == Common(m, dest, dmax, src)
        k == Min({i \in 0..n : i = n \/ m[dest + i] # m[src + i]})
    IN  IF bad # "EOK" THEN Refused(m, bad) ELSE Returns(m, m[dest + k] - m[src + k])

safe_strcasecmp(m, dest, dmax, src) ==
    LET bad == CompareError(dest, dmax, src)
        n == Common(m, dest, dmax, src)
        k == Min({i \in 0..n : i = n \/ toupper(m[dest + i]) # toupper(m[src + i])})
    IN  IF bad # "EOK" THEN Refused(m, bad)
        ELSE Returns(m, toupper(m[dest + k]) - toupper(m[src + k]))

safe_strcmpfld(m, dest, dmax, src) ==
    LET bad == CompareError(dest, dmax, src)
        k == Min({i \in 0..dmax : i = dmax \/ m[dest + i] # m[src + i]})
    IN  IF bad # "EOK" THEN Refused(m, bad) ELSE Returns(m, m[dest + k] - m[src + k])

(* Positions at which the strings agree or differ. *)
Places(m, dest, dmax, src, same) ==
    {i \in 0..(Common(m, dest, dmax, src) - 1) : (m[dest + i] = m[src + i]) = same}

Position(m, dest, dmax, src, same, Which(_), none) ==
    LET bad == CompareError(dest, dmax, src)
        places == Places(m, dest, dmax, src, same)
    IN  IF bad # "EOK" THEN Refused(m, bad)
        ELSE IF places = {} THEN NotFound(m, none)
        ELSE Returns(m, Which(places))

safe_strfirstdiff(m, dest, dmax, src) == Position(m, dest, dmax, src, FALSE, Min, "ESNODIFF")
safe_strfirstsame(m, dest, dmax, src) == Position(m, dest, dmax, src, TRUE, Min, "ESNOTFND")
safe_strlastdiff(m, dest, dmax, src) == Position(m, dest, dmax, src, FALSE, Max, "ESNODIFF")
safe_strlastsame(m, dest, dmax, src) == Position(m, dest, dmax, src, TRUE, Max, "ESNOTFND")

(* src is compared up to its terminator, or up to dmax characters. *)
safe_strprefix(m, dest, dmax, src) ==
    LET bad == CompareError(dest, dmax, src)
        n == Length(m, src, dmax)
    IN  IF bad # "EOK" THEN Refused(m, bad)
        ELSE IF n = 0 \/ \E i \in 0..(n - 1) : m[dest + i] # m[src + i]
        THEN NotFound(m, "ESNOTFND")
        ELSE Done(m)

(* Searching for one character *)
FindChar(m, dest, dmax, c, Which(_)) ==
    LET bad == DestError(dest, dmax, 1)
        places == {i \in 0..(Length(m, dest, dmax) - 1) : m[dest + i] = c}
    IN  IF bad # "EOK" THEN Refused(m, bad)
        ELSE IF places = {} THEN NotFound(m, "ESNOTFND")
        ELSE Returns(m, dest + Which(places))

safe_strfirstchar(m, dest, dmax, c) == FindChar(m, dest, dmax, c, Min)
safe_strlastchar(m, dest, dmax, c) == FindChar(m, dest, dmax, c, Max)

(* The characters of a set, at most slen of them. *)
CharsOf(m, src, slen) == {m[src + j] : j \in 0..(Length(m, src, slen) - 1)}

(* The number of leading characters of dest inside or outside the set. *)
Span(m, dest, dmax, src, slen, inside) ==
    LET bad == SearchError(dest, dmax, src, slen)
        n == Length(m, dest, dmax)
        set == CharsOf(m, src, slen)
    IN  IF bad # "EOK" THEN Refused(m, bad)
        ELSE Returns(m, Min({i \in 0..n : i = n \/ (m[dest + i] \in set) # inside}))

safe_strspn(m, dest, dmax, src, slen) == Span(m, dest, dmax, src, slen, TRUE)
safe_strcspn(m, dest, dmax, src, slen) == Span(m, dest, dmax, src, slen, FALSE)

(* The whole of src is searched, whatever slen says. *)
safe_strpbrk(m, dest, dmax, src, slen) ==
    LET bad == SearchError(dest, dmax, src, slen)
        n == Length(m, dest, dmax)
        set == CharsOf(m, src, Max(DOMAIN m) - src)
        places == {i \in 0..(n - 1) : m[dest + i] \in set}
    IN  IF bad # "EOK" THEN Refused(m, bad)
        ELSE IF places = {} THEN NotFound(m, "ESNOTFND")
        ELSE Returns(m, dest + Min(places))

(* Searching for a string.  At each place the characters are compared one  *)
(* by one until src or slen ends, a match, or one differs or dmax, which   *)
(* counts from the place, ends.                                            *)
Agree(m, p, q, k) == \A i \in 0..(k - 1) : m[q + i] # 0 /\ m[p + i] = m[q + i]

(* The characters left are not counted. *)
PastDmax(m, p, dlen, q, len) ==
    \E k \in 1..len : (k = len \/ m[q + k] = 0) /\ Agree(m, p, q, k)

MatchesAt(m, p, dlen, q, len) ==
    \E k \in 1..Min({dlen, len}) : (k = len \/ m[q + k] = 0) /\ Agree(m, p, q, k)

(* Without regard to case; here the loop runs until dest ends. *)
AgreeAnyCase(m, p, q, k) ==
    \A i \in 0..(k - 1) : m[p + i] # 0 /\ toupper(m[p + i]) = toupper(m[q + i])

MatchesAnyCase(m, p, dlen, q, len) ==
    \E k \in 1..Min({dlen, len}) : (k = len \/ m[q + k] = 0) /\ AgreeAnyCase(m, p, q, k)

FindString(m, dest, dmax, src, slen, Matches(_, _, _, _, _)) ==
    LET bad == FirstError(<<NullDest(dest), Zero(dmax), TooLong(dmax, RSIZE_MAX_STR),
                            NullSrc(src), Zero(slen), TooLong(slen, RSIZE_MAX_STR)>>)
        places == {i \in 0..(Length(m, dest, dmax) - 1) :
                     Matches(m, dest + i, dmax - i, src, slen)}
    IN  IF bad # "EOK" THEN Refused(m, bad)
        ELSE IF m[src] = 0 \/ dest = src THEN Returns(m, dest)
        ELSE IF places = {} THEN NotFound(m, "ESNOTFND")
        ELSE Returns(m, dest + Min(places))

safe_strstr(m, dest, dmax, src, slen) == FindString(m, dest, dmax, src, slen, MatchesAt)
safe_strcasestr(m, dest, dmax, src, slen) ==
    FindString(m, dest, dmax, src, slen, MatchesAnyCase)

(* Classifying: is every character of the string, up to dmax, in the       *)
(* class?  The result is a truth value; only the handler sees an error.    *)
Classify(m, dest, dmax, class, ofEmpty, max) ==
    LET bad == DestError(dest, dmax, 1)
        n == Length(m, dest, max)
    IN  IF bad # "EOK" THEN Result(m, "EOK", bad, FALSE)
        ELSE Returns(m, IF m[dest] = 0 THEN ofEmpty
                        ELSE \A i \in 0..(n - 1) : m[dest + i] \in class)

safe_strisalphanumeric(m, dest, dmax) ==
    Classify(m, dest, dmax, Digits \cup Uppers \cup Lowers, FALSE, dmax)
safe_strisascii(m, dest, dmax) == Classify(m, dest, dmax, 0..127, TRUE, dmax)
safe_strishex(m, dest, dmax) ==
    Classify(m, dest, dmax, Digits \cup (65..70) \cup (97..102), FALSE, dmax)
safe_strislowercase(m, dest, dmax) == Classify(m, dest, dmax, Lowers, FALSE, dmax)

(* These three read on to the terminator, past dmax. *)
ToTheEnd(m, dest) == Max(DOMAIN m) - dest
safe_strisdigit(m, dest, dmax) ==
    Classify(m, dest, dmax, Digits, FALSE, ToTheEnd(m, dest))
safe_strismixedcase(m, dest, dmax) ==
    Classify(m, dest, dmax, Lowers \cup Uppers, FALSE, ToTheEnd(m, dest))
safe_strisuppercase(m, dest, dmax) ==
    Classify(m, dest, dmax, Uppers, FALSE, ToTheEnd(m, dest))
(* A password has between 6 and 32 characters of four kinds, and at least  *)
(* two lower and two upper case letters, a digit and a special character.  *)
Specials == (33..47) \cup (58..64) \cup (91..94) \cup (95..96) \cup (123..126)

safe_strispassword(m, dest, dmax) ==
    LET bad == FirstError(<<NullDest(dest), <<dmax < 6, "ESLEMIN">>, TooLong(dmax, 32)>>)
        n == Length(m, dest, dmax)
        string == dest..(dest + n - 1)
        HasAtLeast(k, class) == Cardinality({a \in string : m[a] \in class}) >= k
    IN  IF bad # "EOK" THEN Result(m, "EOK", bad, FALSE)
        ELSE IF \E a \in string : m[a] \notin Digits \cup Lowers \cup Uppers \cup Specials
        THEN Returns(m, FALSE)
        ELSE IF m[dest + n] # 0 THEN Result(m, "EOK", "ESUNTERM", FALSE)
        ELSE Returns(m, /\ n < 32
                        /\ HasAtLeast(1, Digits) /\ HasAtLeast(1, Specials)
                        /\ HasAtLeast(2, Lowers) /\ HasAtLeast(2, Uppers))
=============================================================================
