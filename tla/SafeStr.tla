------------------------------ MODULE SafeStr ------------------------------
(***************************************************************************)
(* The functions of the library that write strings: copying, appending,    *)
(* fields of fixed width, and editing in place.  The functions on wide     *)
(* characters run the same loops as those on characters.                   *)
(***************************************************************************)
EXTENDS SafeLib

(* A count of characters that never runs out. *)
NoLimit == -1

(* The copying loop.  The end that lies below must not run into the start  *)
(* of the other, the bumper.  On success the result names the terminator.  *)
Bumped(dest, src, below, bumper) == (IF below THEN dest ELSE src) = bumper

CopyLoop(m, dest, dmax, src, slen, below, bumper) ==
    LET After(k) == CopyUp(m, dest, src, k, 1)
        Meets(k) == Bumped(dest + k, src + k, below, bumper)
        n == Min({k \in 0..dmax : k = dmax \/ Meets(k) \/ k = slen \/ After(k)[src + k] = 0})
    IN  IF n = dmax THEN Failed(After(n), "ESNOSPC")
        ELSE IF Meets(n) THEN Failed(After(n), "ESOVRLP")
        ELSE Returns(Put(After(n), dest + n, 0), dest + n)

(* A copy that fails leaves what it copied. *)
LeaveOnError(r, dest) == r

(* A copy that fails leaves an empty string at dest. *)
EmptyOnError(r, dest) == IF r.err = "EOK" THEN r ELSE Nulled(r.mem, dest, r.err)

(* The bumper is only where the source begins. *)
CopyStringMutant(m, dest, dmax, src, slen) ==
    EmptyOnError(CopyLoop(m, dest, dmax, src, slen, TRUE, src), dest)

CopyString(m, dest, dmax, src, slen) ==
    LET below == dest < src
    IN  EmptyOnError(CopyLoop(m, dest, dmax, src, slen, below,
                              IF below THEN src ELSE dest), dest)

safe_strcpy(m, dest, dmax, src) ==
    LET bad == DestError(dest, dmax, 1)
    IN  IF bad # "EOK" THEN Failed(m, bad)
        ELSE IF src = NULL THEN Nulled(m, dest, "ESNULLP")
        ELSE IF dest = src THEN Done(m)
        ELSE CopyString(m, dest, dmax, src, NoLimit)

(* Copying a string onto itself only looks for its end, up to and          *)
(* including the cell behind dest.                                         *)
safe_wcscpy(m, dest, dmax, src) ==
    LET bad == DestError(dest, dmax, WCHAR_SIZE)
    IN  IF bad # "EOK" THEN Failed(m, bad)
        ELSE IF src = NULL THEN Nulled(m, dest, "ESNULLP")
        ELSE IF dest = src
        THEN IF m[src + Length(m, src, dmax)] # 0 THEN Failed(m, "ESLEMAX") ELSE Done(m)
        ELSE CopyString(m, dest, dmax, src, NoLimit)

CopyAtMost(m, dest, dmax, src, slen, size) ==
    LET bad == DestError(dest, dmax, size)
        badSrc == FirstError(<<NullSrc(src), Zero(slen), TooLong(slen * size, RSIZE_MAX_STR)>>)
    IN  IF bad # "EOK" THEN Failed(m, bad)
        ELSE IF badSrc # "EOK" THEN Nulled(m, dest, badSrc)
        ELSE CopyString(m, dest, dmax, src, slen)

safe_strncpy(m, dest, dmax, src, slen) == CopyAtMost(m, dest, dmax, src, slen, 1)
safe_wcsncpy(m, dest, dmax, src, slen) == CopyAtMost(m, dest, dmax, src, slen, WCHAR_SIZE)

safe_stpcpy(m, dest, dmax, src) ==
    LET bad == DestError(dest, dmax, 1)
        end == dest + Length(m, dest, dmax)
    IN  IF bad # "EOK" THEN Failed(m, bad)
        ELSE IF src = NULL THEN Nulled(m, dest, "ESNULLP")
        ELSE IF dest # src THEN CopyString(m, dest, dmax, src, NoLimit)
        ELSE IF end < dest + dmax THEN Returns(m, end)
        ELSE Nulled(m, dest, "ESNOSPC")

safe_wcpcpy(m, dest, dmax, src) ==
    LET bad == DestError(dest, dmax, WCHAR_SIZE)
        end == dest + Length(m, dest, dmax)
    IN  IF bad # "EOK" THEN Failed(m, bad)
        ELSE IF src = NULL THEN Nulled(m, dest, "ESNULLP")
        ELSE IF dest # src THEN CopyString(m, dest, dmax, src, NoLimit)
        ELSE IF m[end] = 0 THEN Returns(m, end)
        ELSE Failed(m, "ESLEMAX")

(* stpncpy writes smax characters and, behind a shorter string, nulls.     *)
PaddedCopy(m, dest, dmax, src, smax) ==
    LET After(k) == CopyUp(m, dest, src, k, 1)
        n == Min({k \in 0..dmax : k = dmax \/ k = smax \/ After(k)[src + k] = 0})
    IN  IF n = dmax THEN Failed(After(n), "ESNOSPC")
        ELSE Returns(Put(Fill(After(n), dest + n, smax - n, 0), dest + n, 0), dest + n)

(* Behind the last character asked for a null is put while looking on.     *)
PadInPlace(m, dest, dmax, smax) ==
    LET After(k) == IF smax \in 1..k THEN Put(m, dest + smax, 0) ELSE m
        n == Min({k \in 0..dmax : k = dmax \/ After(k)[dest + k] = 0})
    IN  IF n = dmax THEN Failed(After(n), "ESNOSPC")
        ELSE Returns(Fill(After(n), dest + n, smax - n, 0), dest + n)

(* Every cell asked for is written, one more for the terminator; the two   *)
(* ranges must be apart.                                                   *)
NoRoom(dest, dmax, src, smax, terminator) ==
    FirstError(<<<<dmax < smax + terminator, "ESNOSPC">>,
                 <<src < dest /\ src + smax >= dest, "ESOVRLP">>,
                 <<dest < src /\ dest + smax >= src, "ESOVRLP">>>>)

PaddingErrorMutant(dest, dmax, src, smax) == NoRoom(dest, dmax, src, smax, 0)
PaddingError(dest, dmax, src, smax) == NoRoom(dest, dmax, src, smax, 1)

safe_stpncpy(m, dest, dmax, src, smax) ==
    LET badSize == FirstError(<<Zero(dmax), TooLong(dmax, RSIZE_MAX_STR),
                                TooLong(smax, RSIZE_MAX_STR)>>)
        badFit == PaddingError(dest, dmax, src, smax)
    IN  IF dest = NULL THEN Failed(m, "ESNULLP")
        ELSE IF src = NULL THEN Nulled(m, dest, "ESNULLP")
        ELSE IF badSize # "EOK" THEN Failed(m, badSize)
        ELSE IF badFit # "EOK" THEN Nulled(m, dest, badFit)
        ELSE EmptyOnError(IF dest = src THEN PadInPlace(m, dest, dmax, smax)
                          ELSE PaddedCopy(m, dest, dmax, src, smax), dest)

(* Appending walks to the terminator of dest and copies there. *)
WalkToEnd(m, dest, dmax, below, bumper) ==
    LET Meets(k) == below /\ dest + k = bumper
        n == Min({k \in 0..(dmax - 1) : m[dest + k] = 0 \/ Meets(k) \/ k = dmax - 1})
    IN  IF m[dest + n] = 0 THEN [err |-> "EOK", dest |-> dest + n, dmax |-> dmax - n]
        ELSE [err |-> IF Meets(n) THEN "ESOVRLP" ELSE "ESUNTERM"]

AppendString(m, dest, dmax, src, slen) ==
    LET below == dest < src
        bumper == IF below THEN src ELSE dest
        end == WalkToEnd(m, dest, dmax, below, bumper)
    IN  IF end.err # "EOK" THEN Nulled(m, dest, end.err)
        ELSE EmptyOnError(CopyLoop(m, end.dest, end.dmax, src, slen, below, bumper), dest)

AppendAtMost(m, dest, dmax, src, slen, size) ==
    LET bad == FirstError(<<NullDest(dest), NullSrc(src), TooLong(slen * size, RSIZE_MAX_STR),
                            Zero(dmax), TooLong(dmax * size, RSIZE_MAX_STR)>>)
    IN  IF bad # "EOK" THEN Failed(m, bad) ELSE AppendString(m, dest, dmax, src, slen)

safe_strcat(m, dest, dmax, src) == AppendAtMost(m, dest, dmax, src, NoLimit, 1)
safe_wcscat(m, dest, dmax, src) == AppendAtMost(m, dest, dmax, src, NoLimit, WCHAR_SIZE)
safe_strncat(m, dest, dmax, src, slen) == AppendAtMost(m, dest, dmax, src, slen, 1)
safe_wcsncat(m, dest, dmax, src, slen) == AppendAtMost(m, dest, dmax, src, slen, WCHAR_SIZE)

(* Fields have a fixed width and need no terminator: the rest of dest is   *)
(* filled with nulls.  The three functions differ in when they stop.       *)
FieldLoop(fn, m, dest, dmax, src, slen, below, bumper) ==
    LET After(k) == CopyUp(m, dest, src, k, 1)
        Filled(k) == CASE fn = "strcpyfld"    -> k = slen
                       [] fn = "strcpyfldin"  -> k = dmax \/ After(k)[src + k] = 0
                       [] fn = "strcpyfldout" -> k >= dmax - 1 \/ k = slen
        n == Min({k \in 0..dmax : Filled(k) \/ Bumped(dest + k, src + k, below, bumper)})
    IN  IF Filled(n) THEN Done(Fill(After(n), dest + n, dmax - n, 0))
        ELSE Failed(After(n), "ESOVRLP")

(* A field that cannot be filled is cleared, or left half filled. *)
LeaveField(r, dest, dmax) == r
ClearOnError(r, dest, dmax) ==
    IF r.err = "EOK" THEN r ELSE Failed(Fill(r.mem, dest, dmax, 0), r.err)

CopyField(fn, m, dest, dmax, src, slen) ==
    LET bad == DestError(dest, dmax, 1)
        badSrc == FirstError(<<NullSrc(src), Zero(slen), TooLong(slen, dmax)>>)
        below == dest < src
        r == FieldLoop(fn, m, dest, dmax, src, slen, below, IF below THEN src ELSE dest)
    IN  IF bad # "EOK" THEN Failed(m, bad)
        ELSE IF badSrc # "EOK" THEN Failed(Fill(m, dest, dmax, 0), badSrc)
        ELSE ClearOnError(r, dest, dmax)

safe_strcpyfld(m, dest, dmax, src, slen) == CopyField("strcpyfld", m, dest, dmax, src, slen)
safe_strcpyfldin(m, dest, dmax, src, slen) == CopyField("strcpyfldin", m, dest, dmax, src, slen)
safe_strcpyfldout(m, dest, dmax, src, slen) == CopyField("strcpyfldout", m, dest, dmax, src, slen)
(* Editing in place *)

safe_strzero(m, dest, dmax) ==
    LET bad == DestError(dest, dmax, 1)
    IN  IF bad # "EOK" THEN Failed(m, bad) ELSE Done(Fill(m, dest, dmax, 0))

(* Lengths: no error is returned, the length is 0 then. *)
CountError(dest, dmax, size) ==
    IF dest = NULL THEN "EOK"
    ELSE FirstError(<<Zero(dmax), TooLong(dmax * size, RSIZE_MAX_STR)>>)

Count(m, dest, dmax, size) ==
    LET bad == CountError(dest, dmax, size)
    IN  IF dest = NULL \/ bad # "EOK" THEN Result(m, "EOK", bad, 0)
        ELSE Returns(m, Length(m, dest, dmax))

safe_strnlen(m, dest, dmax) == Count(m, dest, dmax, 1)
safe_wcsnlen(m, dest, dmax) == Count(m, dest, dmax, WCHAR_SIZE)

(* The last character is given up for the terminator, or is not. *)
LastCellMutant(dmax) == dmax
LastCell(dmax) == dmax - 1

safe_strnterminate(m, dest, dmax) ==
    LET bad == CountError(dest, dmax, 1)
        count == Length(m, dest, LastCell(dmax))
    IN  IF dest = NULL \/ bad # "EOK" THEN Result(m, "EOK", bad, 0)
        ELSE Returns(Put(m, dest + count, 0), count)

ChangeCase(m, dest, dmax, from, by) ==
    LET bad == DestError(dest, dmax, 1)
        string == dest..(dest + Length(m, dest, dmax) - 1)
    IN  IF bad # "EOK" THEN Failed(m, bad)
        ELSE Done([a \in DOMAIN m |-> IF a \in string /\ m[a] \in from THEN m[a] + by ELSE m[a]])

safe_strtolowercase(m, dest, dmax) == ChangeCase(m, dest, dmax, Uppers, 32)
safe_strtouppercase(m, dest, dmax) == ChangeCase(m, dest, dmax, Lowers, -32)

(* The text is moved and its old place is left as it was. *)
ShiftDownMutant(m, to, from) ==
    LET top == Max(DOMAIN m)
        after[k \in 0..(top - from)] ==
            IF k = 0 THEN m
            ELSE LET b == after[k - 1]
                 IN  Put(b, to + k - 1, b[from + k - 1])
        n == Min({k \in 0..(top - from) : after[k][from + k] = 0})
    IN  [mem |-> after[n], to |-> to + n]

(* Each character moves down and leaves a blank behind. *)
ShiftDown(m, to, from) ==
    LET top == Max(DOMAIN m)
        after[k \in 0..(top - from)] ==
            IF k = 0 THEN m
            ELSE LET b == after[k - 1]
                 IN  Put(Put(b, to + k - 1, b[from + k - 1]), from + k - 1, 32)
        n == Min({k \in 0..(top - from) : after[k][from + k] = 0})
    IN  [mem |-> after[n], to |-> to + n]

(* The first cell from p on that is no blank. *)
SkipBlanks(m, p) == Min({a \in p..Max(DOMAIN m) : m[a] \notin Blanks})

(* The blanks from p on downwards become nulls. *)
TrimEnd(m, p) ==
    LET last == Max({a \in DOMAIN m : a <= p /\ m[a] \notin Blanks})
    IN  Fill(m, last + 1, p - last, 0)

(* Both functions accept a string whose terminator lies just behind dest.  *)
Justify(m, dest, dmax, Edit(_, _)) ==
    LET bad == DestError(dest, dmax, 1)
        end == dest + Length(m, dest, dmax)
        text == SkipBlanks(m, dest)
    IN  IF bad # "EOK" THEN Failed(m, bad)
        ELSE IF m[dest] = 0 \/ dmax <= RSIZE_MIN_STR THEN Done(Put(m, dest, 0))
        ELSE IF m[end] # 0 THEN Failed(Fill(m, dest, dmax, 0), "ESUNTERM")
        ELSE Done(Edit(end, text))

safe_strljustify(m, dest, dmax) ==
    LET Edit(end, text) ==
          IF text = dest \/ m[text] = 0 THEN m
          ELSE LET r == ShiftDown(m, dest, text) IN Put(r.mem, r.to, 0)
    IN  Justify(m, dest, dmax, Edit)

(* A string of blanks only is trimmed past its beginning. *)
safe_strremovews(m, dest, dmax) ==
    LET Edit(end, text) ==
          TrimEnd(IF text = dest \/ m[text] = 0 THEN m ELSE ShiftDown(m, dest, text).mem,
                  end - 1)
    IN  Justify(m, dest, dmax, Edit)
=============================================================================
