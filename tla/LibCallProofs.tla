--------------------------- MODULE LibCallProofs ---------------------------
(***************************************************************************)
(* The calls a program makes to the string library: the invariant that     *)
(* keeps what the arguments name within the memory, what each call leaves  *)
(* behind, and the properties of LibProperties for scenes of every size.   *)
(***************************************************************************)
EXTENDS LibProofs

(* The functions by what they do to the memory. *)
MemoryFunctions == MoveFunctions \cup CopyFunctions
SetFunctions == {"memset", "memzero", "memset16", "memzero16", "memset32", "memzero32", "wmemset"}
EditFunctions == {"strljustify", "strremovews"}
CaseFunctions == {"strzero", "strnterminate", "strtolowercase", "strtouppercase"}
ReadFunctions ==
    {"memcmp", "memcmp16", "memcmp32", "wmemcmp", "strnlen", "wcsnlen", "strcmp", "strcasecmp",
     "strcmpfld", "strfirstdiff", "strfirstsame", "strlastdiff", "strlastsame", "strprefix",
     "strfirstchar", "strlastchar", "strspn", "strcspn", "strpbrk", "strstr", "strcasestr",
     "strisalphanumeric", "strisascii", "strisdigit", "strishex", "strislowercase",
     "strismixedcase", "strisuppercase", "strispassword"}

CompareFunctions == {"memcmp", "memcmp16", "memcmp32", "wmemcmp", "strcmp", "strcasecmp"}
SearchFunctions == {"strstr", "strcasestr", "strpbrk", "strspn", "strcspn"}

(* What a scene is, as far as it does not speak of its memory. *)
UnitsFit ==
    /\ \A k, l \in scene.kinds \ {"handlers"} : k = l
    /\ scene.kinds \cap {"units16", "units32"} = {} => scene.unit = 1
    /\ "units16" \in scene.kinds => scene.unit = 2
    /\ "units32" \in scene.kinds => scene.unit = 4 /\ WCHAR_SIZE = 4

ArgumentsFit ==
    /\ scene.dests \subseteq Nat /\ scene.sources \subseteq Nat /\ scene.sizes \subseteq Nat
    /\ scene.lengths \subseteq Nat /\ scene.values \subseteq Nat
    /\ scene.text \in Nat /\ scene.library \in {"str", "mem"}

(* What the arguments of a scene name lies in its memory: the blocks of    *)
(* the memory functions, and the strings with the cell behind them; below  *)
(* every string to be trimmed lies a character that is no blank.           *)
Blocks(L) == \A p \in scene.sources, n \in scene.lengths : p # 0 => In(p, n * scene.unit, L)
Room(L) ==
    \A p \in scene.dests \cup scene.sources, n \in scene.sizes \cup scene.lengths :
        p # 0 /\ n <= RSIZE_MAX_STR => In(p, n + 1, L)
Floor(m, L) ==
    \E x \in 1..L : m[x] \notin Blanks /\ \A p \in scene.dests : p # 0 => x < p

(* Blocks to be compared, of units that a uint32_t can hold. *)
Comparable(m, L) ==
    /\ \A p \in scene.dests \cup scene.sources, n \in scene.sizes :
          p # 0 /\ n <= RSIZE_MAX_MEM => In(p, n, L)
    /\ \A a \in 1..L : m[a] < UINT32_SIZE

(* The text that is left to be cut runs from ptr to its terminator. *)
Rest(m, ptr, dmax) ==
    /\ ptr >= 1 /\ ptr + dmax = scene.text + 1
    /\ \A i \in ptr..scene.text : m[i] # 0
Cutting(m, L) ==
    /\ scene.text < L /\ m[scene.text + 1] = 0
    /\ call = NoCall => tok.dmax = scene.text /\ Rest(m, 1, tok.dmax)
    /\ call # NoCall /\ call.out # NULL /\ tok.dmax > 0 => Rest(m, tok.ptr, tok.dmax)

InMemory(m, L) ==
    /\ Memory(m, L)
    /\ \A p \in scene.dests : p <= L
    /\ scene.kinds \cap MemoryKinds # {} => Blocks(L)
    /\ scene.kinds \cap StringKinds # {} => Room(L)
    /\ "compare" \in scene.kinds => Comparable(m, L)
    /\ "edit" \in scene.kinds => Floor(m, L)
    /\ "tokens" \in scene.kinds => Cutting(m, L)

HandlersFit ==
    /\ handlers \in [{"str", "mem"} -> {NoHandler, DefaultHandler, UserHandler}]
    /\ call # NoCall => call.heard = <<>> \/ call.heard[1] \in {DefaultHandler, UserHandler}

TokFit ==
    /\ tok.dmax \in 0..scene.text /\ tok.ptr \in 0..(scene.text + 1)
    /\ {"ptr", "dmax", "tokens"} \subseteq DOMAIN tok

LibInv == UnitsFit /\ ArgumentsFit /\ HandlersFit /\ TokFit /\ \E L : InMemory(mem, L)

(* Every scene the model starts from satisfies the invariant. *)
LEMMA LibInvInit == Init => LibInv
<1> SUFFICES ASSUME Init PROVE LibInv
  OBVIOUS
<1>0. PICK s \in Scenes : \E m \in s.mems : /\ scene = [s EXCEPT !.mems = {}] /\ mem = m
                                            /\ tok = [string |-> [i \in 1..s.text |-> m[i]], ptr |-> NULL,
                                                      dmax |-> s.text, tokens |-> <<>>]
  BY DEF Init
<1>1. PICK m \in s.mems : /\ scene = [s EXCEPT !.mems = {}] /\ mem = m
                          /\ tok = [string |-> [i \in 1..s.text |-> m[i]], ptr |-> NULL,
                                    dmax |-> s.text, tokens |-> <<>>]
  BY <1>0
<1>2. /\ scene.kinds = s.kinds /\ scene.unit = s.unit /\ scene.dests = s.dests
      /\ scene.sources = s.sources /\ scene.sizes = s.sizes /\ scene.lengths = s.lengths
      /\ scene.values = s.values /\ scene.text = s.text /\ scene.library = s.library
  BY <1>1, ScenesAssumption
<1>3. tok.dmax = s.text /\ tok.ptr = 0 /\ call = NoCall /\ handlers = [str |-> NoHandler, mem |-> NoHandler]
  BY <1>1 DEF Init, NULL
<1>4. UnitsFit
  <2>1. /\ \A k, l \in s.kinds \ {"handlers"} : k = l
        /\ s.kinds \cap {"units16", "units32"} = {} => s.unit = 1
        /\ "units16" \in s.kinds => s.unit = 2
        /\ "units32" \in s.kinds => s.unit = 4 /\ WCHAR_SIZE = 4
    BY ScenesAssumption
  <2> QED
    BY <1>2, <2>1 DEF UnitsFit
<1>5. ArgumentsFit
  <2>1. /\ s.dests \cup s.sources \cup s.sizes \cup s.lengths \cup s.values \subseteq Nat
        /\ s.text \in Nat /\ s.library \in {"str", "mem"}
    BY ScenesAssumption
  <2> QED
    BY <1>2, <2>1 DEF ArgumentsFit
<1>6. HandlersFit
  BY <1>3 DEF HandlersFit
<1>7. TokFit
  <2>1. DOMAIN tok = {"string", "ptr", "dmax", "tokens"}
    BY <1>1
  <2>2. {"ptr", "dmax", "tokens"} \subseteq DOMAIN tok
    BY <2>1
  <2> QED
    BY <1>2, <1>3, <1>5, <2>2 DEF TokFit, ArgumentsFit
<1>8. m \in Seq(Nat)
  BY ScenesAssumption
<1>9. PICK L \in Nat : L = Len(m)
  BY <1>8
<1>10. Memory(m, L)
  BY <1>8, <1>9 DEF Memory
<1>11. \A p \in s.dests : p <= L
  <2>1. s.dests \subseteq {0} \cup (1..L)
    BY <1>9, ScenesAssumption DEF NULL
  <2> QED
    BY <1>9, <2>1
<1>12. ASSUME s.kinds \cap MemoryKinds # {} PROVE Blocks(L)
  <2>1. \A p \in s.sources \ {NULL}, n \in s.lengths : p + n * s.unit <= L + 1
    BY <1>9, <1>12, ScenesAssumption
  <2>2. s.unit \in Nat
    BY ScenesAssumption
  <2>3. s.sources \subseteq Nat /\ s.lengths \subseteq Nat
    BY <1>2, <1>5 DEF ArgumentsFit
  <2>4. ASSUME NEW p \in s.sources, NEW n \in s.lengths, p # 0 PROVE In(p, n * s.unit, L)
    BY <2>1, <2>2, <2>3, <2>4 DEF In, NULL
  <2> QED
    BY <1>2, <2>4 DEF Blocks
<1>13. ASSUME s.kinds \cap StringKinds # {} PROVE Room(L)
  <2>1. \A p \in (s.dests \cup s.sources) \ {NULL}, n \in s.sizes \cup s.lengths :
            n <= RSIZE_MAX_STR => p + n <= L
    BY <1>9, <1>13, ScenesAssumption
  <2>2. s.dests \cup s.sources \subseteq Nat /\ s.sizes \cup s.lengths \subseteq Nat
    BY <1>2, <1>5 DEF ArgumentsFit
  <2>3. ASSUME NEW p \in s.dests \cup s.sources, NEW n \in s.sizes \cup s.lengths, p # 0, n <= RSIZE_MAX_STR
        PROVE  In(p, n + 1, L)
    BY <1>9, <2>1, <2>2, <2>3 DEF In, NULL
  <2> QED
    BY <1>2, <2>3 DEF Room
<1>14. ASSUME "edit" \in s.kinds PROVE Floor(m, L)
  <2>1. \E x \in 1..L : m[x] \notin Blanks /\ \A p \in s.dests \ {NULL} : x < p
    BY <1>9, <1>14, ScenesAssumption
  <2> QED
    BY <1>2, <2>1 DEF Floor, NULL
<1>15. ASSUME "tokens" \in s.kinds PROVE Cutting(m, L)
  <2>1. s.text < L /\ m[s.text + 1] = 0 /\ \A i \in 1..s.text : m[i] # 0
    BY <1>9, <1>15, ScenesAssumption
  <2>2. Rest(m, 1, tok.dmax)
    BY <1>2, <1>3, <1>5, <2>1 DEF Rest, ArgumentsFit
  <2> QED
    BY <1>2, <1>3, <2>1, <2>2 DEF Cutting
<1>16. ASSUME "compare" \in s.kinds PROVE Comparable(m, L)
  <2>1. /\ \A p \in (s.dests \cup s.sources) \ {NULL}, n \in s.sizes :
              n <= RSIZE_MAX_MEM => p + n <= L + 1
        /\ \A a \in 1..L : m[a] < UINT32_SIZE
    BY <1>9, <1>16, ScenesAssumption
  <2>2. s.dests \cup s.sources \subseteq Nat /\ s.sizes \subseteq Nat
    BY <1>2, <1>5 DEF ArgumentsFit
  <2>3. ASSUME NEW p \in s.dests \cup s.sources, NEW n \in s.sizes, p # 0, n <= RSIZE_MAX_MEM
        PROVE  In(p, n, L)
    BY <1>9, <2>1, <2>2, <2>3 DEF In, NULL
  <2> QED
    BY <1>2, <2>1, <2>3 DEF Comparable
<1>17. InMemory(m, L)
  BY <1>2, <1>10, <1>11, <1>12, <1>13, <1>14, <1>15, <1>16 DEF InMemory
<1> QED
  BY <1>1, <1>4, <1>5, <1>6, <1>7, <1>17 DEF LibInv

-----------------------------------------------------------------------------
(* A call by what its function does. *)
BlockCall(L) ==
    \E fn \in MemoryFunctions, dest \in scene.dests, dmax \in scene.sizes, src \in scene.sources,
       slen \in scene.lengths : \E r :
        /\ Call(fn, dest, dmax, src, slen, r)
        /\ Transfers(r, mem, L, dest, src, slen * scene.unit, dmax * scene.unit)
        /\ fn \in CopyFunctions /\ r.err = "EOK" =>
              slen <= dmax /\ ~Overlap(dest, dmax, src, slen, scene.unit)

SetCall(L) ==
    \E fn \in SetFunctions, dest \in scene.dests, dmax \in scene.sizes, value \in Nat : \E src, slen, r :
        /\ Call(fn, dest, dmax, src, slen, r)
        /\ r.mem = mem \/ r.mem = Fill(mem, dest, dmax * scene.unit, value)

StringCall(L) ==
    \E fn \in StringCopies \cup StringAppends, dest \in scene.dests, dmax \in scene.sizes,
       src \in scene.sources, slen \in scene.lengths \cup {NoLimit} : \E r :
        /\ Call(fn, dest, dmax, src, slen, r) /\ Strings(mem, L, dest, dmax, src)
        /\ StringDone(r, mem, L, dest, dmax, CharSize(fn), src, slen, fn \in StringAppends)

FieldCall(L) ==
    \E fn \in FieldFunctions, dest \in scene.dests, dmax \in scene.sizes, src \in scene.sources,
       slen \in scene.lengths : \E r :
        /\ Call(fn, dest, dmax, src, slen, r)
        /\ FieldDone(r, fn, mem, L, dest, dmax, src, slen)

PaddedCall(L) ==
    \E dest \in scene.dests, dmax \in scene.sizes, src \in scene.sources, slen \in scene.lengths : \E r :
        /\ Call("stpncpy", dest, dmax, src, slen, r)
        /\ PaddedDone(r, mem, L, dest, dmax, src, slen)

EditCall(L) ==
    \E fn \in EditFunctions, dest \in scene.dests, dmax \in scene.sizes : \E src, slen, r :
        /\ Call(fn, dest, dmax, src, slen, r)
        /\ fn = "strljustify" => JustifyDone(r, mem, L, dest, dmax)
        /\ fn = "strremovews" => RemoveDone(r, mem, L, dest, dmax)

CaseCall(L) ==
    \E fn \in CaseFunctions, dest \in scene.dests, dmax \in scene.sizes : \E src, slen, r :
        /\ Call(fn, dest, dmax, src, slen, r)
        /\ Kept(r, mem, L, dest, dmax)

(* What a comparison or a search returns. *)
ReadDone(fn, r, m, dest, dmax, src, slen) ==
    /\ fn \in CompareFunctions \cup SearchFunctions =>
          dest \in scene.dests /\ dmax \in scene.sizes /\ src \in scene.sources
    /\ fn \in {"memcmp", "memcmp16", "memcmp32", "wmemcmp"} =>
          slen \in scene.lengths /\ "compare" \in scene.kinds
    /\ fn \in SearchFunctions => slen \in scene.lengths /\ "scan" \in scene.kinds
    /\ fn = "memcmp" => r = safe_memcmp(m, dest, dmax, src, slen)
    /\ fn = "memcmp16" => r = safe_memcmp16(m, dest, dmax, src, slen)
    /\ fn = "memcmp32" => r = safe_memcmp32(m, dest, dmax, src, slen)
    /\ fn = "wmemcmp" => r = safe_wmemcmp(m, dest, dmax, src, slen)
    /\ fn = "strcmp" => r = safe_strcmp(m, dest, dmax, src)
    /\ fn = "strcasecmp" => r = safe_strcasecmp(m, dest, dmax, src)
    /\ fn = "strspn" => r = safe_strspn(m, dest, dmax, src, slen)
    /\ fn = "strcspn" => r = safe_strcspn(m, dest, dmax, src, slen)
    /\ fn = "strpbrk" => r = safe_strpbrk(m, dest, dmax, src, slen)
    /\ fn = "strstr" => r = safe_strstr(m, dest, dmax, src, slen)
    /\ fn = "strcasestr" => r = safe_strcasestr(m, dest, dmax, src, slen)

ReadCall ==
    \E fn \in ReadFunctions : \E dest, dmax, src, slen, r :
        /\ Call(fn, dest, dmax, src, slen, r) /\ r.mem = mem
        /\ ReadDone(fn, r, mem, dest, dmax, src, slen)

(* Strings of a scene of string functions. *)
LEMMA SceneStrings ==
    ASSUME LibInv, NEW L, InMemory(mem, L), scene.kinds \cap StringKinds # {},
           NEW dest \in scene.dests, NEW dmax \in scene.sizes
    PROVE  /\ Strings(mem, L, dest, dmax, 0)
           /\ \A src \in scene.sources : Strings(mem, L, dest, dmax, src)
<1>1. Memory(mem, L) /\ Room(L) /\ dest <= L
  BY DEF InMemory
<1>2. dest \in Nat /\ dmax \in Nat /\ scene.sources \subseteq Nat
  BY DEF LibInv, ArgumentsFit
<1>3. dmax <= RSIZE_MAX_STR => /\ dest # 0 => In(dest, dmax + 1, L)
                               /\ \A src \in scene.sources : src # 0 => In(src, dmax + 1, L)
  BY <1>1 DEF Room
<1> QED
  BY <1>1, <1>2, <1>3 DEF Strings

Calls_copy ==
    \/ strcpy \/ wcscpy \/ stpcpy \/ wcpcpy \/ strncpy \/ wcsncpy
    \/ strcat \/ wcscat \/ strncat \/ wcsncat \/ strcpyfld \/ strcpyfldin
    \/ strcpyfldout \/ stpncpy

(* Every call of a function that copies or appends strings. *)
LEMMA Made_copy ==
    ASSUME LibInv, NEW L, InMemory(mem, L), Calls_copy
    PROVE  StringCall(L) \/ FieldCall(L) \/ PaddedCall(L)
<1>0. 1 \in Nat \ {0} /\ WCHAR_SIZE \in Nat \ {0} /\ NoLimit \in Int /\ scene.lengths \subseteq Nat
  BY SafeLibAssumption DEF NoLimit, LibInv, ArgumentsFit
<1>1. ASSUME strcpy PROVE StringCall(L)
  <2>1. "copy" \in scene.kinds
    BY <1>1 DEF strcpy, OnStrings, Ready
  <2>2. PICK dest \in scene.dests, dmax \in scene.sizes, src \in scene.sources :
            Call("strcpy", dest, dmax, src, NoLimit, safe_strcpy(mem, dest, dmax, src))
    BY <1>1 DEF strcpy, OnStrings
  <2>3. Strings(mem, L, dest, dmax, src)
    BY <2>1, SceneStrings DEF StringKinds
  <2>4. PICK r : r = safe_strcpy(mem, dest, dmax, src)
    OBVIOUS
  <2>5. StringDone(r, mem, L, dest, dmax, 1, src, NoLimit, FALSE)
    BY <2>3, <2>4, strcpyDoes
  <2>6. "strcpy" \in StringCopies \cup StringAppends /\ CharSize("strcpy") = 1
        /\ ("strcpy" \in StringAppends) = FALSE
    BY DEF StringCopies, StringAppends, WideFunctions, CharSize
  <2>7. StringDone(r, mem, L, dest, dmax, CharSize("strcpy"), src, NoLimit, "strcpy" \in StringAppends)
    BY <2>5, <2>6
  <2> QED
    BY <2>2, <2>3, <2>4, <2>6, <2>7 DEF StringCall
<1>2. ASSUME wcscpy PROVE StringCall(L)
  <2>1. "copy" \in scene.kinds
    BY <1>2 DEF wcscpy, OnStrings, Ready
  <2>2. PICK dest \in scene.dests, dmax \in scene.sizes, src \in scene.sources :
            Call("wcscpy", dest, dmax, src, NoLimit, safe_wcscpy(mem, dest, dmax, src))
    BY <1>2 DEF wcscpy, OnStrings
  <2>3. Strings(mem, L, dest, dmax, src)
    BY <2>1, SceneStrings DEF StringKinds
  <2>4. PICK r : r = safe_wcscpy(mem, dest, dmax, src)
    OBVIOUS
  <2>5. StringDone(r, mem, L, dest, dmax, WCHAR_SIZE, src, NoLimit, FALSE)
    BY <2>3, <2>4, wcscpyDoes
  <2>6. "wcscpy" \in StringCopies \cup StringAppends /\ CharSize("wcscpy") = WCHAR_SIZE
        /\ ("wcscpy" \in StringAppends) = FALSE
    BY DEF StringCopies, StringAppends, WideFunctions, CharSize
  <2>7. StringDone(r, mem, L, dest, dmax, CharSize("wcscpy"), src, NoLimit, "wcscpy" \in StringAppends)
    BY <2>5, <2>6
  <2> QED
    BY <2>2, <2>3, <2>4, <2>6, <2>7 DEF StringCall
<1>3. ASSUME stpcpy PROVE StringCall(L)
  <2>1. "copy" \in scene.kinds
    BY <1>3 DEF stpcpy, OnStrings, Ready
  <2>2. PICK dest \in scene.dests, dmax \in scene.sizes, src \in scene.sources :
            Call("stpcpy", dest, dmax, src, NoLimit, safe_stpcpy(mem, dest, dmax, src))
    BY <1>3 DEF stpcpy, OnStrings
  <2>3. Strings(mem, L, dest, dmax, src)
    BY <2>1, SceneStrings DEF StringKinds
  <2>4. PICK r : r = safe_stpcpy(mem, dest, dmax, src)
    OBVIOUS
  <2>5. StringDone(r, mem, L, dest, dmax, 1, src, NoLimit, FALSE)
    BY <2>3, <2>4, stpcpyDoes
  <2>6. "stpcpy" \in StringCopies \cup StringAppends /\ CharSize("stpcpy") = 1
        /\ ("stpcpy" \in StringAppends) = FALSE
    BY DEF StringCopies, StringAppends, WideFunctions, CharSize
  <2>7. StringDone(r, mem, L, dest, dmax, CharSize("stpcpy"), src, NoLimit, "stpcpy" \in StringAppends)
    BY <2>5, <2>6
  <2> QED
    BY <2>2, <2>3, <2>4, <2>6, <2>7 DEF StringCall
<1>4. ASSUME wcpcpy PROVE StringCall(L)
  <2>1. "copy" \in scene.kinds
    BY <1>4 DEF wcpcpy, OnStrings, Ready
  <2>2. PICK dest \in scene.dests, dmax \in scene.sizes, src \in scene.sources :
            Call("wcpcpy", dest, dmax, src, NoLimit, safe_wcpcpy(mem, dest, dmax, src))
    BY <1>4 DEF wcpcpy, OnStrings
  <2>3. Strings(mem, L, dest, dmax, src)
    BY <2>1, SceneStrings DEF StringKinds
  <2>4. PICK r : r = safe_wcpcpy(mem, dest, dmax, src)
    OBVIOUS
  <2>5. StringDone(r, mem, L, dest, dmax, WCHAR_SIZE, src, NoLimit, FALSE)
    BY <2>3, <2>4, wcpcpyDoes
  <2>6. "wcpcpy" \in StringCopies \cup StringAppends /\ CharSize("wcpcpy") = WCHAR_SIZE
        /\ ("wcpcpy" \in StringAppends) = FALSE
    BY DEF StringCopies, StringAppends, WideFunctions, CharSize
  <2>7. StringDone(r, mem, L, dest, dmax, CharSize("wcpcpy"), src, NoLimit, "wcpcpy" \in StringAppends)
    BY <2>5, <2>6
  <2> QED
    BY <2>2, <2>3, <2>4, <2>6, <2>7 DEF StringCall
<1>5. ASSUME strncpy PROVE StringCall(L)
  <2>1. "copy" \in scene.kinds
    BY <1>5 DEF strncpy, OnBlocks, Ready
  <2>2. PICK dest \in scene.dests, dmax \in scene.sizes, src \in scene.sources, slen \in scene.lengths :
            Call("strncpy", dest, dmax, src, slen, safe_strncpy(mem, dest, dmax, src, slen))
    BY <1>5 DEF strncpy, OnBlocks
  <2>3. Strings(mem, L, dest, dmax, src)
    BY <2>1, SceneStrings DEF StringKinds
  <2>4. PICK r : r = safe_strncpy(mem, dest, dmax, src, slen)
    OBVIOUS
  <2>5. StringDone(r, mem, L, dest, dmax, 1, src, slen, FALSE)
    BY <1>0, <2>3, <2>4, CopyAtMostDoes DEF safe_strncpy
  <2>6. "strncpy" \in StringCopies \cup StringAppends /\ CharSize("strncpy") = 1
        /\ ("strncpy" \in StringAppends) = FALSE
    BY DEF StringCopies, StringAppends, WideFunctions, CharSize
  <2>7. StringDone(r, mem, L, dest, dmax, CharSize("strncpy"), src, slen, "strncpy" \in StringAppends)
    BY <2>5, <2>6
  <2> QED
    BY <2>2, <2>3, <2>4, <2>6, <2>7 DEF StringCall
<1>6. ASSUME wcsncpy PROVE StringCall(L)
  <2>1. "copy" \in scene.kinds
    BY <1>6 DEF wcsncpy, OnBlocks, Ready
  <2>2. PICK dest \in scene.dests, dmax \in scene.sizes, src \in scene.sources, slen \in scene.lengths :
            Call("wcsncpy", dest, dmax, src, slen, safe_wcsncpy(mem, dest, dmax, src, slen))
    BY <1>6 DEF wcsncpy, OnBlocks
  <2>3. Strings(mem, L, dest, dmax, src)
    BY <2>1, SceneStrings DEF StringKinds
  <2>4. PICK r : r = safe_wcsncpy(mem, dest, dmax, src, slen)
    OBVIOUS
  <2>5. StringDone(r, mem, L, dest, dmax, WCHAR_SIZE, src, slen, FALSE)
    BY <1>0, <2>3, <2>4, CopyAtMostDoes DEF safe_wcsncpy
  <2>6. "wcsncpy" \in StringCopies \cup StringAppends /\ CharSize("wcsncpy") = WCHAR_SIZE
        /\ ("wcsncpy" \in StringAppends) = FALSE
    BY DEF StringCopies, StringAppends, WideFunctions, CharSize
  <2>7. StringDone(r, mem, L, dest, dmax, CharSize("wcsncpy"), src, slen, "wcsncpy" \in StringAppends)
    BY <2>5, <2>6
  <2> QED
    BY <2>2, <2>3, <2>4, <2>6, <2>7 DEF StringCall
<1>7. ASSUME strcat PROVE StringCall(L)
  <2>1. "copy" \in scene.kinds
    BY <1>7 DEF strcat, OnStrings, Ready
  <2>2. PICK dest \in scene.dests, dmax \in scene.sizes, src \in scene.sources :
            Call("strcat", dest, dmax, src, NoLimit, safe_strcat(mem, dest, dmax, src))
    BY <1>7 DEF strcat, OnStrings
  <2>3. Strings(mem, L, dest, dmax, src)
    BY <2>1, SceneStrings DEF StringKinds
  <2>4. PICK r : r = safe_strcat(mem, dest, dmax, src)
    OBVIOUS
  <2>5. StringDone(r, mem, L, dest, dmax, 1, src, NoLimit, TRUE)
    BY <1>0, <2>3, <2>4, AppendAtMostDoes DEF safe_strcat
  <2>6. "strcat" \in StringCopies \cup StringAppends /\ CharSize("strcat") = 1
        /\ ("strcat" \in StringAppends) = TRUE
    BY DEF StringCopies, StringAppends, WideFunctions, CharSize
  <2>7. StringDone(r, mem, L, dest, dmax, CharSize("strcat"), src, NoLimit, "strcat" \in StringAppends)
    BY <2>5, <2>6
  <2> QED
    BY <2>2, <2>3, <2>4, <2>6, <2>7 DEF StringCall
<1>8. ASSUME wcscat PROVE StringCall(L)
  <2>1. "copy" \in scene.kinds
    BY <1>8 DEF wcscat, OnStrings, Ready
  <2>2. PICK dest \in scene.dests, dmax \in scene.sizes, src \in scene.sources :
            Call("wcscat", dest, dmax, src, NoLimit, safe_wcscat(mem, dest, dmax, src))
    BY <1>8 DEF wcscat, OnStrings
  <2>3. Strings(mem, L, dest, dmax, src)
    BY <2>1, SceneStrings DEF StringKinds
  <2>4. PICK r : r = safe_wcscat(mem, dest, dmax, src)
    OBVIOUS
  <2>5. StringDone(r, mem, L, dest, dmax, WCHAR_SIZE, src, NoLimit, TRUE)
    BY <1>0, <2>3, <2>4, AppendAtMostDoes DEF safe_wcscat
  <2>6. "wcscat" \in StringCopies \cup StringAppends /\ CharSize("wcscat") = WCHAR_SIZE
        /\ ("wcscat" \in StringAppends) = TRUE
    BY DEF StringCopies, StringAppends, WideFunctions, CharSize
  <2>7. StringDone(r, mem, L, dest, dmax, CharSize("wcscat"), src, NoLimit, "wcscat" \in StringAppends)
    BY <2>5, <2>6
  <2> QED
    BY <2>2, <2>3, <2>4, <2>6, <2>7 DEF StringCall
<1>9. ASSUME strncat PROVE StringCall(L)
  <2>1. "copy" \in scene.kinds
    BY <1>9 DEF strncat, OnBlocks, Ready
  <2>2. PICK dest \in scene.dests, dmax \in scene.sizes, src \in scene.sources, slen \in scene.lengths :
            Call("strncat", dest, dmax, src, slen, safe_strncat(mem, dest, dmax, src, slen))
    BY <1>9 DEF strncat, OnBlocks
  <2>3. Strings(mem, L, dest, dmax, src)
    BY <2>1, SceneStrings DEF StringKinds
  <2>4. PICK r : r = safe_strncat(mem, dest, dmax, src, slen)
    OBVIOUS
  <2>5. StringDone(r, mem, L, dest, dmax, 1, src, slen, TRUE)
    <3>1. slen \in Int /\ slen >= 0
      BY <1>0
    <3> QED
      BY <1>0, <3>1, <2>3, <2>4, AppendAtMostDoes DEF safe_strncat
  <2>6. "strncat" \in StringCopies \cup StringAppends /\ CharSize("strncat") = 1
        /\ ("strncat" \in StringAppends) = TRUE
    BY DEF StringCopies, StringAppends, WideFunctions, CharSize
  <2>7. StringDone(r, mem, L, dest, dmax, CharSize("strncat"), src, slen, "strncat" \in StringAppends)
    BY <2>5, <2>6
  <2> QED
    BY <2>2, <2>3, <2>4, <2>6, <2>7 DEF StringCall
<1>10. ASSUME wcsncat PROVE StringCall(L)
  <2>1. "copy" \in scene.kinds
    BY <1>10 DEF wcsncat, OnBlocks, Ready
  <2>2. PICK dest \in scene.dests, dmax \in scene.sizes, src \in scene.sources, slen \in scene.lengths :
            Call("wcsncat", dest, dmax, src, slen, safe_wcsncat(mem, dest, dmax, src, slen))
    BY <1>10 DEF wcsncat, OnBlocks
  <2>3. Strings(mem, L, dest, dmax, src)
    BY <2>1, SceneStrings DEF StringKinds
  <2>4. PICK r : r = safe_wcsncat(mem, dest, dmax, src, slen)
    OBVIOUS
  <2>5. StringDone(r, mem, L, dest, dmax, WCHAR_SIZE, src, slen, TRUE)
    <3>1. slen \in Int /\ slen >= 0
      BY <1>0
    <3> QED
      BY <1>0, <3>1, <2>3, <2>4, AppendAtMostDoes DEF safe_wcsncat
  <2>6. "wcsncat" \in StringCopies \cup StringAppends /\ CharSize("wcsncat") = WCHAR_SIZE
        /\ ("wcsncat" \in StringAppends) = TRUE
    BY DEF StringCopies, StringAppends, WideFunctions, CharSize
  <2>7. StringDone(r, mem, L, dest, dmax, CharSize("wcsncat"), src, slen, "wcsncat" \in StringAppends)
    BY <2>5, <2>6
  <2> QED
    BY <2>2, <2>3, <2>4, <2>6, <2>7 DEF StringCall
<1>11. ASSUME strcpyfld PROVE FieldCall(L)
  <2>1. "copy" \in scene.kinds
    BY <1>11 DEF strcpyfld, OnBlocks, Ready
  <2>2. PICK dest \in scene.dests, dmax \in scene.sizes, src \in scene.sources, slen \in scene.lengths :
            Call("strcpyfld", dest, dmax, src, slen, safe_strcpyfld(mem, dest, dmax, src, slen))
    BY <1>11 DEF strcpyfld, OnBlocks
  <2>3. Strings(mem, L, dest, dmax, src)
    BY <2>1, SceneStrings DEF StringKinds
  <2>4. PICK r : r = safe_strcpyfld(mem, dest, dmax, src, slen)
    OBVIOUS
  <2>5. FieldDone(r, "strcpyfld", mem, L, dest, dmax, src, slen)
    <3>1. slen \in Nat /\ "strcpyfld" \in FieldFunctions
      BY <1>0 DEF FieldFunctions
    <3> QED
      BY <2>3, <2>4, <3>1, CopyFieldDoes DEF safe_strcpyfld
  <2> QED
    BY <2>2, <2>4, <2>5 DEF FieldCall, FieldFunctions
<1>12. ASSUME strcpyfldin PROVE FieldCall(L)
  <2>1. "copy" \in scene.kinds
    BY <1>12 DEF strcpyfldin, OnBlocks, Ready
  <2>2. PICK dest \in scene.dests, dmax \in scene.sizes, src \in scene.sources, slen \in scene.lengths :
            Call("strcpyfldin", dest, dmax, src, slen, safe_strcpyfldin(mem, dest, dmax, src, slen))
    BY <1>12 DEF strcpyfldin, OnBlocks
  <2>3. Strings(mem, L, dest, dmax, src)
    BY <2>1, SceneStrings DEF StringKinds
  <2>4. PICK r : r = safe_strcpyfldin(mem, dest, dmax, src, slen)
    OBVIOUS
  <2>5. FieldDone(r, "strcpyfldin", mem, L, dest, dmax, src, slen)
    <3>1. slen \in Nat /\ "strcpyfldin" \in FieldFunctions
      BY <1>0 DEF FieldFunctions
    <3> QED
      BY <2>3, <2>4, <3>1, CopyFieldDoes DEF safe_strcpyfldin
  <2> QED
    BY <2>2, <2>4, <2>5 DEF FieldCall, FieldFunctions
<1>13. ASSUME strcpyfldout PROVE FieldCall(L)
  <2>1. "copy" \in scene.kinds
    BY <1>13 DEF strcpyfldout, OnBlocks, Ready
  <2>2. PICK dest \in scene.dests, dmax \in scene.sizes, src \in scene.sources, slen \in scene.lengths :
            Call("strcpyfldout", dest, dmax, src, slen, safe_strcpyfldout(mem, dest, dmax, src, slen))
    BY <1>13 DEF strcpyfldout, OnBlocks
  <2>3. Strings(mem, L, dest, dmax, src)
    BY <2>1, SceneStrings DEF StringKinds
  <2>4. PICK r : r = safe_strcpyfldout(mem, dest, dmax, src, slen)
    OBVIOUS
  <2>5. FieldDone(r, "strcpyfldout", mem, L, dest, dmax, src, slen)
    <3>1. slen \in Nat /\ "strcpyfldout" \in FieldFunctions
      BY <1>0 DEF FieldFunctions
    <3> QED
      BY <2>3, <2>4, <3>1, CopyFieldDoes DEF safe_strcpyfldout
  <2> QED
    BY <2>2, <2>4, <2>5 DEF FieldCall, FieldFunctions
<1>14. ASSUME stpncpy PROVE PaddedCall(L)
  <2>1. "copy" \in scene.kinds
    BY <1>14 DEF stpncpy, OnBlocks, Ready
  <2>2. PICK dest \in scene.dests, dmax \in scene.sizes, src \in scene.sources, slen \in scene.lengths :
            Call("stpncpy", dest, dmax, src, slen, safe_stpncpy(mem, dest, dmax, src, slen))
    BY <1>14 DEF stpncpy, OnBlocks
  <2>3. Strings(mem, L, dest, dmax, src)
    BY <2>1, SceneStrings DEF StringKinds
  <2>4. PICK r : r = safe_stpncpy(mem, dest, dmax, src, slen)
    OBVIOUS
  <2>5. slen = 0 => dest # src
    BY <1>14, <2>2 DEF stpncpy, Call
  <2>6. slen <= RSIZE_MAX_STR /\ src # 0 => In(src, slen + 1, L)
    BY <2>1 DEF InMemory, Room, StringKinds
  <2>7. PaddedDone(r, mem, L, dest, dmax, src, slen)
    BY <1>0, <2>3, <2>4, <2>5, <2>6, stpncpyDoes
  <2> QED
    BY <2>2, <2>4, <2>7 DEF PaddedCall
<1> QED
  BY <1>1, <1>2, <1>3, <1>4, <1>5, <1>6, <1>7, <1>8, <1>9, <1>10, <1>11, <1>12, <1>13, <1>14 DEF Calls_copy

Calls_edit ==
    \/ strzero \/ strnterminate \/ strtolowercase \/ strtouppercase \/ strljustify \/ strremovews

(* Every call of a function that edits a string in place. *)
LEMMA Made_edit ==
    ASSUME LibInv, NEW L, InMemory(mem, L), Calls_edit
    PROVE  EditCall(L) \/ CaseCall(L)
<1>1. ASSUME strzero PROVE CaseCall(L)
  <2>1. "edit" \in scene.kinds
    BY <1>1 DEF strzero, OnDest, Ready
  <2>2. PICK dest \in scene.dests, dmax \in scene.sizes :
            Call("strzero", dest, dmax, NULL, 0, safe_strzero(mem, dest, dmax))
    BY <1>1 DEF strzero, OnDest
  <2>3. Strings(mem, L, dest, dmax, 0)
    BY <2>1, SceneStrings DEF StringKinds
  <2>4. PICK r : r = safe_strzero(mem, dest, dmax)
    OBVIOUS
  <2>5. Kept(r, mem, L, dest, dmax)
    BY <2>3, <2>4, strzeroDoes
  <2> QED
    BY <2>2, <2>4, <2>5 DEF CaseCall, CaseFunctions
<1>2. ASSUME strnterminate PROVE CaseCall(L)
  <2>1. "edit" \in scene.kinds
    BY <1>2 DEF strnterminate, OnDest, Ready
  <2>2. PICK dest \in scene.dests, dmax \in scene.sizes :
            Call("strnterminate", dest, dmax, NULL, 0, safe_strnterminate(mem, dest, dmax))
    BY <1>2 DEF strnterminate, OnDest
  <2>3. Strings(mem, L, dest, dmax, 0)
    BY <2>1, SceneStrings DEF StringKinds
  <2>4. PICK r : r = safe_strnterminate(mem, dest, dmax)
    OBVIOUS
  <2>5. Kept(r, mem, L, dest, dmax)
    BY <2>3, <2>4, strnterminateDoes
  <2> QED
    BY <2>2, <2>4, <2>5 DEF CaseCall, CaseFunctions
<1>3. ASSUME strtolowercase PROVE CaseCall(L)
  <2>1. "edit" \in scene.kinds
    BY <1>3 DEF strtolowercase, OnDest, Ready
  <2>2. PICK dest \in scene.dests, dmax \in scene.sizes :
            Call("strtolowercase", dest, dmax, NULL, 0, safe_strtolowercase(mem, dest, dmax))
    BY <1>3 DEF strtolowercase, OnDest
  <2>3. Strings(mem, L, dest, dmax, 0)
    BY <2>1, SceneStrings DEF StringKinds
  <2>4. PICK r : r = safe_strtolowercase(mem, dest, dmax)
    OBVIOUS
  <2>5. Kept(r, mem, L, dest, dmax)
    BY <2>3, <2>4, strtolowercaseDoes
  <2> QED
    BY <2>2, <2>4, <2>5 DEF CaseCall, CaseFunctions
<1>4. ASSUME strtouppercase PROVE CaseCall(L)
  <2>1. "edit" \in scene.kinds
    BY <1>4 DEF strtouppercase, OnDest, Ready
  <2>2. PICK dest \in scene.dests, dmax \in scene.sizes :
            Call("strtouppercase", dest, dmax, NULL, 0, safe_strtouppercase(mem, dest, dmax))
    BY <1>4 DEF strtouppercase, OnDest
  <2>3. Strings(mem, L, dest, dmax, 0)
    BY <2>1, SceneStrings DEF StringKinds
  <2>4. PICK r : r = safe_strtouppercase(mem, dest, dmax)
    OBVIOUS
  <2>5. Kept(r, mem, L, dest, dmax)
    BY <2>3, <2>4, strtouppercaseDoes
  <2> QED
    BY <2>2, <2>4, <2>5 DEF CaseCall, CaseFunctions
<1>5. ASSUME strljustify PROVE EditCall(L)
  <2>1. "edit" \in scene.kinds
    BY <1>5 DEF strljustify, OnDest, Ready
  <2>2. PICK dest \in scene.dests, dmax \in scene.sizes :
            Call("strljustify", dest, dmax, NULL, 0, safe_strljustify(mem, dest, dmax))
    BY <1>5 DEF strljustify, OnDest
  <2>3. Strings(mem, L, dest, dmax, 0)
    BY <2>1, SceneStrings DEF StringKinds
  <2>4. PICK r : r = safe_strljustify(mem, dest, dmax)
    OBVIOUS
  <2>5. JustifyDone(r, mem, L, dest, dmax)
    BY <2>3, <2>4, strljustifyDoes
  <2> QED
    BY <2>2, <2>4, <2>5 DEF EditCall, EditFunctions
<1>6. ASSUME strremovews PROVE EditCall(L)
  <2>1. "edit" \in scene.kinds
    BY <1>6 DEF strremovews, OnDest, Ready
  <2>2. PICK dest \in scene.dests, dmax \in scene.sizes :
            Call("strremovews", dest, dmax, NULL, 0, safe_strremovews(mem, dest, dmax))
    BY <1>6 DEF strremovews, OnDest
  <2>3. Strings(mem, L, dest, dmax, 0)
    BY <2>1, SceneStrings DEF StringKinds
  <2>4. PICK r : r = safe_strremovews(mem, dest, dmax)
    OBVIOUS
  <2>6. dest # 0 => \E x \in 1..(dest - 1) : mem[x] \notin Blanks
    <3>1. PICK x \in 1..L : mem[x] \notin Blanks /\ \A p \in scene.dests : p # 0 => x < p
      BY <2>1 DEF InMemory, Floor
    <3>2. dest \in Nat
      BY DEF LibInv, ArgumentsFit
    <3>3. dest # 0 => x \in 1..(dest - 1)
      BY <3>1, <3>2
    <3> QED
      BY <3>1, <3>3
  <2>5. RemoveDone(r, mem, L, dest, dmax)
    BY <2>3, <2>4, <2>6, strremovewsDoes
  <2> QED
    BY <2>2, <2>4, <2>5 DEF EditCall, EditFunctions
<1> QED
  BY <1>1, <1>2, <1>3, <1>4, <1>5, <1>6 DEF Calls_edit

Calls_read ==
    \/ memcmp \/ memcmp16 \/ memcmp32 \/ wmemcmp \/ strnlen \/ wcsnlen
    \/ strisalphanumeric \/ strisascii \/ strisdigit \/ strishex \/ strislowercase \/ strismixedcase
    \/ strisuppercase \/ strispassword \/ strcmp \/ strcasecmp \/ strcmpfld \/ strfirstdiff
    \/ strfirstsame \/ strlastdiff \/ strlastsame \/ strprefix \/ strfirstchar \/ strlastchar
    \/ strspn \/ strcspn \/ strpbrk \/ strstr \/ strcasestr

(* Every call of a function that compares, searches, counts or classifies. *)
LEMMA Made_read ==
    ASSUME Calls_read
    PROVE  ReadCall
<1>1. ASSUME memcmp PROVE ReadCall
  <2>1. "compare" \in scene.kinds
    BY <1>1 DEF memcmp, OnBlocks, Ready
  <2>2. PICK dest \in scene.dests, dmax \in scene.sizes,
             src \in scene.sources, slen \in scene.lengths :
            Call("memcmp", dest, dmax, src, slen, safe_memcmp(mem, dest, dmax, src, slen))
    BY <1>1 DEF memcmp, OnBlocks
  <2>3. PICK r : r = safe_memcmp(mem, dest, dmax, src, slen)
    OBVIOUS
  <2>4. r.mem = mem
    BY <2>3, ComparesRead
  <2>5. ReadDone("memcmp", r, mem, dest, dmax, src, slen)
    BY <2>1, <2>3 DEF ReadDone, CompareFunctions, SearchFunctions
  <2>6. "memcmp" \in ReadFunctions
    BY DEF ReadFunctions
  <2> QED
    BY <2>2, <2>3, <2>4, <2>5, <2>6 DEF ReadCall
<1>2. ASSUME memcmp16 PROVE ReadCall
  <2>1. "compare" \in scene.kinds
    BY <1>2 DEF memcmp16, OnBlocks, Ready
  <2>2. PICK dest \in scene.dests, dmax \in scene.sizes,
             src \in scene.sources, slen \in scene.lengths :
            Call("memcmp16", dest, dmax, src, slen, safe_memcmp16(mem, dest, dmax, src, slen))
    BY <1>2 DEF memcmp16, OnBlocks
  <2>3. PICK r : r = safe_memcmp16(mem, dest, dmax, src, slen)
    OBVIOUS
  <2>4. r.mem = mem
    BY <2>3, ComparesRead
  <2>5. ReadDone("memcmp16", r, mem, dest, dmax, src, slen)
    BY <2>1, <2>3 DEF ReadDone, CompareFunctions, SearchFunctions
  <2>6. "memcmp16" \in ReadFunctions
    BY DEF ReadFunctions
  <2> QED
    BY <2>2, <2>3, <2>4, <2>5, <2>6 DEF ReadCall
<1>3. ASSUME memcmp32 PROVE ReadCall
  <2>1. "compare" \in scene.kinds
    BY <1>3 DEF memcmp32, OnBlocks, Ready
  <2>2. PICK dest \in scene.dests, dmax \in scene.sizes,
             src \in scene.sources, slen \in scene.lengths :
            Call("memcmp32", dest, dmax, src, slen, safe_memcmp32(mem, dest, dmax, src, slen))
    BY <1>3 DEF memcmp32, OnBlocks
  <2>3. PICK r : r = safe_memcmp32(mem, dest, dmax, src, slen)
    OBVIOUS
  <2>4. r.mem = mem
    BY <2>3, ComparesRead
  <2>5. ReadDone("memcmp32", r, mem, dest, dmax, src, slen)
    BY <2>1, <2>3 DEF ReadDone, CompareFunctions, SearchFunctions
  <2>6. "memcmp32" \in ReadFunctions
    BY DEF ReadFunctions
  <2> QED
    BY <2>2, <2>3, <2>4, <2>5, <2>6 DEF ReadCall
<1>4. ASSUME wmemcmp PROVE ReadCall
  <2>1. "compare" \in scene.kinds
    BY <1>4 DEF wmemcmp, OnBlocks, Ready
  <2>2. PICK dest \in scene.dests, dmax \in scene.sizes,
             src \in scene.sources, slen \in scene.lengths :
            Call("wmemcmp", dest, dmax, src, slen, safe_wmemcmp(mem, dest, dmax, src, slen))
    BY <1>4 DEF wmemcmp, OnBlocks
  <2>3. PICK r : r = safe_wmemcmp(mem, dest, dmax, src, slen)
    OBVIOUS
  <2>4. r.mem = mem
    BY <2>3, ComparesRead
  <2>5. ReadDone("wmemcmp", r, mem, dest, dmax, src, slen)
    BY <2>1, <2>3 DEF ReadDone, CompareFunctions, SearchFunctions
  <2>6. "wmemcmp" \in ReadFunctions
    BY DEF ReadFunctions
  <2> QED
    BY <2>2, <2>3, <2>4, <2>5, <2>6 DEF ReadCall
<1>5. ASSUME strnlen PROVE ReadCall
  <2>1. \E dest, dmax : Call("strnlen", dest, dmax, NULL, 0, safe_strnlen(mem, dest, dmax))
    BY <1>5 DEF strnlen, OnDest
  <2> QED
    BY <2>1, ClassesRead DEF ReadCall, ReadFunctions, ReadDone, CompareFunctions, SearchFunctions
<1>6. ASSUME wcsnlen PROVE ReadCall
  <2>1. \E dest, dmax : Call("wcsnlen", dest, dmax, NULL, 0, safe_wcsnlen(mem, dest, dmax))
    BY <1>6 DEF wcsnlen, OnDest
  <2> QED
    BY <2>1, ClassesRead DEF ReadCall, ReadFunctions, ReadDone, CompareFunctions, SearchFunctions
<1>7. ASSUME strisalphanumeric PROVE ReadCall
  <2>1. \E dest, dmax : Call("strisalphanumeric", dest, dmax, NULL, 0, safe_strisalphanumeric(mem, dest, dmax))
    BY <1>7 DEF strisalphanumeric, OnDest
  <2> QED
    BY <2>1, ClassesRead DEF ReadCall, ReadFunctions, ReadDone, CompareFunctions, SearchFunctions
<1>8. ASSUME strisascii PROVE ReadCall
  <2>1. \E dest, dmax : Call("strisascii", dest, dmax, NULL, 0, safe_strisascii(mem, dest, dmax))
    BY <1>8 DEF strisascii, OnDest
  <2> QED
    BY <2>1, ClassesRead DEF ReadCall, ReadFunctions, ReadDone, CompareFunctions, SearchFunctions
<1>9. ASSUME strisdigit PROVE ReadCall
  <2>1. \E dest, dmax : Call("strisdigit", dest, dmax, NULL, 0, safe_strisdigit(mem, dest, dmax))
    BY <1>9 DEF strisdigit, OnDest
  <2> QED
    BY <2>1, ClassesRead DEF ReadCall, ReadFunctions, ReadDone, CompareFunctions, SearchFunctions
<1>10. ASSUME strishex PROVE ReadCall
  <2>1. \E dest, dmax : Call("strishex", dest, dmax, NULL, 0, safe_strishex(mem, dest, dmax))
    BY <1>10 DEF strishex, OnDest
  <2> QED
    BY <2>1, ClassesRead DEF ReadCall, ReadFunctions, ReadDone, CompareFunctions, SearchFunctions
<1>11. ASSUME strislowercase PROVE ReadCall
  <2>1. \E dest, dmax : Call("strislowercase", dest, dmax, NULL, 0, safe_strislowercase(mem, dest, dmax))
    BY <1>11 DEF strislowercase, OnDest
  <2> QED
    BY <2>1, ClassesRead DEF ReadCall, ReadFunctions, ReadDone, CompareFunctions, SearchFunctions
<1>12. ASSUME strismixedcase PROVE ReadCall
  <2>1. \E dest, dmax : Call("strismixedcase", dest, dmax, NULL, 0, safe_strismixedcase(mem, dest, dmax))
    BY <1>12 DEF strismixedcase, OnDest
  <2> QED
    BY <2>1, ClassesRead DEF ReadCall, ReadFunctions, ReadDone, CompareFunctions, SearchFunctions
<1>13. ASSUME strisuppercase PROVE ReadCall
  <2>1. \E dest, dmax : Call("strisuppercase", dest, dmax, NULL, 0, safe_strisuppercase(mem, dest, dmax))
    BY <1>13 DEF strisuppercase, OnDest
  <2> QED
    BY <2>1, ClassesRead DEF ReadCall, ReadFunctions, ReadDone, CompareFunctions, SearchFunctions
<1>14. ASSUME strispassword PROVE ReadCall
  <2>1. \E dest, dmax : Call("strispassword", dest, dmax, NULL, 0, safe_strispassword(mem, dest, dmax))
    BY <1>14 DEF strispassword, OnDest
  <2> QED
    BY <2>1, ClassesRead DEF ReadCall, ReadFunctions, ReadDone, CompareFunctions, SearchFunctions
<1>15. ASSUME strcmp PROVE ReadCall
  <2>1. "scan" \in scene.kinds
    BY <1>15 DEF strcmp, OnStrings, Ready
  <2>2. PICK dest \in scene.dests, dmax \in scene.sizes, src \in scene.sources :
            Call("strcmp", dest, dmax, src, NoLimit, safe_strcmp(mem, dest, dmax, src))
    BY <1>15 DEF strcmp, OnStrings
  <2>3. PICK r : r = safe_strcmp(mem, dest, dmax, src)
    OBVIOUS
  <2>4. r.mem = mem
    BY <2>3, StringsRead
  <2>5. ReadDone("strcmp", r, mem, dest, dmax, src, NoLimit)
    BY <2>1, <2>3 DEF ReadDone, CompareFunctions, SearchFunctions
  <2>6. "strcmp" \in ReadFunctions
    BY DEF ReadFunctions
  <2> QED
    BY <2>2, <2>3, <2>4, <2>5, <2>6 DEF ReadCall
<1>16. ASSUME strcasecmp PROVE ReadCall
  <2>1. "scan" \in scene.kinds
    BY <1>16 DEF strcasecmp, OnStrings, Ready
  <2>2. PICK dest \in scene.dests, dmax \in scene.sizes, src \in scene.sources :
            Call("strcasecmp", dest, dmax, src, NoLimit, safe_strcasecmp(mem, dest, dmax, src))
    BY <1>16 DEF strcasecmp, OnStrings
  <2>3. PICK r : r = safe_strcasecmp(mem, dest, dmax, src)
    OBVIOUS
  <2>4. r.mem = mem
    BY <2>3, StringsRead
  <2>5. ReadDone("strcasecmp", r, mem, dest, dmax, src, NoLimit)
    BY <2>1, <2>3 DEF ReadDone, CompareFunctions, SearchFunctions
  <2>6. "strcasecmp" \in ReadFunctions
    BY DEF ReadFunctions
  <2> QED
    BY <2>2, <2>3, <2>4, <2>5, <2>6 DEF ReadCall
<1>17. ASSUME strcmpfld PROVE ReadCall
  <2>1. \E dest, dmax, src : Call("strcmpfld", dest, dmax, src, NoLimit, safe_strcmpfld(mem, dest, dmax, src))
    BY <1>17 DEF strcmpfld, OnStrings
  <2> QED
    BY <2>1, StringsRead DEF ReadCall, ReadFunctions, ReadDone, CompareFunctions, SearchFunctions
<1>18. ASSUME strfirstdiff PROVE ReadCall
  <2>1. \E dest, dmax, src : Call("strfirstdiff", dest, dmax, src, NoLimit, safe_strfirstdiff(mem, dest, dmax, src))
    BY <1>18 DEF strfirstdiff, OnStrings
  <2> QED
    BY <2>1, StringsRead DEF ReadCall, ReadFunctions, ReadDone, CompareFunctions, SearchFunctions
<1>19. ASSUME strfirstsame PROVE ReadCall
  <2>1. \E dest, dmax, src : Call("strfirstsame", dest, dmax, src, NoLimit, safe_strfirstsame(mem, dest, dmax, src))
    BY <1>19 DEF strfirstsame, OnStrings
  <2> QED
    BY <2>1, StringsRead DEF ReadCall, ReadFunctions, ReadDone, CompareFunctions, SearchFunctions
<1>20. ASSUME strlastdiff PROVE ReadCall
  <2>1. \E dest, dmax, src : Call("strlastdiff", dest, dmax, src, NoLimit, safe_strlastdiff(mem, dest, dmax, src))
    BY <1>20 DEF strlastdiff, OnStrings
  <2> QED
    BY <2>1, StringsRead DEF ReadCall, ReadFunctions, ReadDone, CompareFunctions, SearchFunctions
<1>21. ASSUME strlastsame PROVE ReadCall
  <2>1. \E dest, dmax, src : Call("strlastsame", dest, dmax, src, NoLimit, safe_strlastsame(mem, dest, dmax, src))
    BY <1>21 DEF strlastsame, OnStrings
  <2> QED
    BY <2>1, StringsRead DEF ReadCall, ReadFunctions, ReadDone, CompareFunctions, SearchFunctions
<1>22. ASSUME strprefix PROVE ReadCall
  <2>1. \E dest, dmax, src : Call("strprefix", dest, dmax, src, NoLimit, safe_strprefix(mem, dest, dmax, src))
    BY <1>22 DEF strprefix, OnStrings
  <2> QED
    BY <2>1, StringsRead DEF ReadCall, ReadFunctions, ReadDone, CompareFunctions, SearchFunctions
<1>23. ASSUME strfirstchar PROVE ReadCall
  <2>1. \E dest, dmax, src : Call("strfirstchar", dest, dmax, src, 0, safe_strfirstchar(mem, dest, dmax, src))
    BY <1>23 DEF strfirstchar, OnDestAndValue
  <2> QED
    BY <2>1, StringsRead DEF ReadCall, ReadFunctions, ReadDone, CompareFunctions, SearchFunctions
<1>24. ASSUME strlastchar PROVE ReadCall
  <2>1. \E dest, dmax, src : Call("strlastchar", dest, dmax, src, 0, safe_strlastchar(mem, dest, dmax, src))
    BY <1>24 DEF strlastchar, OnDestAndValue
  <2> QED
    BY <2>1, StringsRead DEF ReadCall, ReadFunctions, ReadDone, CompareFunctions, SearchFunctions
<1>25. ASSUME strspn PROVE ReadCall
  <2>1. "scan" \in scene.kinds
    BY <1>25 DEF strspn, OnBlocks, Ready
  <2>2. PICK dest \in scene.dests, dmax \in scene.sizes,
             src \in scene.sources, slen \in scene.lengths :
            Call("strspn", dest, dmax, src, slen, safe_strspn(mem, dest, dmax, src, slen))
    BY <1>25 DEF strspn, OnBlocks
  <2>3. PICK r : r = safe_strspn(mem, dest, dmax, src, slen)
    OBVIOUS
  <2>4. r.mem = mem
    BY <2>3, SearchesRead
  <2>5. ReadDone("strspn", r, mem, dest, dmax, src, slen)
    BY <2>1, <2>3 DEF ReadDone, CompareFunctions, SearchFunctions
  <2>6. "strspn" \in ReadFunctions
    BY DEF ReadFunctions
  <2> QED
    BY <2>2, <2>3, <2>4, <2>5, <2>6 DEF ReadCall
<1>26. ASSUME strcspn PROVE ReadCall
  <2>1. "scan" \in scene.kinds
    BY <1>26 DEF strcspn, OnBlocks, Ready
  <2>2. PICK dest \in scene.dests, dmax \in scene.sizes,
             src \in scene.sources, slen \in scene.lengths :
            Call("strcspn", dest, dmax, src, slen, safe_strcspn(mem, dest, dmax, src, slen))
    BY <1>26 DEF strcspn, OnBlocks
  <2>3. PICK r : r = safe_strcspn(mem, dest, dmax, src, slen)
    OBVIOUS
  <2>4. r.mem = mem
    BY <2>3, SearchesRead
  <2>5. ReadDone("strcspn", r, mem, dest, dmax, src, slen)
    BY <2>1, <2>3 DEF ReadDone, CompareFunctions, SearchFunctions
  <2>6. "strcspn" \in ReadFunctions
    BY DEF ReadFunctions
  <2> QED
    BY <2>2, <2>3, <2>4, <2>5, <2>6 DEF ReadCall
<1>27. ASSUME strpbrk PROVE ReadCall
  <2>1. "scan" \in scene.kinds
    BY <1>27 DEF strpbrk, OnBlocks, Ready
  <2>2. PICK dest \in scene.dests, dmax \in scene.sizes,
             src \in scene.sources, slen \in scene.lengths :
            Call("strpbrk", dest, dmax, src, slen, safe_strpbrk(mem, dest, dmax, src, slen))
    BY <1>27 DEF strpbrk, OnBlocks
  <2>3. PICK r : r = safe_strpbrk(mem, dest, dmax, src, slen)
    OBVIOUS
  <2>4. r.mem = mem
    BY <2>3, SearchesRead
  <2>5. ReadDone("strpbrk", r, mem, dest, dmax, src, slen)
    BY <2>1, <2>3 DEF ReadDone, CompareFunctions, SearchFunctions
  <2>6. "strpbrk" \in ReadFunctions
    BY DEF ReadFunctions
  <2> QED
    BY <2>2, <2>3, <2>4, <2>5, <2>6 DEF ReadCall
<1>28. ASSUME strstr PROVE ReadCall
  <2>1. "scan" \in scene.kinds
    BY <1>28 DEF strstr, OnBlocks, Ready
  <2>2. PICK dest \in scene.dests, dmax \in scene.sizes,
             src \in scene.sources, slen \in scene.lengths :
            Call("strstr", dest, dmax, src, slen, safe_strstr(mem, dest, dmax, src, slen))
    BY <1>28 DEF strstr, OnBlocks
  <2>3. PICK r : r = safe_strstr(mem, dest, dmax, src, slen)
    OBVIOUS
  <2>4. r.mem = mem
    BY <2>3, SearchesRead
  <2>5. ReadDone("strstr", r, mem, dest, dmax, src, slen)
    BY <2>1, <2>3 DEF ReadDone, CompareFunctions, SearchFunctions
  <2>6. "strstr" \in ReadFunctions
    BY DEF ReadFunctions
  <2> QED
    BY <2>2, <2>3, <2>4, <2>5, <2>6 DEF ReadCall
<1>29. ASSUME strcasestr PROVE ReadCall
  <2>1. "scan" \in scene.kinds
    BY <1>29 DEF strcasestr, OnBlocks, Ready
  <2>2. PICK dest \in scene.dests, dmax \in scene.sizes,
             src \in scene.sources, slen \in scene.lengths :
            Call("strcasestr", dest, dmax, src, slen, safe_strcasestr(mem, dest, dmax, src, slen))
    BY <1>29 DEF strcasestr, OnBlocks
  <2>3. PICK r : r = safe_strcasestr(mem, dest, dmax, src, slen)
    OBVIOUS
  <2>4. r.mem = mem
    BY <2>3, SearchesRead
  <2>5. ReadDone("strcasestr", r, mem, dest, dmax, src, slen)
    BY <2>1, <2>3 DEF ReadDone, CompareFunctions, SearchFunctions
  <2>6. "strcasestr" \in ReadFunctions
    BY DEF ReadFunctions
  <2> QED
    BY <2>2, <2>3, <2>4, <2>5, <2>6 DEF ReadCall
<1> QED
  BY <1>1, <1>2, <1>3, <1>4, <1>5, <1>6, <1>7, <1>8, <1>9, <1>10, <1>11, <1>12, <1>13, <1>14, <1>15, <1>16, <1>17, <1>18, <1>19, <1>20, <1>21, <1>22, <1>23, <1>24, <1>25, <1>26, <1>27, <1>28, <1>29 DEF Calls_read

Calls_memory ==
    \/ memcpy \/ memmove \/ memcpy16 \/ memmove16 \/ memcpy32 \/ memmove32
    \/ wmemcpy \/ wmemmove \/ memset \/ memzero \/ memset16 \/ memzero16
    \/ memset32 \/ memzero32 \/ wmemset

(* Every call of a memory function. *)
LEMMA Made_memory ==
    ASSUME LibInv, NEW L, InMemory(mem, L), Calls_memory
    PROVE  (BlockCall(L) \/ SetCall(L)) /\ scene.unit \in {1, 2, 4}
<1>0. UnitsFit /\ ArgumentsFit /\ Memory(mem, L)
  BY DEF LibInv, InMemory
<1>01. /\ "bytes" \in scene.kinds => scene.unit = 1
       /\ "units16" \in scene.kinds => scene.unit = 2
       /\ "units32" \in scene.kinds => scene.unit = 4 /\ WCHAR_SIZE = 4
  <2>1. "bytes" \in scene.kinds => scene.kinds \cap {"units16", "units32"} = {}
    BY <1>0 DEF UnitsFit
  <2> QED
    BY <1>0, <2>1 DEF UnitsFit
<1>1. ASSUME memcpy PROVE BlockCall(L) /\ scene.unit = 1
  <2>1. "bytes" \in scene.kinds
    BY <1>1 DEF memcpy, OnBlocks, Ready
  <2>2. PICK dest \in scene.dests, dmax \in scene.sizes, src \in scene.sources, n \in scene.lengths :
            Call("memcpy", dest, dmax, src, n, safe_memcpy(mem, dest, dmax, src, n))
    BY <1>1 DEF memcpy, OnBlocks
  <2>3. scene.unit = 1
    BY <1>01, <2>1
  <2>4. dest \in Nat /\ dmax \in Nat /\ src \in Nat /\ n \in Nat
    BY <1>0 DEF ArgumentsFit
  <2>5. src # 0 => In(src, n * 1, L)
    <3>1. Blocks(L)
      BY <2>1 DEF InMemory, MemoryKinds
    <3> QED
      BY <2>3, <3>1 DEF Blocks
  <2>6. PICK r : r = safe_memcpy(mem, dest, dmax, src, n)
    OBVIOUS
  <2>7. /\ Transfers(r, mem, L, dest, src, n * 1, dmax * 1)
        /\ "memcpy" \in CopyFunctions /\ r.err = "EOK" => n <= dmax /\ ~Overlap(dest, dmax, src, n, 1)
    BY <1>0, <2>3, <2>4, <2>5, <2>6, BytesTransfer
  <2>8. Call("memcpy", dest, dmax, src, n, r) /\ "memcpy" \in MemoryFunctions
    BY <2>2, <2>6 DEF MemoryFunctions, MoveFunctions, CopyFunctions
  <2> QED
    BY <2>3, <2>7, <2>8 DEF BlockCall
<1>2. ASSUME memmove PROVE BlockCall(L) /\ scene.unit = 1
  <2>1. "bytes" \in scene.kinds
    BY <1>2 DEF memmove, OnBlocks, Ready
  <2>2. PICK dest \in scene.dests, dmax \in scene.sizes, src \in scene.sources, n \in scene.lengths :
            Call("memmove", dest, dmax, src, n, safe_memmove(mem, dest, dmax, src, n))
    BY <1>2 DEF memmove, OnBlocks
  <2>3. scene.unit = 1
    BY <1>01, <2>1
  <2>4. dest \in Nat /\ dmax \in Nat /\ src \in Nat /\ n \in Nat
    BY <1>0 DEF ArgumentsFit
  <2>5. src # 0 => In(src, n * 1, L)
    <3>1. Blocks(L)
      BY <2>1 DEF InMemory, MemoryKinds
    <3> QED
      BY <2>3, <3>1 DEF Blocks
  <2>6. PICK r : r = safe_memmove(mem, dest, dmax, src, n)
    OBVIOUS
  <2>7. /\ Transfers(r, mem, L, dest, src, n * 1, dmax * 1)
        /\ "memmove" \in CopyFunctions /\ r.err = "EOK" => n <= dmax /\ ~Overlap(dest, dmax, src, n, 1)
    BY <1>0, <2>3, <2>4, <2>5, <2>6, BytesTransfer DEF CopyFunctions
  <2>8. Call("memmove", dest, dmax, src, n, r) /\ "memmove" \in MemoryFunctions
    BY <2>2, <2>6 DEF MemoryFunctions, MoveFunctions, CopyFunctions
  <2> QED
    BY <2>3, <2>7, <2>8 DEF BlockCall
<1>3. ASSUME memcpy16 PROVE BlockCall(L) /\ scene.unit = 2
  <2>1. "units16" \in scene.kinds
    BY <1>3 DEF memcpy16, OnBlocks, Ready
  <2>2. PICK dest \in scene.dests, dmax \in scene.sizes, src \in scene.sources, n \in scene.lengths :
            Call("memcpy16", dest, dmax, src, n, safe_memcpy16(mem, dest, dmax, src, n))
    BY <1>3 DEF memcpy16, OnBlocks
  <2>3. scene.unit = 2
    BY <1>01, <2>1
  <2>4. dest \in Nat /\ dmax \in Nat /\ src \in Nat /\ n \in Nat
    BY <1>0 DEF ArgumentsFit
  <2>5. src # 0 => In(src, n * 2, L)
    <3>1. Blocks(L)
      BY <2>1 DEF InMemory, MemoryKinds
    <3> QED
      BY <2>3, <3>1 DEF Blocks
  <2>6. PICK r : r = safe_memcpy16(mem, dest, dmax, src, n)
    OBVIOUS
  <2>7. /\ Transfers(r, mem, L, dest, src, n * 2, dmax * 2)
        /\ "memcpy16" \in CopyFunctions /\ r.err = "EOK" => n <= dmax /\ ~Overlap(dest, dmax, src, n, 2)
    BY <1>0, <2>3, <2>4, <2>5, <2>6, Units16Transfer
  <2>8. Call("memcpy16", dest, dmax, src, n, r) /\ "memcpy16" \in MemoryFunctions
    BY <2>2, <2>6 DEF MemoryFunctions, MoveFunctions, CopyFunctions
  <2> QED
    BY <2>3, <2>7, <2>8 DEF BlockCall
<1>4. ASSUME memmove16 PROVE BlockCall(L) /\ scene.unit = 2
  <2>1. "units16" \in scene.kinds
    BY <1>4 DEF memmove16, OnBlocks, Ready
  <2>2. PICK dest \in scene.dests, dmax \in scene.sizes, src \in scene.sources, n \in scene.lengths :
            Call("memmove16", dest, dmax, src, n, safe_memmove16(mem, dest, dmax, src, n))
    BY <1>4 DEF memmove16, OnBlocks
  <2>3. scene.unit = 2
    BY <1>01, <2>1
  <2>4. dest \in Nat /\ dmax \in Nat /\ src \in Nat /\ n \in Nat
    BY <1>0 DEF ArgumentsFit
  <2>5. src # 0 => In(src, n * 2, L)
    <3>1. Blocks(L)
      BY <2>1 DEF InMemory, MemoryKinds
    <3> QED
      BY <2>3, <3>1 DEF Blocks
  <2>6. PICK r : r = safe_memmove16(mem, dest, dmax, src, n)
    OBVIOUS
  <2>7. /\ Transfers(r, mem, L, dest, src, n * 2, dmax * 2)
        /\ "memmove16" \in CopyFunctions /\ r.err = "EOK" => n <= dmax /\ ~Overlap(dest, dmax, src, n, 2)
    BY <1>0, <2>3, <2>4, <2>5, <2>6, Units16Transfer DEF CopyFunctions
  <2>8. Call("memmove16", dest, dmax, src, n, r) /\ "memmove16" \in MemoryFunctions
    BY <2>2, <2>6 DEF MemoryFunctions, MoveFunctions, CopyFunctions
  <2> QED
    BY <2>3, <2>7, <2>8 DEF BlockCall
<1>5. ASSUME memcpy32 PROVE BlockCall(L) /\ scene.unit = 4
  <2>1. "units32" \in scene.kinds
    BY <1>5 DEF memcpy32, OnBlocks, Ready
  <2>2. PICK dest \in scene.dests, dmax \in scene.sizes, src \in scene.sources, n \in scene.lengths :
            Call("memcpy32", dest, dmax, src, n, safe_memcpy32(mem, dest, dmax, src, n))
    BY <1>5 DEF memcpy32, OnBlocks
  <2>3. scene.unit = 4 /\ WCHAR_SIZE = 4
    BY <1>01, <2>1
  <2>4. dest \in Nat /\ dmax \in Nat /\ src \in Nat /\ n \in Nat
    BY <1>0 DEF ArgumentsFit
  <2>5. src # 0 => In(src, n * 4, L)
    <3>1. Blocks(L)
      BY <2>1 DEF InMemory, MemoryKinds
    <3> QED
      BY <2>3, <3>1 DEF Blocks
  <2>6. PICK r : r = safe_memcpy32(mem, dest, dmax, src, n)
    OBVIOUS
  <2>7. /\ Transfers(r, mem, L, dest, src, n * 4, dmax * 4)
        /\ "memcpy32" \in CopyFunctions /\ r.err = "EOK" => n <= dmax /\ ~Overlap(dest, dmax, src, n, 4)
    BY <1>0, <2>3, <2>4, <2>5, <2>6, Units32Transfer
  <2>8. Call("memcpy32", dest, dmax, src, n, r) /\ "memcpy32" \in MemoryFunctions
    BY <2>2, <2>6 DEF MemoryFunctions, MoveFunctions, CopyFunctions
  <2> QED
    BY <2>3, <2>7, <2>8 DEF BlockCall
<1>6. ASSUME memmove32 PROVE BlockCall(L) /\ scene.unit = 4
  <2>1. "units32" \in scene.kinds
    BY <1>6 DEF memmove32, OnBlocks, Ready
  <2>2. PICK dest \in scene.dests, dmax \in scene.sizes, src \in scene.sources, n \in scene.lengths :
            Call("memmove32", dest, dmax, src, n, safe_memmove32(mem, dest, dmax, src, n))
    BY <1>6 DEF memmove32, OnBlocks
  <2>3. scene.unit = 4 /\ WCHAR_SIZE = 4
    BY <1>01, <2>1
  <2>4. dest \in Nat /\ dmax \in Nat /\ src \in Nat /\ n \in Nat
    BY <1>0 DEF ArgumentsFit
  <2>5. src # 0 => In(src, n * 4, L)
    <3>1. Blocks(L)
      BY <2>1 DEF InMemory, MemoryKinds
    <3> QED
      BY <2>3, <3>1 DEF Blocks
  <2>6. PICK r : r = safe_memmove32(mem, dest, dmax, src, n)
    OBVIOUS
  <2>7. /\ Transfers(r, mem, L, dest, src, n * 4, dmax * 4)
        /\ "memmove32" \in CopyFunctions /\ r.err = "EOK" => n <= dmax /\ ~Overlap(dest, dmax, src, n, 4)
    BY <1>0, <2>3, <2>4, <2>5, <2>6, Units32Transfer DEF CopyFunctions
  <2>8. Call("memmove32", dest, dmax, src, n, r) /\ "memmove32" \in MemoryFunctions
    BY <2>2, <2>6 DEF MemoryFunctions, MoveFunctions, CopyFunctions
  <2> QED
    BY <2>3, <2>7, <2>8 DEF BlockCall
<1>7. ASSUME wmemcpy PROVE BlockCall(L) /\ scene.unit = 4
  <2>1. "units32" \in scene.kinds
    BY <1>7 DEF wmemcpy, OnBlocks, Ready
  <2>2. PICK dest \in scene.dests, dmax \in scene.sizes, src \in scene.sources, n \in scene.lengths :
            Call("wmemcpy", dest, dmax, src, n, safe_wmemcpy(mem, dest, dmax, src, n))
    BY <1>7 DEF wmemcpy, OnBlocks
  <2>3. scene.unit = 4 /\ WCHAR_SIZE = 4
    BY <1>01, <2>1
  <2>4. dest \in Nat /\ dmax \in Nat /\ src \in Nat /\ n \in Nat
    BY <1>0 DEF ArgumentsFit
  <2>5. src # 0 => In(src, n * 4, L)
    <3>1. Blocks(L)
      BY <2>1 DEF InMemory, MemoryKinds
    <3> QED
      BY <2>3, <3>1 DEF Blocks
  <2>6. PICK r : r = safe_wmemcpy(mem, dest, dmax, src, n)
    OBVIOUS
  <2>7. /\ Transfers(r, mem, L, dest, src, n * 4, dmax * 4)
        /\ "wmemcpy" \in CopyFunctions /\ r.err = "EOK" => n <= dmax /\ ~Overlap(dest, dmax, src, n, 4)
    BY <1>0, <2>3, <2>4, <2>5, <2>6, WideTransfer
  <2>8. Call("wmemcpy", dest, dmax, src, n, r) /\ "wmemcpy" \in MemoryFunctions
    BY <2>2, <2>6 DEF MemoryFunctions, MoveFunctions, CopyFunctions
  <2> QED
    BY <2>3, <2>7, <2>8 DEF BlockCall
<1>8. ASSUME wmemmove PROVE BlockCall(L) /\ scene.unit = 4
  <2>1. "units32" \in scene.kinds
    BY <1>8 DEF wmemmove, OnBlocks, Ready
  <2>2. PICK dest \in scene.dests, dmax \in scene.sizes, src \in scene.sources, n \in scene.lengths :
            Call("wmemmove", dest, dmax, src, n, safe_wmemmove(mem, dest, dmax, src, n))
    BY <1>8 DEF wmemmove, OnBlocks
  <2>3. scene.unit = 4 /\ WCHAR_SIZE = 4
    BY <1>01, <2>1
  <2>4. dest \in Nat /\ dmax \in Nat /\ src \in Nat /\ n \in Nat
    BY <1>0 DEF ArgumentsFit
  <2>5. src # 0 => In(src, n * 4, L)
    <3>1. Blocks(L)
      BY <2>1 DEF InMemory, MemoryKinds
    <3> QED
      BY <2>3, <3>1 DEF Blocks
  <2>6. PICK r : r = safe_wmemmove(mem, dest, dmax, src, n)
    OBVIOUS
  <2>7. /\ Transfers(r, mem, L, dest, src, n * 4, dmax * 4)
        /\ "wmemmove" \in CopyFunctions /\ r.err = "EOK" => n <= dmax /\ ~Overlap(dest, dmax, src, n, 4)
    BY <1>0, <2>3, <2>4, <2>5, <2>6, WideTransfer DEF CopyFunctions
  <2>8. Call("wmemmove", dest, dmax, src, n, r) /\ "wmemmove" \in MemoryFunctions
    BY <2>2, <2>6 DEF MemoryFunctions, MoveFunctions, CopyFunctions
  <2> QED
    BY <2>3, <2>7, <2>8 DEF BlockCall
<1>9. ASSUME memset PROVE SetCall(L) /\ scene.unit = 1
  <2>1. "bytes" \in scene.kinds
    BY <1>9 DEF memset, OnDestAndValue, Ready
  <2>2. PICK dest \in scene.dests, n \in scene.sizes, value \in scene.values :
            Call("memset", dest, n, value, 0, safe_memset(mem, dest, n, value))
    BY <1>9 DEF memset, OnDestAndValue
  <2>3. scene.unit = 1
    BY <1>01, <2>1
  <2>4. dest \in Nat /\ n \in Nat /\ value \in Nat
    BY <1>0 DEF ArgumentsFit
  <2>5. PICK r : r = safe_memset(mem, dest, n, value)
    OBVIOUS
  <2>6. r.mem \in {mem, Fill(mem, dest, n * 1, value)}
    BY <1>0, <2>4, <2>5, Sets
  <2>7. Call("memset", dest, n, value, 0, r) /\ "memset" \in SetFunctions
    BY <2>2, <2>5 DEF SetFunctions
  <2> QED
    BY <2>3, <2>4, <2>6, <2>7 DEF SetCall
<1>10. ASSUME memzero PROVE SetCall(L) /\ scene.unit = 1
  <2>1. "bytes" \in scene.kinds
    BY <1>10 DEF memzero, OnDest, Ready
  <2>2. PICK dest \in scene.dests, n \in scene.sizes :
            Call("memzero", dest, n, NULL, 0, safe_memzero(mem, dest, n))
    BY <1>10 DEF memzero, OnDest
  <2>3. scene.unit = 1
    BY <1>01, <2>1
  <2>4. dest \in Nat /\ n \in Nat /\ 0 \in Nat
    BY <1>0 DEF ArgumentsFit
  <2>5. PICK r : r = safe_memzero(mem, dest, n)
    OBVIOUS
  <2>6. r.mem \in {mem, Fill(mem, dest, n * 1, 0)}
    BY <1>0, <2>4, <2>5, Sets
  <2>7. Call("memzero", dest, n, NULL, 0, r) /\ "memzero" \in SetFunctions
    BY <2>2, <2>5 DEF SetFunctions
  <2> QED
    BY <2>3, <2>4, <2>6, <2>7 DEF SetCall
<1>11. ASSUME memset16 PROVE SetCall(L) /\ scene.unit = 2
  <2>1. "units16" \in scene.kinds
    BY <1>11 DEF memset16, OnDestAndValue, Ready
  <2>2. PICK dest \in scene.dests, n \in scene.sizes, value \in scene.values :
            Call("memset16", dest, n, value, 0, safe_memset16(mem, dest, n, value))
    BY <1>11 DEF memset16, OnDestAndValue
  <2>3. scene.unit = 2
    BY <1>01, <2>1
  <2>4. dest \in Nat /\ n \in Nat /\ value \in Nat
    BY <1>0 DEF ArgumentsFit
  <2>5. PICK r : r = safe_memset16(mem, dest, n, value)
    OBVIOUS
  <2>6. r.mem \in {mem, Fill(mem, dest, n * 2, value)}
    BY <1>0, <2>4, <2>5, Sets
  <2>7. Call("memset16", dest, n, value, 0, r) /\ "memset16" \in SetFunctions
    BY <2>2, <2>5 DEF SetFunctions
  <2> QED
    BY <2>3, <2>4, <2>6, <2>7 DEF SetCall
<1>12. ASSUME memzero16 PROVE SetCall(L) /\ scene.unit = 2
  <2>1. "units16" \in scene.kinds
    BY <1>12 DEF memzero16, OnDest, Ready
  <2>2. PICK dest \in scene.dests, n \in scene.sizes :
            Call("memzero16", dest, n, NULL, 0, safe_memzero16(mem, dest, n))
    BY <1>12 DEF memzero16, OnDest
  <2>3. scene.unit = 2
    BY <1>01, <2>1
  <2>4. dest \in Nat /\ n \in Nat /\ 0 \in Nat
    BY <1>0 DEF ArgumentsFit
  <2>5. PICK r : r = safe_memzero16(mem, dest, n)
    OBVIOUS
  <2>6. r.mem \in {mem, Fill(mem, dest, n * 2, 0)}
    BY <1>0, <2>4, <2>5, Sets
  <2>7. Call("memzero16", dest, n, NULL, 0, r) /\ "memzero16" \in SetFunctions
    BY <2>2, <2>5 DEF SetFunctions
  <2> QED
    BY <2>3, <2>4, <2>6, <2>7 DEF SetCall
<1>13. ASSUME memset32 PROVE SetCall(L) /\ scene.unit = 4
  <2>1. "units32" \in scene.kinds
    BY <1>13 DEF memset32, OnDestAndValue, Ready
  <2>2. PICK dest \in scene.dests, n \in scene.sizes, value \in scene.values :
            Call("memset32", dest, n, value, 0, safe_memset32(mem, dest, n, value))
    BY <1>13 DEF memset32, OnDestAndValue
  <2>3. scene.unit = 4
    BY <1>01, <2>1
  <2>4. dest \in Nat /\ n \in Nat /\ value \in Nat
    BY <1>0 DEF ArgumentsFit
  <2>5. PICK r : r = safe_memset32(mem, dest, n, value)
    OBVIOUS
  <2>6. r.mem \in {mem, Fill(mem, dest, n * 4, value)}
    BY <1>0, <2>4, <2>5, Sets
  <2>7. Call("memset32", dest, n, value, 0, r) /\ "memset32" \in SetFunctions
    BY <2>2, <2>5 DEF SetFunctions
  <2> QED
    BY <2>3, <2>4, <2>6, <2>7 DEF SetCall
<1>14. ASSUME memzero32 PROVE SetCall(L) /\ scene.unit = 4
  <2>1. "units32" \in scene.kinds
    BY <1>14 DEF memzero32, OnDest, Ready
  <2>2. PICK dest \in scene.dests, n \in scene.sizes :
            Call("memzero32", dest, n, NULL, 0, safe_memzero32(mem, dest, n))
    BY <1>14 DEF memzero32, OnDest
  <2>3. scene.unit = 4
    BY <1>01, <2>1
  <2>4. dest \in Nat /\ n \in Nat /\ 0 \in Nat
    BY <1>0 DEF ArgumentsFit
  <2>5. PICK r : r = safe_memzero32(mem, dest, n)
    OBVIOUS
  <2>6. r.mem \in {mem, Fill(mem, dest, n * 4, 0)}
    BY <1>0, <2>4, <2>5, Sets
  <2>7. Call("memzero32", dest, n, NULL, 0, r) /\ "memzero32" \in SetFunctions
    BY <2>2, <2>5 DEF SetFunctions
  <2> QED
    BY <2>3, <2>4, <2>6, <2>7 DEF SetCall
<1>15. ASSUME wmemset PROVE SetCall(L) /\ scene.unit = 4
  <2>1. "units32" \in scene.kinds
    BY <1>15 DEF wmemset, OnDestAndValue, Ready
  <2>2. PICK dest \in scene.dests, n \in scene.sizes, value \in scene.values :
            Call("wmemset", dest, n, value, 0, safe_wmemset(mem, dest, value, n))
    BY <1>15 DEF wmemset, OnDestAndValue
  <2>3. scene.unit = 4
    BY <1>01, <2>1
  <2>4. dest \in Nat /\ n \in Nat /\ value \in Nat
    BY <1>0 DEF ArgumentsFit
  <2>5. PICK r : r = safe_wmemset(mem, dest, value, n)
    OBVIOUS
  <2>6. r.mem \in {mem, Fill(mem, dest, n * 4, value)}
    BY <1>0, <2>4, <2>5, Sets
  <2>7. Call("wmemset", dest, n, value, 0, r) /\ "wmemset" \in SetFunctions
    BY <2>2, <2>5 DEF SetFunctions
  <2> QED
    BY <2>3, <2>4, <2>6, <2>7 DEF SetCall
<1> QED
  BY <1>1, <1>2, <1>3, <1>4, <1>5, <1>6, <1>7, <1>8, <1>9, <1>10, <1>11, <1>12, <1>13, <1>14, <1>15 DEF Calls_memory
-----------------------------------------------------------------------------

(* The d characters from p on that are left of a text, and its terminator. *)
Uncut(m, text, p, d) ==
    /\ p >= 1 /\ d >= 0 /\ p + d = text + 1
    /\ \A i \in p..text : m[i] # 0
    /\ m[text + 1] = 0

(* A character is a delimiter, or a part of a token, or no null ends the   *)
(* delimiters, or there are none.                                          *)
LEMMA KindRange ==
    ASSUME NEW m, NEW c, NEW src
    PROVE  Kind(m, c, src) \in {"delimiter", "text", "nothing", "unterminated"}
  BY DEF Kind

(* The characters the first loop passes over, and the second. *)
Skips(m, src, p, q) == \A i \in p..(q - 1) : Kind(m, m[i], src) \in {"delimiter", "nothing"}
Keeps(m, src, p, e) == \A i \in p..(e - 1) : Kind(m, m[i], src) \in {"text", "nothing"}

(* The first loop stops at the first character that is no delimiter, or at *)
(* the end of the text.                                                    *)
LEMMA SkipStops ==
    ASSUME NEW m, NEW text \in Nat, NEW p \in Int, NEW d \in Int, NEW src, Uncut(m, text, p, d)
    PROVE  \E q \in p..(text + 1) :
              /\ Skips(m, src, p, q)
              /\ \/ q = text + 1 /\ SkipDelimiters(m, p, d, src) = [found |-> "end", dlen |-> 0]
                 \/ /\ q <= text /\ Kind(m, m[q], src) \in {"text", "unterminated"}
                    /\ SkipDelimiters(m, p, d, src) =
                           [found |-> Kind(m, m[q], src), dest |-> q, dlen |-> text - q]
<1> DEFINE KindAt(k) == Kind(m, m[p + k], src)
           S == {k \in 0..d : k = d \/ m[p + k] = 0 \/ KindAt(k) \in {"text", "unterminated"}}
<1>1. \A k : k \in S <=> k \in 0..d /\ (k = d \/ m[p + k] = 0 \/ KindAt(k) \in {"text", "unterminated"})
  OBVIOUS
<1>2. PICK n : n = Min(S)
  OBVIOUS
<1>3. SkipDelimiters(m, p, d, src) =
          IF m[p + n] = 0 THEN [found |-> "end", dlen |-> d - n]
          ELSE IF n = d THEN [found |-> "unterminated"]
          ELSE [found |-> KindAt(n), dest |-> p + n, dlen |-> d - n - 1]
  BY <1>2 DEF SkipDelimiters
<1>4. S \in SUBSET Nat /\ d \in S
  <2>1. d \in 0..d
    BY DEF Uncut
  <2> QED
    BY <2>1
<1> HIDE DEF S
<1>5. n \in S /\ \A k \in S : n <= k
  BY <1>2, <1>4, MinMember
<1>6. n \in Int /\ n >= 0 /\ n <= d /\ (n = d \/ m[p + n] = 0 \/ KindAt(n) \in {"text", "unterminated"})
  BY <1>1, <1>5
<1>7. PICK q \in Int : q = p + n
  BY <1>6
<1>8. q \in p..(text + 1) /\ (n = d <=> q = text + 1) /\ d - n = text + 1 - q
  BY <1>6, <1>7 DEF Uncut
<1>9. Skips(m, src, p, q)
  <2> SUFFICES ASSUME NEW i \in p..(q - 1) PROVE Kind(m, m[i], src) \in {"delimiter", "nothing"}
    BY DEF Skips
  <2>1. PICK k \in Int : k = i - p
    OBVIOUS
  <2>2. k \in 0..d /\ ~(n <= k) /\ p + k = i
    BY <1>6, <1>7, <2>1
  <2>3. ~(KindAt(k) \in {"text", "unterminated"})
    BY <1>1, <1>5, <2>2
  <2> QED
    BY <2>2, <2>3, KindRange
<1> HIDE DEF KindAt
<1>10. CASE n = d
  <2>1. m[p + n] = 0
    BY <1>7, <1>8, <1>10 DEF Uncut
  <2>2. d - n = 0
    BY <1>6, <1>10
  <2> QED
    BY <1>3, <1>8, <1>9, <1>10, <2>1, <2>2
<1>11. CASE n # d
  <2>1. q \in p..text
    BY <1>8, <1>11
  <2>2. m[p + n] # 0
    BY <1>7, <2>1 DEF Uncut
  <2>3. KindAt(n) = Kind(m, m[q], src) /\ d - n - 1 = text - q
    BY <1>6, <1>7, <1>8 DEF KindAt
  <2>4. KindAt(n) \in {"text", "unterminated"}
    BY <1>6, <1>11, <2>2
  <2>5. SkipDelimiters(m, p, d, src) = [found |-> Kind(m, m[q], src), dest |-> q, dlen |-> text - q]
    BY <1>3, <1>7, <1>11, <2>2, <2>3
  <2> QED
    BY <1>8, <1>9, <2>1, <2>3, <2>4, <2>5
<1> QED
  BY <1>10, <1>11

(* The second loop stops at the next delimiter or at the end of the text,  *)
(* or gives up.                                                            *)
LEMMA EndStops ==
    ASSUME NEW m, NEW text \in Nat, NEW p \in Int, NEW d \in Int, NEW src, NEW token, NEW ptr,
           Uncut(m, text, p, d)
    PROVE  \E e \in p..(text + 1) :
              /\ Keeps(m, src, p, e)
              /\ \/ e = text + 1 /\ EndToken(m, token, p, d, src, ptr) = Token(m, token, ptr, 0, "EOK")
                 \/ e <= text /\ EndToken(m, token, p, d, src, ptr) = [unterminated |-> TRUE]
                 \/ /\ e <= text /\ Kind(m, m[e], src) = "delimiter"
                    /\ EndToken(m, token, p, d, src, ptr) = Cut(m, token, e, text + 1 - e)
<1> DEFINE KindAt(k) == Kind(m, m[p + k], src)
           S == {k \in 0..d : k = d \/ m[p + k] = 0 \/ KindAt(k) \in {"delimiter", "unterminated"}}
<1>1. \A k : k \in S <=> k \in 0..d /\ (k = d \/ m[p + k] = 0 \/ KindAt(k) \in {"delimiter", "unterminated"})
  OBVIOUS
<1>2. PICK n : n = Min(S)
  OBVIOUS
<1>3. EndToken(m, token, p, d, src, ptr) =
          IF m[p + n] = 0 THEN Token(m, token, ptr, d - n, "EOK")
          ELSE IF n = d \/ KindAt(n) = "unterminated" THEN [unterminated |-> TRUE]
          ELSE Cut(m, token, p + n, d - n)
  BY <1>2 DEF EndToken
<1>4. S \in SUBSET Nat /\ d \in S
  <2>1. d \in 0..d
    BY DEF Uncut
  <2> QED
    BY <2>1
<1> HIDE DEF S
<1>5. n \in S /\ \A k \in S : n <= k
  BY <1>2, <1>4, MinMember
<1>6. n \in Int /\ n >= 0 /\ n <= d /\ (n = d \/ m[p + n] = 0 \/ KindAt(n) \in {"delimiter", "unterminated"})
  BY <1>1, <1>5
<1>7. PICK e \in Int : e = p + n
  BY <1>6
<1>8. e \in p..(text + 1) /\ (n = d <=> e = text + 1) /\ d - n = text + 1 - e
  BY <1>6, <1>7 DEF Uncut
<1>9. Keeps(m, src, p, e)
  <2> SUFFICES ASSUME NEW i \in p..(e - 1) PROVE Kind(m, m[i], src) \in {"text", "nothing"}
    BY DEF Keeps
  <2>1. PICK k \in Int : k = i - p
    OBVIOUS
  <2>2. k \in 0..d /\ ~(n <= k) /\ p + k = i
    BY <1>6, <1>7, <2>1
  <2>3. ~(KindAt(k) \in {"delimiter", "unterminated"})
    BY <1>1, <1>5, <2>2
  <2> QED
    BY <2>2, <2>3, KindRange
<1> HIDE DEF KindAt
<1>10. CASE n = d
  <2>1. m[p + n] = 0
    BY <1>7, <1>8, <1>10 DEF Uncut
  <2>2. d - n = 0
    BY <1>6, <1>10
  <2> QED
    BY <1>3, <1>8, <1>9, <1>10, <2>1, <2>2
<1>11. CASE n # d
  <2>1. e \in p..text
    BY <1>8, <1>11
  <2>2. m[p + n] # 0
    BY <1>7, <2>1 DEF Uncut
  <2>3. KindAt(n) = Kind(m, m[e], src)
    BY <1>7 DEF KindAt
  <2>4. KindAt(n) \in {"delimiter", "unterminated"}
    BY <1>6, <1>11, <2>2
  <2>5. \/ EndToken(m, token, p, d, src, ptr) = [unterminated |-> TRUE]
        \/ /\ Kind(m, m[e], src) = "delimiter"
           /\ EndToken(m, token, p, d, src, ptr) = Cut(m, token, e, text + 1 - e)
    BY <1>3, <1>7, <1>8, <1>11, <2>2, <2>3, <2>4
  <2> QED
    BY <1>8, <1>9, <2>1, <2>5
<1> QED
  BY <1>10, <1>11

(* What a call of strtok gives back, by the kinds of the characters: an    *)
(* error; nothing, as the rest of the text is skipped; or the token from q *)
(* to e, which ends with the text or with a delimiter that becomes null.   *)
TokenIs(r, m, text, p, dmax, ptr, src) ==
    \/ /\ r.told # "EOK"
       /\ r = Token(m, NULL, ptr, dmax, r.told) \/ r = Token(m, NULL, NULL, dmax, r.told)
    \/ r = Token(m, NULL, ptr, 0, "EOK") /\ Skips(m, src, p, text + 1)
    \/ \E q \in p..text, e \in Int :
          /\ q < e /\ e <= text + 1
          /\ Skips(m, src, p, q) /\ Kind(m, m[q], src) = "text" /\ Keeps(m, src, q + 1, e)
          /\ \/ e = text + 1 /\ r = Token(m, q, ptr, 0, "EOK")
             \/ e <= text /\ Kind(m, m[e], src) = "delimiter" /\ r = Cut(m, q, e, text + 1 - e)

(* A call of strtok that continues at p finds the next token there, or     *)
(* tells why there is none.                                                *)
LEMMA strtokFinds ==
    ASSUME NEW m, NEW text \in Nat, NEW dest \in Nat, NEW dmax \in 0..text, NEW src,
           NEW ptr \in 0..(text + 1), NEW p, p = (IF dest = NULL THEN ptr ELSE dest),
           Uncut(m, text, p, dmax), NEW r, r = safe_strtok(m, dest, dmax, src, ptr)
    PROVE  TokenIs(r, m, text, p, dmax, ptr, src)
<1>1. p \in Int
  OBVIOUS
<1>2. PICK first : first = SkipDelimiters(m, p, dmax, src)
  OBVIOUS
<1>3. PICK rest : rest = EndToken(m, first.dest, first.dest + 1, first.dlen, src, ptr)
  OBVIOUS
<1>4. PICK bad : bad = FirstError(<<Zero(dmax), TooLong(dmax, RSIZE_MAX_STR), NullSrc(src)>>)
  OBVIOUS
<1>5. r = IF bad # "EOK" THEN Token(m, NULL, ptr, dmax, bad)
          ELSE IF first.found = "unterminated" THEN Token(m, NULL, NULL, dmax, "ESUNTERM")
          ELSE IF first.found = "end" THEN Token(m, NULL, ptr, first.dlen, "EOK")
          ELSE IF "unterminated" \in DOMAIN rest THEN Token(m, NULL, NULL, dmax, "ESUNTERM")
          ELSE rest
  BY <1>2, <1>3, <1>4 DEF safe_strtok
<1>6. CASE bad # "EOK"
  <2>1. r = Token(m, NULL, ptr, dmax, bad) /\ r.told = bad
    BY <1>5, <1>6 DEF Token
  <2> QED
    BY <1>6, <2>1 DEF TokenIs
<1>7. CASE r = Token(m, NULL, NULL, dmax, "ESUNTERM")
  <2>1. r.told = "ESUNTERM"
    BY <1>7 DEF Token
  <2> QED
    BY <1>7, <2>1 DEF TokenIs
<1>8. PICK q \in p..(text + 1) :
              /\ Skips(m, src, p, q)
              /\ \/ q = text + 1 /\ first = [found |-> "end", dlen |-> 0]
                 \/ /\ q <= text /\ Kind(m, m[q], src) \in {"text", "unterminated"}
                    /\ first = [found |-> Kind(m, m[q], src), dest |-> q, dlen |-> text - q]
  BY <1>1, <1>2, SkipStops
<1>9. CASE bad = "EOK" /\ q = text + 1 /\ first = [found |-> "end", dlen |-> 0]
  <2>1. first.found = "end" /\ first.dlen = 0
    BY <1>9
  <2>2. r = Token(m, NULL, ptr, 0, "EOK")
    BY <1>5, <1>9, <2>1
  <2> QED
    BY <1>8, <1>9, <2>2 DEF TokenIs
<1>10. CASE /\ bad = "EOK" /\ q <= text
            /\ first = [found |-> "unterminated", dest |-> q, dlen |-> text - q]
  <2>1. first.found = "unterminated"
    BY <1>10
  <2> QED
    BY <1>5, <1>7, <1>10, <2>1
<1>11. CASE /\ bad = "EOK" /\ q <= text /\ Kind(m, m[q], src) = "text"
            /\ first = [found |-> "text", dest |-> q, dlen |-> text - q]
  <2>1. first.found = "text" /\ first.dest = q /\ first.dlen = text - q
    BY <1>11
  <2>2. PICK b \in Int, d \in Int : b = q + 1 /\ d = text - q
    BY <1>1
  <2>3. rest = EndToken(m, q, b, d, src, ptr)
    BY <1>3, <2>1, <2>2
  <2>4. Uncut(m, text, b, d)
    <3>1. b >= 1 /\ d >= 0 /\ b + d = text + 1 /\ b >= p
      BY <1>1, <1>11, <2>2 DEF Uncut
    <3> QED
      BY <1>1, <3>1 DEF Uncut
  <2>5. PICK e \in b..(text + 1) :
              /\ Keeps(m, src, b, e)
              /\ \/ e = text + 1 /\ rest = Token(m, q, ptr, 0, "EOK")
                 \/ e <= text /\ rest = [unterminated |-> TRUE]
                 \/ e <= text /\ Kind(m, m[e], src) = "delimiter" /\ rest = Cut(m, q, e, text + 1 - e)
    <3>1. PICK token : token = q
      OBVIOUS
    <3>2. rest = EndToken(m, token, b, d, src, ptr)
      BY <2>3, <3>1
    <3>3. PICK e \in b..(text + 1) :
              /\ Keeps(m, src, b, e)
              /\ \/ e = text + 1 /\ rest = Token(m, token, ptr, 0, "EOK")
                 \/ e <= text /\ rest = [unterminated |-> TRUE]
                 \/ e <= text /\ Kind(m, m[e], src) = "delimiter" /\ rest = Cut(m, token, e, text + 1 - e)
      BY <2>4, <3>2, EndStops
    <3> QED
      BY <3>1, <3>3
  <2>6. e \in Int /\ q < e /\ e <= text + 1 /\ Keeps(m, src, q + 1, e) /\ q \in p..text
    BY <1>1, <1>11, <2>2, <2>5
  <2>7. CASE rest = [unterminated |-> TRUE]
    <3>1. "unterminated" \in DOMAIN rest
      BY <2>7
    <3> QED
      BY <1>5, <1>7, <1>11, <2>1, <3>1
  <2>8. CASE rest # [unterminated |-> TRUE]
    <3>1. CASE r = rest
      <4>1. \/ e = text + 1 /\ r = Token(m, q, ptr, 0, "EOK")
            \/ e <= text /\ Kind(m, m[e], src) = "delimiter" /\ r = Cut(m, q, e, text + 1 - e)
        BY <2>5, <2>8, <3>1
      <4> QED
        BY <1>8, <1>11, <2>6, <4>1 DEF TokenIs
    <3> QED
      BY <1>5, <1>7, <1>11, <2>1, <3>1
  <2> QED
    BY <2>7, <2>8
<1> QED
  BY <1>6, <1>8, <1>9, <1>10, <1>11

(* What a call of strtok hands to the next: one more cell of the text may  *)
(* be null, the rest of it is uncut, and no other cell is written.         *)
TokenDone(r, m, L, text) ==
    /\ Memory(r.mem, L) /\ \A a \in 1..L : a \notin 1..text => r.mem[a] = m[a]
    /\ r.ptr \in 0..(text + 1) /\ r.dmax \in 0..text
    /\ r.token # NULL /\ r.dmax > 0 => Uncut(r.mem, text, r.ptr, r.dmax)

(* strtok when it cuts nothing. *)
LEMMA TokenUncut ==
    ASSUME NEW m, NEW L, NEW text \in Nat, NEW token, NEW ptr \in 0..(text + 1), NEW d \in 0..text,
           NEW told, NEW r, Memory(m, L), r = Token(m, token, ptr, d, told), token = NULL \/ d = 0
    PROVE  TokenDone(r, m, L, text)
<1>1. r.mem = m /\ r.ptr = ptr /\ r.dmax = d /\ r.token = token
  BY DEF Token
<1> QED
  BY <1>1 DEF TokenDone

(* strtok when it ends a token with a null. *)
LEMMA TokenCut ==
    ASSUME NEW m, NEW L, NEW text \in Nat, NEW token, NEW p \in Int, NEW d \in Int, NEW e \in p..text,
           NEW r, Memory(m, L), text < L, Uncut(m, text, p, d), r = Cut(m, token, e, text + 1 - e)
    PROVE  TokenDone(r, m, L, text)
<1>1. e \in Int /\ e >= 1 /\ e <= text /\ L \in Nat
  BY DEF Uncut, Memory
<1>2. r.mem = Put(m, e, 0) /\ r.ptr = e + 1 /\ r.dmax = text + 1 - e - 1
  BY DEF Cut, Token
<1>3. r.dmax = text - e
  BY <1>1, <1>2
<1>4. Memory(r.mem, L) /\ \A a \in 1..L : r.mem[a] = IF a = e THEN 0 ELSE m[a]
  <2>1. PICK b \in Int : b = e
    BY <1>1
  <2>2. r.mem = Put(m, b, 0)
    BY <1>2, <2>1
  <2>3. Memory(r.mem, L)
    BY <2>2, ZeroPutType
  <2>4. \A a \in 1..L : r.mem[a] = IF a = b THEN 0 ELSE m[a]
    BY <2>2 DEF Put, Memory
  <2> QED
    BY <2>1, <2>3, <2>4
<1>5. \A a \in 1..L : a \notin 1..text => r.mem[a] = m[a]
  BY <1>1, <1>4
<1>6. r.ptr \in 0..(text + 1) /\ r.dmax \in 0..text
  BY <1>1, <1>2, <1>3
<1>7. Uncut(r.mem, text, r.ptr, r.dmax)
  <2>1. \A i \in (e + 1)..text : r.mem[i] # 0
    <3> SUFFICES ASSUME NEW i \in (e + 1)..text PROVE r.mem[i] # 0
      OBVIOUS
    <3>1. i \in p..text /\ i \in 1..L /\ i # e
      BY <1>1
    <3> QED
      BY <1>4, <3>1 DEF Uncut
  <2>2. r.mem[text + 1] = 0
    <3>1. text + 1 \in 1..L /\ text + 1 # e
      BY <1>1
    <3> QED
      BY <1>4, <3>1 DEF Uncut
  <2> QED
    BY <1>1, <1>2, <1>3, <2>1, <2>2 DEF Uncut
<1> QED
  BY <1>4, <1>5, <1>6, <1>7 DEF TokenDone

(* strtok writes within the text it cuts, and hands back what is left of   *)
(* it.                                                                     *)
LEMMA strtokDoes ==
    ASSUME NEW m, NEW L, NEW text \in Nat, NEW dest \in Nat, NEW dmax \in 0..text,
           NEW src, NEW ptr \in 0..(text + 1), NEW r, Memory(m, L), text < L,
           Uncut(m, text, IF dest = NULL THEN ptr ELSE dest, dmax),
           r = safe_strtok(m, dest, dmax, src, ptr)
    PROVE  TokenDone(r, m, L, text)
<1>1. PICK p \in Int : p = IF dest = NULL THEN ptr ELSE dest
  OBVIOUS
<1>2. Uncut(m, text, p, dmax)
  BY <1>1
<1>3. TokenIs(r, m, text, p, dmax, ptr, src)
  BY <1>1, <1>2, strtokFinds
<1>4. 0 \in 0..(text + 1) /\ 0 \in 0..text /\ NULL = 0 /\ dmax \in Int
  BY DEF NULL
<1>5. CASE r = Token(m, NULL, ptr, dmax, r.told) \/ r = Token(m, NULL, NULL, dmax, r.told)
  BY <1>4, <1>5, TokenUncut
<1>6. CASE r = Token(m, NULL, ptr, 0, "EOK")
  BY <1>4, <1>6, TokenUncut
<1>7. ASSUME NEW q \in p..text, r = Token(m, q, ptr, 0, "EOK") PROVE TokenDone(r, m, L, text)
  BY <1>4, <1>7, TokenUncut
<1>8. ASSUME NEW q \in p..text, NEW e \in p..text, r = Cut(m, q, e, text + 1 - e)
      PROVE  TokenDone(r, m, L, text)
  BY <1>2, <1>4, <1>8, TokenCut
<1>9. CASE \E q \in p..text, e \in Int :
          /\ q < e /\ e <= text + 1
          /\ \/ e = text + 1 /\ r = Token(m, q, ptr, 0, "EOK")
             \/ e <= text /\ r = Cut(m, q, e, text + 1 - e)
  BY <1>7, <1>8, <1>9
<1> QED
  BY <1>3, <1>5, <1>6, <1>9 DEF TokenIs
-----------------------------------------------------------------------------

(* What a scene must allow for its program to call a function. *)

(* The memory functions are called in their scenes only. *)
LEMMA Kinds_memory ==
    ASSUME Calls_memory
    PROVE  "bytes" \in scene.kinds \/ "units16" \in scene.kinds \/ "units32" \in scene.kinds
  BY DEF Calls_memory, Ready, OnBlocks, OnDest, OnDestAndValue,
         memcpy, memmove, memcpy16, memmove16, memcpy32, memmove32, wmemcpy, wmemmove, memset, memzero, memset16, memzero16, memset32, memzero32, wmemset

(* The copies of strings are called in their scenes only. *)
LEMMA Kinds_copy ==
    ASSUME Calls_copy
    PROVE  "copy" \in scene.kinds
  BY DEF Calls_copy, Ready, OnBlocks, OnStrings,
         strcpy, wcscpy, stpcpy, wcpcpy, strncpy, wcsncpy, strcat, wcscat, strncat, wcsncat, strcpyfld, strcpyfldin, strcpyfldout, stpncpy

(* The edits of strings are called in their scenes only. *)
LEMMA Kinds_edit ==
    ASSUME Calls_edit
    PROVE  "edit" \in scene.kinds
  BY DEF Calls_edit, Ready, OnDest,
         strzero, strnterminate, strtolowercase, strtouppercase, strljustify, strremovews

(* The functions that read are called in their scenes only. *)
LEMMA Kinds_read ==
    ASSUME Calls_read
    PROVE  "compare" \in scene.kinds \/ "edit" \in scene.kinds \/ "password" \in scene.kinds \/ "scan" \in scene.kinds
<1>1. memcmp \/ memcmp16 \/ memcmp32 \/ wmemcmp \/ strnlen \/ wcsnlen \/ strisalphanumeric \/ strisascii \/ strisdigit \/ strishex => "compare" \in scene.kinds \/ "edit" \in scene.kinds \/ "password" \in scene.kinds \/ "scan" \in scene.kinds
  BY DEF Ready, OnBlocks, OnDest, OnDestAndValue, OnStrings, memcmp, memcmp16, memcmp32, wmemcmp, strnlen, wcsnlen, strisalphanumeric, strisascii, strisdigit, strishex
<1>2. strislowercase \/ strismixedcase \/ strisuppercase \/ strispassword \/ strcmp \/ strcasecmp \/ strcmpfld \/ strfirstdiff \/ strfirstsame \/ strlastdiff => "compare" \in scene.kinds \/ "edit" \in scene.kinds \/ "password" \in scene.kinds \/ "scan" \in scene.kinds
  BY DEF Ready, OnBlocks, OnDest, OnDestAndValue, OnStrings, strislowercase, strismixedcase, strisuppercase, strispassword, strcmp, strcasecmp, strcmpfld, strfirstdiff, strfirstsame, strlastdiff
<1>3. strlastsame \/ strprefix \/ strfirstchar \/ strlastchar \/ strspn \/ strcspn \/ strpbrk \/ strstr \/ strcasestr => "compare" \in scene.kinds \/ "edit" \in scene.kinds \/ "password" \in scene.kinds \/ "scan" \in scene.kinds
  BY DEF Ready, OnBlocks, OnDest, OnDestAndValue, OnStrings, strlastsame, strprefix, strfirstchar, strlastchar, strspn, strcspn, strpbrk, strstr, strcasestr
<1> QED
  BY <1>1, <1>2, <1>3 DEF Calls_read

(* As the functions of a scene are of one kind, a program that cuts a text *)
(* calls nothing else, and one that edits or compares does not copy.        *)
LEMMA OneKind ==
    ASSUME LibInv
    PROVE  /\ Calls_memory => scene.kinds \cap {"edit", "tokens", "compare"} = {}
           /\ Calls_copy => scene.kinds \cap {"edit", "tokens", "compare"} = {} /\ scene.unit = 1
           /\ Calls_edit => scene.kinds \cap {"tokens", "compare"} = {} /\ scene.unit = 1
           /\ Calls_read => "tokens" \notin scene.kinds
<1>1. /\ \A k, l \in scene.kinds \ {"handlers"} : k = l
      /\ scene.kinds \cap {"units16", "units32"} = {} => scene.unit = 1
  BY DEF LibInv, UnitsFit
<1>2. Calls_memory => scene.kinds \cap {"edit", "tokens", "compare"} = {}
  BY <1>1, Kinds_memory
<1>3. Calls_copy => scene.kinds \cap {"edit", "tokens", "compare"} = {} /\ scene.kinds \cap {"units16", "units32"} = {}
  BY <1>1, Kinds_copy
<1>4. Calls_edit => scene.kinds \cap {"tokens", "compare"} = {} /\ scene.kinds \cap {"units16", "units32"} = {}
  BY <1>1, Kinds_edit
<1>5. Calls_read => "tokens" \notin scene.kinds
  BY <1>1, Kinds_read
<1> QED
  BY <1>1, <1>2, <1>3, <1>4, <1>5

(* Without a string to edit nothing is written. *)
LEMMA NothingToEdit ==
    ASSUME LibInv, Calls_edit, call'.dest = 0
    PROVE  mem' = mem

<1>1. ASSUME strzero PROVE mem' = mem
  <2>1. PICK dest \in scene.dests, dmax \in scene.sizes :
            Call("strzero", dest, dmax, NULL, 0, safe_strzero(mem, dest, dmax))
    BY <1>1 DEF strzero, OnDest
  <2>2. dest = 0 /\ dmax \in Nat /\ 0 \in Nat /\ 1 \in Nat
    BY <2>1 DEF Call, LibInv, ArgumentsFit
  <2>3. DestError(0, dmax, 1) # "EOK"
    BY <2>2, DestErrorIs
  <2>4. safe_strzero(mem, 0, dmax).mem = mem
    BY <2>3 DEF safe_strzero, Failed, Result
  <2> QED
    BY <2>1, <2>2, <2>4 DEF Call
<1>2. ASSUME strnterminate PROVE mem' = mem
  <2>1. PICK dest \in scene.dests, dmax \in scene.sizes :
            Call("strnterminate", dest, dmax, NULL, 0, safe_strnterminate(mem, dest, dmax))
    BY <1>2 DEF strnterminate, OnDest
  <2>2. dest = 0 /\ dmax \in Nat /\ 0 \in Nat /\ 1 \in Nat
    BY <2>1 DEF Call, LibInv, ArgumentsFit
  <2>3. DestError(0, dmax, 1) # "EOK"
    BY <2>2, DestErrorIs
  <2>4. safe_strnterminate(mem, 0, dmax).mem = mem
    BY <2>3 DEF safe_strnterminate, NULL, Failed, Result
  <2> QED
    BY <2>1, <2>2, <2>4 DEF Call
<1>3. ASSUME strtolowercase PROVE mem' = mem
  <2>1. PICK dest \in scene.dests, dmax \in scene.sizes :
            Call("strtolowercase", dest, dmax, NULL, 0, safe_strtolowercase(mem, dest, dmax))
    BY <1>3 DEF strtolowercase, OnDest
  <2>2. dest = 0 /\ dmax \in Nat /\ 0 \in Nat /\ 1 \in Nat
    BY <2>1 DEF Call, LibInv, ArgumentsFit
  <2>3. DestError(0, dmax, 1) # "EOK"
    BY <2>2, DestErrorIs
  <2>4. safe_strtolowercase(mem, 0, dmax).mem = mem
    BY <2>3 DEF safe_strtolowercase, ChangeCase, Failed, Result
  <2> QED
    BY <2>1, <2>2, <2>4 DEF Call
<1>4. ASSUME strtouppercase PROVE mem' = mem
  <2>1. PICK dest \in scene.dests, dmax \in scene.sizes :
            Call("strtouppercase", dest, dmax, NULL, 0, safe_strtouppercase(mem, dest, dmax))
    BY <1>4 DEF strtouppercase, OnDest
  <2>2. dest = 0 /\ dmax \in Nat /\ 0 \in Nat /\ 1 \in Nat
    BY <2>1 DEF Call, LibInv, ArgumentsFit
  <2>3. DestError(0, dmax, 1) # "EOK"
    BY <2>2, DestErrorIs
  <2>4. safe_strtouppercase(mem, 0, dmax).mem = mem
    BY <2>3 DEF safe_strtouppercase, ChangeCase, Failed, Result
  <2> QED
    BY <2>1, <2>2, <2>4 DEF Call
<1>5. ASSUME strljustify PROVE mem' = mem
  <2>1. PICK dest \in scene.dests, dmax \in scene.sizes :
            Call("strljustify", dest, dmax, NULL, 0, safe_strljustify(mem, dest, dmax))
    BY <1>5 DEF strljustify, OnDest
  <2>2. dest = 0 /\ dmax \in Nat /\ 0 \in Nat /\ 1 \in Nat
    BY <2>1 DEF Call, LibInv, ArgumentsFit
  <2>3. DestError(0, dmax, 1) # "EOK"
    BY <2>2, DestErrorIs
  <2>4. safe_strljustify(mem, 0, dmax).mem = mem
    BY <2>3 DEF safe_strljustify, Justify, Failed, Result
  <2> QED
    BY <2>1, <2>2, <2>4 DEF Call
<1>6. ASSUME strremovews PROVE mem' = mem
  <2>1. PICK dest \in scene.dests, dmax \in scene.sizes :
            Call("strremovews", dest, dmax, NULL, 0, safe_strremovews(mem, dest, dmax))
    BY <1>6 DEF strremovews, OnDest
  <2>2. dest = 0 /\ dmax \in Nat /\ 0 \in Nat /\ 1 \in Nat
    BY <2>1 DEF Call, LibInv, ArgumentsFit
  <2>3. DestError(0, dmax, 1) # "EOK"
    BY <2>2, DestErrorIs
  <2>4. safe_strremovews(mem, 0, dmax).mem = mem
    BY <2>3 DEF safe_strremovews, Justify, Failed, Result
  <2> QED
    BY <2>1, <2>2, <2>4 DEF Call
<1> QED
  BY <1>1, <1>2, <1>3, <1>4, <1>5, <1>6 DEF Calls_edit
-----------------------------------------------------------------------------

(* What a call leaves: a message to a handler that was set, or to the      *)
(* default, and an uncut rest of the text.                                 *)
TokenCall(L) ==
    \E told : \E r :
        /\ mem' = r.mem /\ tok'.ptr = r.ptr /\ tok'.dmax = r.dmax
        /\ call'.fn = "strtok" /\ call'.out = r.token /\ call'.heard = Heard("str", told)
        /\ UNCHANGED <<scene, handlers>> /\ DOMAIN tok' = DOMAIN tok
        /\ TokenDone(r, mem, L, scene.text)

Calls_tokens == strtok_first \/ strtok_next

(* A call of strtok is made with the text that is left. *)
LEMMA Made_tokens ==
    ASSUME LibInv, NEW L, InMemory(mem, L), Calls_tokens
    PROVE  TokenCall(L) /\ "tokens" \in scene.kinds
<1>0. "tokens" \in scene.kinds
  BY DEF Calls_tokens, strtok_first, strtok_next
<1>1. Cutting(mem, L) /\ Memory(mem, L) /\ tok.dmax \in 0..scene.text /\ tok.ptr \in 0..(scene.text + 1)
      /\ scene.text \in Nat
  BY <1>0 DEF LibInv, InMemory, TokFit, ArgumentsFit
<1>2. scene.text < L
  BY <1>1 DEF Cutting
<1>3. ASSUME NEW p \in Int, Rest(mem, p, tok.dmax) PROVE Uncut(mem, scene.text, p, tok.dmax)
  BY <1>1, <1>3 DEF Rest, Uncut, Cutting
<1>4. ASSUME NEW dest \in Nat, NEW src, CutToken(dest, src),
             dest = NULL => Uncut(mem, scene.text, tok.ptr, tok.dmax),
             dest # NULL => Uncut(mem, scene.text, dest, tok.dmax)
      PROVE  TokenCall(L)
  <2>1. PICK r : r = safe_strtok(mem, dest, tok.dmax, src, tok.ptr)
    OBVIOUS
  <2>2. TokenDone(r, mem, L, scene.text)
    BY <1>1, <1>2, <1>4, <2>1, strtokDoes
  <2>3. /\ mem' = r.mem
        /\ tok' = [tok EXCEPT !.ptr = r.ptr, !.dmax = r.dmax,
                      !.tokens = IF r.token = NULL THEN @ ELSE Append(@, StringAt(r.mem, r.token))]
        /\ call'.fn = "strtok" /\ call'.out = r.token /\ call'.heard = Heard("str", r.told)
        /\ UNCHANGED <<scene, handlers>>
    BY <1>4, <2>1 DEF CutToken
  <2>4. tok'.ptr = r.ptr /\ tok'.dmax = r.dmax
    BY <2>3 DEF LibInv, TokFit
  <2>5. DOMAIN tok' = DOMAIN tok
    BY <2>3
  <2> QED
    BY <2>2, <2>3, <2>4, <2>5 DEF TokenCall
<1>5. CASE strtok_first
  <2>1. PICK src \in scene.sources : call = NoCall /\ CutToken(1, src)
    BY <1>5 DEF strtok_first
  <2>2. Rest(mem, 1, tok.dmax)
    BY <1>1, <2>1 DEF Cutting
  <2>3. 1 \in Nat /\ 1 \in Int /\ 1 # NULL
    BY DEF NULL
  <2>4. Uncut(mem, scene.text, 1, tok.dmax)
    BY <1>3, <2>2, <2>3
  <2> QED
    BY <1>0, <1>4, <2>1, <2>3, <2>4
<1>6. CASE strtok_next
  <2>1. Rest(mem, tok.ptr, tok.dmax) /\ CutToken(NULL, call.src)
    BY <1>1, <1>6 DEF strtok_next, Cutting
  <2>2. NULL \in Nat /\ tok.ptr \in Int
    BY <1>1 DEF NULL
  <2>3. Uncut(mem, scene.text, tok.ptr, tok.dmax)
    BY <1>3, <2>1, <2>2
  <2> QED
    BY <1>0, <1>4, <2>1, <2>2, <2>3
<1> QED
  BY <1>0, <1>5, <1>6 DEF Calls_tokens

(* A call of any function. *)
CallMade(L) ==
    \/ (BlockCall(L) \/ SetCall(L)) /\ scene.unit \in {1, 2, 4} /\ scene.kinds \cap {"edit", "tokens", "compare"} = {}
    \/ /\ StringCall(L) \/ FieldCall(L) \/ PaddedCall(L)
       /\ scene.unit = 1 /\ scene.kinds \cap {"edit", "tokens", "compare"} = {}
    \/ /\ EditCall(L) \/ CaseCall(L)
       /\ scene.unit = 1 /\ scene.kinds \cap {"tokens", "compare"} = {} /\ (call'.dest = 0 => mem' = mem)
    \/ ReadCall /\ "tokens" \notin scene.kinds
    \/ TokenCall(L) /\ Calls_tokens /\ "tokens" \in scene.kinds

HandlersSet ==
    /\ UNCHANGED <<scene, mem, call, tok>>
    /\ handlers' = handlers \/ \E library \in {"str", "mem"}, handler \in {DefaultHandler, UserHandler} :
                                   handlers' = [handlers EXCEPT ![library] = handler]

(* Every step is a call, or sets a handler, or changes nothing. *)
LEMMA StepIs ==
    ASSUME LibInv, NEW L, InMemory(mem, L), [Next]_vars
    PROVE  CallMade(L) \/ HandlersSet
<1>1. CASE Calls_memory
  BY <1>1, OneKind, Made_memory DEF CallMade
<1>2. CASE Calls_copy
  BY <1>2, OneKind, Made_copy DEF CallMade
<1>3. CASE Calls_edit
  BY <1>3, OneKind, Made_edit, NothingToEdit DEF CallMade
<1>4. CASE Calls_read
  BY <1>4, OneKind, Made_read DEF CallMade
<1>5. CASE Calls_tokens
  BY <1>5, Made_tokens DEF CallMade
<1>6. CASE set_str_constraint_handler_s \/ set_safe_mem_constraint_handler
  <2>1. PICK library \in {"str", "mem"} : SetHandler(library)
    BY <1>6 DEF set_str_constraint_handler_s, set_safe_mem_constraint_handler
  <2>2. PICK handler \in {NoHandler, UserHandler} :
            handlers' = [handlers EXCEPT ![library] = IF handler = NoHandler THEN DefaultHandler ELSE handler]
    BY <2>1 DEF SetHandler
  <2>3. PICK set : set = IF handler = NoHandler THEN DefaultHandler ELSE handler
    OBVIOUS
  <2>4. set \in {DefaultHandler, UserHandler} /\ handlers' = [handlers EXCEPT ![library] = set]
    BY <2>2, <2>3
  <2>5. UNCHANGED <<scene, mem, call, tok>>
    BY <2>1 DEF SetHandler
  <2> QED
    BY <2>4, <2>5 DEF HandlersSet
<1>7. CASE UNCHANGED vars
  BY <1>7 DEF vars, HandlersSet
<1> QED
  BY <1>1, <1>2, <1>3, <1>4, <1>5, <1>6, <1>7
     DEF Next, Calls_memory, Calls_copy, Calls_edit, Calls_read, Calls_tokens

(* What a call keeps of the invariant, when it leaves a memory. *)
LEMMA HeardIs ==
    ASSUME LibInv, NEW library \in {"str", "mem"}, NEW e
    PROVE  Heard(library, e) = <<>> \/ Heard(library, e)[1] \in {DefaultHandler, UserHandler}
<1>1. handlers[library] \in {NoHandler, DefaultHandler, UserHandler}
  BY DEF LibInv, HandlersFit
<1>2. PICK h : h = IF handlers[library] = NoHandler THEN DefaultHandler ELSE handlers[library]
  OBVIOUS
<1>3. h \in {DefaultHandler, UserHandler}
  BY <1>1, <1>2
<1>4. Heard(library, e) = IF e = "EOK" THEN <<>> ELSE <<h, e>>
  BY <1>2 DEF Heard
<1> QED
  BY <1>3, <1>4

(* What a call sets. *)
LEMMA CallIs ==
    ASSUME NEW fn, NEW dest, NEW dmax, NEW src, NEW slen, NEW r, Call(fn, dest, dmax, src, slen, r)
    PROVE  /\ mem' = r.mem /\ scene' = scene /\ handlers' = handlers /\ tok' = tok
           /\ call'.fn = fn /\ call'.dest = dest /\ call'.dmax = dmax /\ call'.src = src
           /\ call'.slen = slen /\ call'.err = r.err /\ call'.out = r.out
           /\ call'.heard = Heard(scene.library, r.told)
  BY DEF Call

(* Where the memory of a scene is the same, so is what lies in it. *)
LEMMA SceneKept ==
    ASSUME LibInv, scene' = scene
    PROVE  UnitsFit' /\ ArgumentsFit' /\ \A L : (Blocks(L) => Blocks(L)') /\ (Room(L) => Room(L)')
<1>1. UnitsFit' /\ ArgumentsFit'
  BY DEF LibInv, UnitsFit, ArgumentsFit
<1>2. \A L : (Blocks(L) => Blocks(L)') /\ (Room(L) => Room(L)')
  BY DEF Blocks, Room
<1> QED
  BY <1>1, <1>2

(* A call keeps the invariant when it leaves a memory, and the floor below *)
(* the strings.                                                            *)
LEMMA CallKeeps ==
    ASSUME LibInv, NEW L, InMemory(mem, L), NEW fn, NEW dest, NEW dmax, NEW src, NEW slen, NEW r,
           Call(fn, dest, dmax, src, slen, r), "tokens" \notin scene.kinds, Memory(r.mem, L),
           "edit" \in scene.kinds => Floor(r.mem, L), "compare" \in scene.kinds => r.mem = mem
    PROVE  LibInv' /\ Memory(mem', L)
<1>1. /\ mem' = r.mem /\ scene' = scene /\ handlers' = handlers /\ tok' = tok
      /\ call'.heard = Heard(scene.library, r.told)
  BY CallIs
<1>2. UnitsFit' /\ ArgumentsFit' /\ (Blocks(L) => Blocks(L)') /\ (Room(L) => Room(L)')
  BY <1>1, SceneKept
<1>3. scene.library \in {"str", "mem"} /\ HandlersFit /\ TokFit
  BY DEF LibInv, ArgumentsFit
<1>4. HandlersFit'
  BY <1>1, <1>3, HeardIs DEF HandlersFit
<1>5. TokFit'
  BY <1>1, <1>3 DEF TokFit
<1>6. Memory(mem, L)' /\ ("edit" \in scene.kinds => Floor(mem, L)')
  BY <1>1 DEF Memory, Floor
<1>7. "compare" \in scene.kinds => Comparable(mem, L)'
  BY <1>1 DEF InMemory, Comparable
<1>8. InMemory(mem, L)'
  BY <1>1, <1>2, <1>6, <1>7 DEF InMemory
<1> QED
  BY <1>1, <1>2, <1>4, <1>5, <1>8 DEF LibInv

(* The step preserves the invariant, by the kind of call. *)
LEMMA MemoryCallKeeps ==
    ASSUME LibInv, NEW L, InMemory(mem, L), BlockCall(L) \/ SetCall(L), scene.unit \in {1, 2, 4},
           scene.kinds \cap {"edit", "tokens", "compare"} = {}
    PROVE  LibInv' /\ Memory(mem', L)
<1>1. CASE BlockCall(L)
  <2>1. PICK fn, dest, dmax, src, slen, r :
            Call(fn, dest, dmax, src, slen, r) /\ Memory(r.mem, L)
    BY <1>1 DEF BlockCall, Transfers
  <2> QED
    BY <2>1, CallKeeps
<1>2. CASE SetCall(L)
  <2>1. PICK fn \in SetFunctions, dest \in scene.dests, dmax \in scene.sizes, value \in Nat :
             \E src, slen, r :
                 /\ Call(fn, dest, dmax, src, slen, r)
                 /\ r.mem = mem \/ r.mem = Fill(mem, dest, dmax * scene.unit, value)
    BY <1>2 DEF SetCall
  <2>2. PICK src, slen, r : /\ Call(fn, dest, dmax, src, slen, r)
                            /\ r.mem = mem \/ r.mem = Fill(mem, dest, dmax * scene.unit, value)
    BY <2>1
  <2>3. Memory(mem, L)
    BY DEF InMemory
  <2>4. dest \in Nat /\ dmax \in Nat /\ dmax * scene.unit \in Nat
    BY DEF LibInv, ArgumentsFit
  <2>5. Memory(Fill(mem, dest, dmax * scene.unit, value), L)
    BY <2>3, <2>4, FillType
  <2> QED
    BY <2>2, <2>3, <2>5, CallKeeps
<1> QED
  BY <1>1, <1>2

(* The copies of strings keep the invariant. *)
LEMMA StringCallKeeps ==
    ASSUME LibInv, NEW L, InMemory(mem, L), StringCall(L) \/ FieldCall(L) \/ PaddedCall(L),
           scene.kinds \cap {"edit", "tokens", "compare"} = {}
    PROVE  LibInv' /\ Memory(mem', L)
<1>1. PICK fn, dest, dmax, src, slen, r : Call(fn, dest, dmax, src, slen, r) /\ Memory(r.mem, L)
  <2>1. CASE StringCall(L)
    BY <2>1 DEF StringCall, StringDone, Kept
  <2>2. CASE FieldCall(L)
    BY <2>2 DEF FieldCall, FieldDone, Kept
  <2>3. CASE PaddedCall(L)
    BY <2>3 DEF PaddedCall, PaddedDone
  <2> QED
    BY <2>1, <2>2, <2>3
<1> QED
  BY <1>1, CallKeeps

(* The edits of strings keep the invariant. *)
LEMMA EditCallKeeps ==
    ASSUME LibInv, NEW L, InMemory(mem, L), EditCall(L) \/ CaseCall(L), scene.kinds \cap {"tokens", "compare"} = {},
           call'.dest = 0 => mem' = mem
    PROVE  LibInv' /\ Memory(mem', L)
<1>01. \E dest \in scene.dests, dmax \in scene.sizes : \E fn, src, slen, r :
          /\ Call(fn, dest, dmax, src, slen, r) /\ Memory(r.mem, L)
          /\ \A a \in 1..L : a \notin Cells(dest, dmax) => r.mem[a] = mem[a] \/ mem[a] \in Blanks
  <2>1. CASE EditCall(L)
    <3>1. PICK fn \in EditFunctions, dest \in scene.dests, dmax \in scene.sizes : \E src, slen, r :
              /\ Call(fn, dest, dmax, src, slen, r)
              /\ fn = "strljustify" => JustifyDone(r, mem, L, dest, dmax)
              /\ fn = "strremovews" => RemoveDone(r, mem, L, dest, dmax)
      BY <2>1 DEF EditCall
    <3>2. PICK src, slen, r :
              /\ Call(fn, dest, dmax, src, slen, r)
              /\ fn = "strljustify" => JustifyDone(r, mem, L, dest, dmax)
              /\ fn = "strremovews" => RemoveDone(r, mem, L, dest, dmax)
      BY <3>1
    <3>3. JustifyDone(r, mem, L, dest, dmax) \/ RemoveDone(r, mem, L, dest, dmax)
      BY <3>2 DEF EditFunctions
    <3>4. JustifyDone(r, mem, L, dest, dmax) =>
              Memory(r.mem, L) /\ \A a \in 1..L : a \notin Cells(dest, dmax) => r.mem[a] = mem[a]
      BY DEF JustifyDone, Kept
    <3>5. RemoveDone(r, mem, L, dest, dmax) =>
              Memory(r.mem, L) /\ \A a \in 1..L : a \notin Cells(dest, dmax) =>
                                      r.mem[a] = mem[a] \/ mem[a] \in Blanks
      BY DEF RemoveDone
    <3> QED
      BY <3>2, <3>3, <3>4, <3>5
  <2>2. CASE CaseCall(L)
    <3>1. PICK fn \in CaseFunctions, dest \in scene.dests, dmax \in scene.sizes : \E src, slen, r :
              Call(fn, dest, dmax, src, slen, r) /\ Kept(r, mem, L, dest, dmax)
      BY <2>2 DEF CaseCall
    <3>2. PICK src, slen, r : Call(fn, dest, dmax, src, slen, r) /\ Kept(r, mem, L, dest, dmax)
      BY <3>1
    <3>3. Memory(r.mem, L) /\ \A a \in 1..L : a \notin Cells(dest, dmax) => r.mem[a] = mem[a]
      BY <3>2 DEF Kept
    <3> QED
      BY <3>2, <3>3
  <2> QED
    BY <2>1, <2>2
<1>0. PICK dest \in scene.dests, dmax \in scene.sizes : \E fn, src, slen, r :
          /\ Call(fn, dest, dmax, src, slen, r) /\ Memory(r.mem, L)
          /\ \A a \in 1..L : a \notin Cells(dest, dmax) => r.mem[a] = mem[a] \/ mem[a] \in Blanks
  BY <1>01
<1>1. PICK fn, src, slen, r :
          /\ Call(fn, dest, dmax, src, slen, r) /\ Memory(r.mem, L)
          /\ \A a \in 1..L : a \notin Cells(dest, dmax) => r.mem[a] = mem[a] \/ mem[a] \in Blanks
  BY <1>0
<1>2. mem' = r.mem /\ call'.dest = dest
  BY <1>1, CallIs
<1>3. ASSUME "edit" \in scene.kinds PROVE Floor(r.mem, L)
  <2>1. PICK x \in 1..L : mem[x] \notin Blanks /\ \A p \in scene.dests : p # 0 => x < p
    BY <1>3 DEF InMemory, Floor
  <2>2. CASE dest = 0
    <3>1. r.mem = mem
      BY <1>2, <2>2
    <3> QED
      BY <2>1, <3>1 DEF Floor
  <2>3. CASE dest # 0
    <3>1. x < dest /\ dest \in Nat /\ dmax \in Nat /\ L \in Nat
      BY <2>1, <2>3 DEF LibInv, ArgumentsFit, InMemory, Memory
    <3>2. x \notin Cells(dest, dmax)
      BY <3>1 DEF Cells
    <3>3. r.mem[x] = mem[x]
      BY <1>1, <2>1, <3>2
    <3> QED
      BY <2>1, <3>3 DEF Floor
  <2> QED
    BY <2>2, <2>3
<1> QED
  BY <1>1, <1>3, CallKeeps

(* The functions that read keep the invariant. *)
LEMMA ReadCallKeeps ==
    ASSUME LibInv, NEW L, InMemory(mem, L), ReadCall, "tokens" \notin scene.kinds
    PROVE  LibInv' /\ Memory(mem', L)
<1>1. PICK fn \in ReadFunctions : \E dest, dmax, src, slen, r :
          Call(fn, dest, dmax, src, slen, r) /\ r.mem = mem
  BY DEF ReadCall
<1>2. PICK dest, dmax, src, slen, r : Call(fn, dest, dmax, src, slen, r) /\ r.mem = mem
  BY <1>1
<1>3. Memory(r.mem, L) /\ ("edit" \in scene.kinds => Floor(r.mem, L))
  BY <1>2 DEF InMemory
<1> QED
  BY <1>2, <1>3, CallKeeps

(* strtok keeps the invariant. *)
LEMMA TokenCallKeeps ==
    ASSUME LibInv, NEW L, InMemory(mem, L), TokenCall(L), "tokens" \in scene.kinds
    PROVE  LibInv' /\ Memory(mem', L)
<1>1. PICK told : \E r :
        /\ mem' = r.mem /\ tok'.ptr = r.ptr /\ tok'.dmax = r.dmax
        /\ call'.fn = "strtok" /\ call'.out = r.token /\ call'.heard = Heard("str", told)
        /\ UNCHANGED <<scene, handlers>> /\ DOMAIN tok' = DOMAIN tok
        /\ TokenDone(r, mem, L, scene.text)
  BY DEF TokenCall
<1>2. PICK r :
        /\ mem' = r.mem /\ tok'.ptr = r.ptr /\ tok'.dmax = r.dmax
        /\ call'.fn = "strtok" /\ call'.out = r.token /\ call'.heard = Heard("str", told)
        /\ scene' = scene /\ handlers' = handlers /\ DOMAIN tok' = DOMAIN tok
        /\ TokenDone(r, mem, L, scene.text)
  BY <1>1
<1>3. UnitsFit' /\ ArgumentsFit' /\ (Blocks(L) => Blocks(L)') /\ (Room(L) => Room(L)')
  BY <1>2, SceneKept
<1>4. HandlersFit'
  <2>1. call'.heard = <<>> \/ call'.heard[1] \in {DefaultHandler, UserHandler}
    BY <1>2, HeardIs
  <2> QED
    BY <1>2, <2>1 DEF LibInv, HandlersFit
<1>5. TokFit'
  BY <1>2 DEF LibInv, TokFit, TokenDone
<1>6. Cutting(mem, L)'
  <2>1. call' # NoCall
    BY <1>2 DEF NoCall
  <2>2. Cutting(mem, L) /\ scene.text \in Nat /\ L \in Nat /\ Memory(mem, L)
    BY DEF InMemory, Memory, LibInv, ArgumentsFit
  <2>3. scene.text < L /\ mem[scene.text + 1] = 0
    BY <2>2 DEF Cutting
  <2>4. scene.text + 1 \in 1..L /\ scene.text + 1 \notin 1..scene.text
    BY <2>2, <2>3
  <2>5. r.mem[scene.text + 1] = 0
    BY <1>2, <2>3, <2>4 DEF TokenDone
  <2>6. call'.out # NULL /\ tok'.dmax > 0 => Rest(mem, tok.ptr, tok.dmax)'
    BY <1>2 DEF TokenDone, Uncut, Rest
  <2> QED
    BY <1>2, <2>1, <2>3, <2>5, <2>6 DEF Cutting, Rest
<1>7. InMemory(mem, L)'
  <2>1. "edit" \notin scene.kinds /\ "compare" \notin scene.kinds
    BY DEF LibInv, UnitsFit
  <2>2. Memory(mem, L)'
    BY <1>2 DEF TokenDone, Memory
  <2> QED
    BY <1>2, <1>3, <1>6, <2>1, <2>2 DEF InMemory
<1>8. Memory(mem', L)
  BY <1>2 DEF TokenDone
<1> QED
  BY <1>3, <1>4, <1>5, <1>7, <1>8 DEF LibInv

(* Setting a constraint handler keeps the invariant. *)
LEMMA HandlersSetKeeps ==
    ASSUME LibInv, HandlersSet
    PROVE  LibInv'
<1>1. UNCHANGED <<scene, mem, call, tok>> /\ HandlersFit
  BY DEF HandlersSet, LibInv
<1>2. UnitsFit' /\ ArgumentsFit' /\ \A L : (Blocks(L) => Blocks(L)') /\ (Room(L) => Room(L)')
  BY <1>1, SceneKept
<1>3. handlers' \in [{"str", "mem"} -> {NoHandler, DefaultHandler, UserHandler}]
  BY <1>1 DEF HandlersSet, HandlersFit
<1>4. HandlersFit'
  BY <1>1, <1>3 DEF HandlersFit
<1>5. TokFit'
  BY <1>1 DEF LibInv, TokFit
<1>6. PICK L : InMemory(mem, L)
  BY DEF LibInv
<1>7. InMemory(mem, L)'
  <2>1. (Floor(mem, L) => Floor(mem, L)') /\ (Cutting(mem, L) => Cutting(mem, L)')
    BY <1>1 DEF Floor, Cutting, Rest
  <2>2. Comparable(mem, L) => Comparable(mem, L)'
    BY <1>1 DEF Comparable
  <2> QED
    BY <1>1, <1>2, <1>6, <2>1, <2>2 DEF InMemory, Memory
<1> QED
  BY <1>2, <1>4, <1>5, <1>7 DEF LibInv
-----------------------------------------------------------------------------

(* The invariant is inductive. *)
LEMMA LibInvStep == LibInv /\ [Next]_vars => LibInv'
<1> SUFFICES ASSUME LibInv, [Next]_vars PROVE LibInv'
  OBVIOUS
<1>1. PICK L : InMemory(mem, L)
  BY DEF LibInv
<1>2. CallMade(L) \/ HandlersSet
  BY <1>1, StepIs
<1> QED
  BY <1>1, <1>2, MemoryCallKeeps, StringCallKeeps, EditCallKeeps, ReadCallKeeps, TokenCallKeeps,
     HandlersSetKeeps DEF CallMade

(* Whatever a program calls, and however often, its memory keeps its size, *)
(* the arguments of a scene stay in it, below every string to be trimmed   *)
(* lies a character that is no blank, and what strtok hands from a call to *)
(* the next is the uncut rest of the text.                                 *)
THEOREM LibraryInvariant == Spec => []LibInv
  BY LibInvInit, LibInvStep, PTL DEF Spec

(* Every cell of the memory stays a number, a handler that is told of an   *)
(* error is one that was set, or the default, and neither the position nor *)
(* the length that strtok hands back leaves the text (safe_strtok.c).      *)
THEOREM LibraryTypeCorrect == Spec => []TypeOK
<1>1. LibInv => TypeOK
  <2> SUFFICES ASSUME LibInv PROVE TypeOK
    OBVIOUS
  <2>1. PICK L : Memory(mem, L)
    BY DEF LibInv, InMemory
  <2>2. \A a \in DOMAIN mem : mem[a] \in Nat
    BY <2>1 DEF Memory
  <2> QED
    BY <2>2 DEF LibInv, HandlersFit, TokFit, TypeOK
<1> QED
  BY LibraryInvariant, <1>1, PTL

-----------------------------------------------------------------------------
(* The calls of each shape, with what they leave. *)
LEMMA NoFunctionTwice ==
    /\ MemoryFunctions \cap SetFunctions = {}
    /\ (MemoryFunctions \cup SetFunctions) \cap (StringCopies \cup StringAppends \cup FieldFunctions
            \cup {"stpncpy"} \cup EditFunctions \cup CaseFunctions \cup ReadFunctions \cup {"strtok"}) = {}
    /\ (StringCopies \cup StringAppends) \cap (FieldFunctions \cup {"stpncpy"} \cup EditFunctions
            \cup CaseFunctions \cup ReadFunctions \cup {"strtok"}) = {}
    /\ FieldFunctions \cap ({"stpncpy"} \cup EditFunctions \cup CaseFunctions \cup ReadFunctions
            \cup {"strtok"}) = {}
    /\ {"stpncpy"} \cap (EditFunctions \cup CaseFunctions \cup ReadFunctions \cup {"strtok"}) = {}
    /\ EditFunctions \cap (CaseFunctions \cup ReadFunctions \cup {"strtok"}) = {}
  BY DEF MemoryFunctions, MoveFunctions, CopyFunctions, SetFunctions, StringCopies, StringAppends,
         FieldFunctions, EditFunctions, CaseFunctions, ReadFunctions

BlockMade(L) ==
    \E r :
        /\ call'.fn \in MemoryFunctions /\ mem' = r.mem /\ call'.err = r.err
        /\ call'.dest \in Nat /\ call'.dmax \in Nat /\ call'.src \in Nat /\ call'.slen \in Nat
        /\ Transfers(r, mem, L, call'.dest, call'.src, call'.slen * scene.unit, call'.dmax * scene.unit)
        /\ call'.fn \in CopyFunctions /\ r.err = "EOK" =>
              call'.slen <= call'.dmax
              /\ ~Overlap(call'.dest, call'.dmax, call'.src, call'.slen, scene.unit)

SetMade(L) ==
    \E value \in Nat :
        /\ call'.fn \in SetFunctions /\ call'.dest \in Nat /\ call'.dmax \in Nat
        /\ mem' = mem \/ mem' = Fill(mem, call'.dest, call'.dmax * scene.unit, value)

StringMade(L) ==
    \E r :
        /\ call'.fn \in StringCopies \cup StringAppends /\ mem' = r.mem /\ call'.err = r.err
        /\ call'.dest \in Nat /\ call'.dmax \in Nat /\ call'.src \in Nat
        /\ call'.slen \in Nat \cup {NoLimit}
        /\ Strings(mem, L, call'.dest, call'.dmax, call'.src)
        /\ StringDone(r, mem, L, call'.dest, call'.dmax, CharSize(call'.fn), call'.src, call'.slen,
                      call'.fn \in StringAppends)

FieldMade(L) ==
    \E r :
        /\ call'.fn \in FieldFunctions /\ mem' = r.mem /\ call'.err = r.err
        /\ call'.dest \in Nat /\ call'.dmax \in Nat /\ call'.src \in Nat /\ call'.slen \in Nat
        /\ FieldDone(r, call'.fn, mem, L, call'.dest, call'.dmax, call'.src, call'.slen)

PaddedMade(L) ==
    \E r :
        /\ call'.fn = "stpncpy" /\ mem' = r.mem /\ call'.err = r.err
        /\ call'.dest \in Nat /\ call'.dmax \in Nat /\ call'.src \in Nat /\ call'.slen \in Nat
        /\ PaddedDone(r, mem, L, call'.dest, call'.dmax, call'.src, call'.slen)

EditMade(L) ==
    \E r :
        /\ call'.fn \in EditFunctions /\ mem' = r.mem /\ call'.err = r.err
        /\ call'.dest \in Nat /\ call'.dmax \in Nat
        /\ call'.fn = "strljustify" => JustifyDone(r, mem, L, call'.dest, call'.dmax)
        /\ call'.fn = "strremovews" => RemoveDone(r, mem, L, call'.dest, call'.dmax)

CaseMade(L) ==
    \E r :
        /\ call'.fn \in CaseFunctions /\ mem' = r.mem
        /\ call'.dest \in Nat /\ call'.dmax \in Nat /\ Kept(r, mem, L, call'.dest, call'.dmax)

ReadMade ==
    \E r :
        /\ call'.fn \in ReadFunctions /\ mem' = mem /\ call'.out = r.out
        /\ call'.heard = Heard(scene.library, r.told)
        /\ ReadDone(call'.fn, r, mem, call'.dest, call'.dmax, call'.src, call'.slen)

TokenMade(L) ==
    call'.fn = "strtok" /\ \A a \in 1..L : a \notin 1..scene.text => mem'[a] = mem[a]

(* A step, by what it leaves. *)
Left(L) ==
    /\ InMemory(mem, L) /\ Memory(mem, L) /\ Memory(mem', L)
    /\ \/ mem' = mem /\ call' = call
       \/ (BlockMade(L) \/ SetMade(L)) /\ scene.unit \in {1, 2, 4}
       \/ (StringMade(L) \/ FieldMade(L) \/ PaddedMade(L)) /\ scene.unit = 1
       \/ (EditMade(L) \/ CaseMade(L)) /\ scene.unit = 1
       \/ ReadMade
       \/ TokenMade(L)

(* What a call of a copy or a move leaves. *)
LEMMA BlockIsMade ==
    ASSUME LibInv, NEW L, BlockCall(L)
    PROVE  BlockMade(L)
<1>1. PICK fn \in MemoryFunctions, dest \in scene.dests, dmax \in scene.sizes,
           src \in scene.sources, slen \in scene.lengths : \E r :
        /\ Call(fn, dest, dmax, src, slen, r)
        /\ Transfers(r, mem, L, dest, src, slen * scene.unit, dmax * scene.unit)
        /\ fn \in CopyFunctions /\ r.err = "EOK" =>
              slen <= dmax /\ ~Overlap(dest, dmax, src, slen, scene.unit)
  BY DEF BlockCall
<1>2. PICK r :
        /\ Call(fn, dest, dmax, src, slen, r)
        /\ Transfers(r, mem, L, dest, src, slen * scene.unit, dmax * scene.unit)
        /\ fn \in CopyFunctions /\ r.err = "EOK" =>
              slen <= dmax /\ ~Overlap(dest, dmax, src, slen, scene.unit)
  BY <1>1
<1>3. /\ mem' = r.mem /\ call'.fn = fn /\ call'.dest = dest /\ call'.dmax = dmax
      /\ call'.src = src /\ call'.slen = slen /\ call'.err = r.err
  BY <1>2, CallIs
<1>4. dest \in Nat /\ dmax \in Nat /\ src \in Nat /\ slen \in Nat
  BY DEF LibInv, ArgumentsFit
<1> QED
  BY <1>2, <1>3, <1>4 DEF BlockMade

(* What a call of a function that fills leaves. *)
LEMMA SetIsMade ==
    ASSUME LibInv, NEW L, SetCall(L)
    PROVE  SetMade(L)
<1>1. PICK fn \in SetFunctions, dest \in scene.dests, dmax \in scene.sizes, value \in Nat :
          \E src, slen, r :
        /\ Call(fn, dest, dmax, src, slen, r)
        /\ r.mem = mem \/ r.mem = Fill(mem, dest, dmax * scene.unit, value)
  BY DEF SetCall
<1>2. PICK src, slen, r :
        /\ Call(fn, dest, dmax, src, slen, r)
        /\ r.mem = mem \/ r.mem = Fill(mem, dest, dmax * scene.unit, value)
  BY <1>1
<1>3. mem' = r.mem /\ call'.fn = fn /\ call'.dest = dest /\ call'.dmax = dmax
  BY <1>2, CallIs
<1>4. dest \in Nat /\ dmax \in Nat
  BY DEF LibInv, ArgumentsFit
<1> QED
  BY <1>2, <1>3, <1>4 DEF SetMade

(* What a call that copies or appends a string leaves. *)
LEMMA StringIsMade ==
    ASSUME LibInv, NEW L, StringCall(L)
    PROVE  StringMade(L)
<1>1. PICK fn \in StringCopies \cup StringAppends, dest \in scene.dests, dmax \in scene.sizes,
           src \in scene.sources, slen \in scene.lengths \cup {NoLimit} : \E r :
        /\ Call(fn, dest, dmax, src, slen, r) /\ Strings(mem, L, dest, dmax, src)
        /\ StringDone(r, mem, L, dest, dmax, CharSize(fn), src, slen, fn \in StringAppends)
  BY DEF StringCall
<1>2. PICK r :
        /\ Call(fn, dest, dmax, src, slen, r) /\ Strings(mem, L, dest, dmax, src)
        /\ StringDone(r, mem, L, dest, dmax, CharSize(fn), src, slen, fn \in StringAppends)
  BY <1>1
<1>3. /\ mem' = r.mem /\ call'.fn = fn /\ call'.dest = dest /\ call'.dmax = dmax
      /\ call'.src = src /\ call'.slen = slen /\ call'.err = r.err
  BY <1>2, CallIs
<1>4. dest \in Nat /\ dmax \in Nat /\ src \in Nat /\ slen \in Nat \cup {NoLimit}
  BY DEF LibInv, ArgumentsFit
<1>5. StringDone(r, mem, L, call'.dest, call'.dmax, CharSize(call'.fn), call'.src, call'.slen,
                 call'.fn \in StringAppends)
  BY <1>2, <1>3
<1>6. Strings(mem, L, call'.dest, call'.dmax, call'.src)
  BY <1>2, <1>3
<1> QED
  BY <1>3, <1>4, <1>5, <1>6 DEF StringMade

(* What a call that copies a field leaves. *)
LEMMA FieldIsMade ==
    ASSUME LibInv, NEW L, FieldCall(L)
    PROVE  FieldMade(L)
<1>1. PICK fn \in FieldFunctions, dest \in scene.dests, dmax \in scene.sizes,
           src \in scene.sources, slen \in scene.lengths : \E r :
        Call(fn, dest, dmax, src, slen, r) /\ FieldDone(r, fn, mem, L, dest, dmax, src, slen)
  BY DEF FieldCall
<1>2. PICK r : Call(fn, dest, dmax, src, slen, r) /\ FieldDone(r, fn, mem, L, dest, dmax, src, slen)
  BY <1>1
<1>3. /\ mem' = r.mem /\ call'.fn = fn /\ call'.dest = dest /\ call'.dmax = dmax
      /\ call'.src = src /\ call'.slen = slen /\ call'.err = r.err
  BY <1>2, CallIs
<1>4. dest \in Nat /\ dmax \in Nat /\ src \in Nat /\ slen \in Nat
  BY DEF LibInv, ArgumentsFit
<1> QED
  BY <1>2, <1>3, <1>4 DEF FieldMade

(* What a call of stpncpy leaves. *)
LEMMA PaddedIsMade ==
    ASSUME LibInv, NEW L, PaddedCall(L)
    PROVE  PaddedMade(L)
<1>1. PICK dest \in scene.dests, dmax \in scene.sizes,
           src \in scene.sources, slen \in scene.lengths : \E r :
        Call("stpncpy", dest, dmax, src, slen, r) /\ PaddedDone(r, mem, L, dest, dmax, src, slen)
  BY DEF PaddedCall
<1>2. PICK r : Call("stpncpy", dest, dmax, src, slen, r) /\ PaddedDone(r, mem, L, dest, dmax, src, slen)
  BY <1>1
<1>3. /\ mem' = r.mem /\ call'.fn = "stpncpy" /\ call'.dest = dest /\ call'.dmax = dmax
      /\ call'.src = src /\ call'.slen = slen /\ call'.err = r.err
  BY <1>2, CallIs
<1>4. dest \in Nat /\ dmax \in Nat /\ src \in Nat /\ slen \in Nat
  BY DEF LibInv, ArgumentsFit
<1> QED
  BY <1>2, <1>3, <1>4 DEF PaddedMade

(* What a call of strljustify or strremovews leaves. *)
LEMMA EditIsMade ==
    ASSUME LibInv, NEW L, EditCall(L)
    PROVE  EditMade(L)
<1>1. PICK fn \in EditFunctions, dest \in scene.dests, dmax \in scene.sizes : \E src, slen, r :
        /\ Call(fn, dest, dmax, src, slen, r)
        /\ fn = "strljustify" => JustifyDone(r, mem, L, dest, dmax)
        /\ fn = "strremovews" => RemoveDone(r, mem, L, dest, dmax)
  BY DEF EditCall
<1>2. PICK src, slen, r :
        /\ Call(fn, dest, dmax, src, slen, r)
        /\ fn = "strljustify" => JustifyDone(r, mem, L, dest, dmax)
        /\ fn = "strremovews" => RemoveDone(r, mem, L, dest, dmax)
  BY <1>1
<1>3. /\ mem' = r.mem /\ call'.fn = fn /\ call'.dest = dest /\ call'.dmax = dmax /\ call'.err = r.err
  BY <1>2, CallIs
<1>4. dest \in Nat /\ dmax \in Nat
  BY DEF LibInv, ArgumentsFit
<1> QED
  BY <1>2, <1>3, <1>4 DEF EditMade

(* What a call that changes the case or the end of a string leaves. *)
LEMMA CaseIsMade ==
    ASSUME LibInv, NEW L, CaseCall(L)
    PROVE  CaseMade(L)
<1>1. PICK fn \in CaseFunctions, dest \in scene.dests, dmax \in scene.sizes : \E src, slen, r :
        Call(fn, dest, dmax, src, slen, r) /\ Kept(r, mem, L, dest, dmax)
  BY DEF CaseCall
<1>2. PICK src, slen, r : Call(fn, dest, dmax, src, slen, r) /\ Kept(r, mem, L, dest, dmax)
  BY <1>1
<1>3. /\ mem' = r.mem /\ call'.fn = fn /\ call'.dest = dest /\ call'.dmax = dmax
  BY <1>2, CallIs
<1>4. dest \in Nat /\ dmax \in Nat
  BY DEF LibInv, ArgumentsFit
<1> QED
  BY <1>2, <1>3, <1>4 DEF CaseMade

(* What a call that reads leaves. *)
LEMMA ReadIsMade ==
    ASSUME ReadCall
    PROVE  ReadMade
<1>1. PICK fn \in ReadFunctions : \E dest, dmax, src, slen, r :
          Call(fn, dest, dmax, src, slen, r) /\ r.mem = mem /\ ReadDone(fn, r, mem, dest, dmax, src, slen)
  BY DEF ReadCall
<1>2. PICK dest, dmax, src, slen, r :
          Call(fn, dest, dmax, src, slen, r) /\ r.mem = mem /\ ReadDone(fn, r, mem, dest, dmax, src, slen)
  BY <1>1
<1>3. /\ mem' = r.mem /\ call'.fn = fn /\ call'.dest = dest /\ call'.dmax = dmax
      /\ call'.src = src /\ call'.slen = slen /\ call'.out = r.out
      /\ call'.heard = Heard(scene.library, r.told)
  BY <1>2, CallIs
<1>4. ReadDone(call'.fn, r, mem, call'.dest, call'.dmax, call'.src, call'.slen)
  BY <1>2, <1>3
<1> QED
  BY <1>2, <1>3, <1>4 DEF ReadMade

(* What a call of strtok leaves. *)
LEMMA TokenIsMade ==
    ASSUME NEW L, TokenCall(L)
    PROVE  TokenMade(L)
  BY DEF TokenCall, TokenDone, TokenMade

(* Every step, by what it leaves. *)
LEMMA StepLeaves ==
    ASSUME LibInv, [Next]_vars
    PROVE  \E L : Left(L)
<1>1. PICK L : InMemory(mem, L)
  BY DEF LibInv
<1>2. Memory(mem, L)
  BY <1>1 DEF InMemory
<1>3. CallMade(L) \/ HandlersSet
  BY <1>1, StepIs
<1>4. CASE HandlersSet
  BY <1>1, <1>2, <1>4 DEF HandlersSet, Left
<1>5. CASE CallMade(L)
  <2>1. Memory(mem', L)
    BY <1>1, <1>5, MemoryCallKeeps, StringCallKeeps, EditCallKeeps, ReadCallKeeps, TokenCallKeeps
       DEF CallMade
  <2> QED
    BY <1>1, <1>2, <1>5, <2>1, BlockIsMade, SetIsMade, StringIsMade, FieldIsMade, PaddedIsMade, EditIsMade,
       CaseIsMade, ReadIsMade, TokenIsMade DEF CallMade, Left
<1> QED
  BY <1>3, <1>4, <1>5
-----------------------------------------------------------------------------

(* Whatever the size of the memory, the alignment of the two blocks, their *)
(* length and their overlap, every successful call of a function that      *)
(* moves or copies a block leaves what a move through a buffer would       *)
(* leave, and the blocks that were copied do not overlap                   *)
(* (safe_mem_primitives_lib.c).                                            *)
THEOREM LibraryMovesThroughABuffer == Spec => MovesLikeThroughABuffer
<1> DEFINE Moved ==
      Calls(MoveFunctions \cup CopyFunctions) /\ Succeeds =>
          LET n == call'.slen * scene.unit
          IN  /\ mem' = [a \in DOMAIN mem |-> IF a \in Cells(call'.dest, n)
                                              THEN mem[call'.src + (a - call'.dest)]
                                              ELSE mem[a]]
              /\ call'.fn \in CopyFunctions /\ call'.dest # call'.src =>
                     Disjoint(call'.dest, n, call'.src, n)
<1>1. LibInv /\ [Next]_vars => [Moved]_vars
  <2> SUFFICES ASSUME LibInv, [Next]_vars, Calls(MoveFunctions \cup CopyFunctions), Succeeds PROVE Moved
    OBVIOUS
  <2>1. PICK L : Left(L)
    BY StepLeaves
  <2>2. call'.fn \in MemoryFunctions /\ call' # call
    BY DEF Calls, MemoryFunctions
  <2>3. BlockMade(L) /\ scene.unit \in {1, 2, 4}
    BY <2>1, <2>2, NoFunctionTwice DEF Left, SetMade, StringMade, FieldMade, PaddedMade, EditMade,
       CaseMade, ReadMade, TokenMade
  <2>4. PICK r :
        /\ mem' = r.mem /\ call'.err = r.err
        /\ call'.dest \in Nat /\ call'.dmax \in Nat /\ call'.src \in Nat /\ call'.slen \in Nat
        /\ Transfers(r, mem, L, call'.dest, call'.src, call'.slen * scene.unit, call'.dmax * scene.unit)
        /\ call'.fn \in CopyFunctions /\ r.err = "EOK" =>
              call'.slen <= call'.dmax
              /\ ~Overlap(call'.dest, call'.dmax, call'.src, call'.slen, scene.unit)
    BY <2>3 DEF BlockMade
  <2>5. r.err = "EOK"
    BY <2>4 DEF Succeeds
  <2>6. mem' = CopyUnit(mem, call'.dest, call'.src, call'.slen * scene.unit)
    BY <2>4, <2>5 DEF Transfers
  <2>7. call'.fn \in CopyFunctions /\ call'.dest # call'.src =>
            Disjoint(call'.dest, call'.slen * scene.unit, call'.src, call'.slen * scene.unit)
    BY <2>3, <2>4, <2>5, ApartRegions
  <2> QED
    BY <2>6, <2>7 DEF CopyUnit, Cells
<1>2. [][Moved]_vars => MovesLikeThroughABuffer
  BY DEF MovesLikeThroughABuffer
<1> HIDE DEF Moved
<1> QED
  BY LibraryInvariant, <1>1, <1>2, PTL DEF Spec

(* No function writes outside the units it is given, whatever the memory   *)
(* and the arguments, except for the two writes that are known.            *)
THEOREM LibraryWritesStayInDest == Spec => WritesStayInDest
<1> DEFINE Within ==
      \A a \in DOMAIN mem : mem'[a] # mem[a] =>
          \/ a \in Cells(call'.dest, call'.dmax * scene.unit)
          \/ call'.fn = "strtok" /\ a \in 1..scene.text
          \/ call'.fn = "stpncpy" /\ call'.dmax = 0 /\ a = call'.dest
          \/ call'.fn = "strremovews" /\ SkipBlanks(mem, call'.dest) > call'.dest
                 /\ mem[SkipBlanks(mem, call'.dest)] = 0
<1>1. LibInv /\ [Next]_vars => [Within]_vars
  <2> SUFFICES ASSUME LibInv, [Next]_vars, NEW a \in DOMAIN mem, mem'[a] # mem[a],
                      a \notin Cells(call'.dest, call'.dmax * scene.unit)
               PROVE  \/ call'.fn = "strtok" /\ a \in 1..scene.text
                      \/ call'.fn = "stpncpy" /\ call'.dmax = 0 /\ a = call'.dest
                      \/ call'.fn = "strremovews" /\ SkipBlanks(mem, call'.dest) > call'.dest
                             /\ mem[SkipBlanks(mem, call'.dest)] = 0
    OBVIOUS
  <2>1. PICK L : Left(L)
    BY StepLeaves
  <2>2. L \in Nat /\ a \in 1..L /\ DOMAIN mem = 1..L /\ mem' # mem
    BY <2>1 DEF Left, Memory
  <2>3. scene.unit = 1 /\ call'.dmax \in Nat => a \notin Cells(call'.dest, call'.dmax)
    BY DEF Cells
  <2>4. CASE BlockMade(L) /\ scene.unit \in {1, 2, 4}
    <3>1. PICK r :
        /\ mem' = r.mem /\ call'.dest \in Nat /\ call'.slen \in Nat /\ call'.dmax \in Nat
        /\ Transfers(r, mem, L, call'.dest, call'.src, call'.slen * scene.unit, call'.dmax * scene.unit)
      BY <2>4 DEF BlockMade
    <3>2. PICK n \in Nat : n = call'.slen * scene.unit
      BY <2>4, <3>1
    <3>3. PICK size \in Nat : size = call'.dmax * scene.unit
      BY <2>4, <3>1
    <3>4. \/ mem' = CopyUnit(mem, call'.dest, call'.src, n) /\ n <= size
          \/ mem' = Fill(mem, call'.dest, size, 0)
      BY <2>2, <3>1, <3>2, <3>3 DEF Transfers
    <3>5. a \notin Cells(call'.dest, size)
      BY <3>3
    <3>6. mem'[a] = mem[a]
      BY <2>2, <3>1, <3>4, <3>5 DEF CopyUnit, Fill, Cells
    <3> QED
      BY <3>6
  <2>5. CASE SetMade(L) /\ scene.unit \in {1, 2, 4}
    <3>1. PICK value \in Nat : mem' = mem \/ mem' = Fill(mem, call'.dest, call'.dmax * scene.unit, value)
      BY <2>5 DEF SetMade
    <3>2. PICK size : size = call'.dmax * scene.unit
      OBVIOUS
    <3>3. mem' = Fill(mem, call'.dest, size, value) /\ a \notin Cells(call'.dest, size)
      BY <2>2, <3>1, <3>2
    <3>4. mem'[a] = mem[a]
      BY <3>3 DEF Fill, Cells
    <3> QED
      BY <3>4
  <2>6. CASE (StringMade(L) \/ FieldMade(L) \/ CaseMade(L)) /\ scene.unit = 1
    <3>1. PICK r : mem' = r.mem /\ Kept(r, mem, L, call'.dest, call'.dmax) /\ call'.dmax \in Nat
      BY <2>6 DEF StringMade, StringDone, FieldMade, FieldDone, CaseMade
    <3>2. mem'[a] = mem[a]
      BY <2>2, <2>3, <2>6, <3>1 DEF Kept
    <3> QED
      BY <3>2
  <2>7. CASE PaddedMade(L) /\ scene.unit = 1
    <3>1. PICK r : /\ mem' = r.mem /\ call'.fn = "stpncpy" /\ call'.dmax \in Nat
                   /\ PaddedDone(r, mem, L, call'.dest, call'.dmax, call'.src, call'.slen)
      BY <2>7 DEF PaddedMade
    <3> QED
      BY <2>2, <2>3, <2>7, <3>1 DEF PaddedDone
  <2>8. CASE EditMade(L) /\ scene.unit = 1
    <3>1. PICK r :
        /\ call'.fn \in EditFunctions /\ mem' = r.mem /\ call'.dmax \in Nat
        /\ call'.fn = "strljustify" => JustifyDone(r, mem, L, call'.dest, call'.dmax)
        /\ call'.fn = "strremovews" => RemoveDone(r, mem, L, call'.dest, call'.dmax)
      BY <2>8 DEF EditMade
    <3>2. a \notin Cells(call'.dest, call'.dmax)
      BY <2>3, <2>8, <3>1
    <3>3. call'.fn # "strljustify"
      BY <2>2, <3>1, <3>2 DEF JustifyDone, Kept
    <3>4. call'.fn = "strremovews"
      BY <3>1, <3>3 DEF EditFunctions
    <3> QED
      BY <2>2, <3>1, <3>2, <3>4 DEF RemoveDone
  <2>9. CASE ReadMade
    BY <2>2, <2>9 DEF ReadMade
  <2>10. CASE TokenMade(L)
    BY <2>2, <2>10 DEF TokenMade
  <2> QED
    BY <2>1, <2>2, <2>4, <2>5, <2>6, <2>7, <2>8, <2>9, <2>10 DEF Left
<1>2. [][Within]_vars => WritesStayInDest
  BY DEF WritesStayInDest
<1> HIDE DEF Within
<1> QED
  BY LibraryInvariant, <1>1, <1>2, PTL DEF Spec

(* A function that returns an error has left the memory as it was, an      *)
(* empty string, or a block or a field of nulls.                           *)
THEOREM LibraryFailureLeavesNothing == Spec => FailureLeavesNoPartialResult
<1> DEFINE Failing ==
      Calls(StringCopies \cup StringAppends \cup FieldFunctions \cup MoveFunctions
              \cup CopyFunctions \cup {"stpncpy", "strljustify", "strremovews"})
        /\ ~Succeeds =>
          \/ mem' = mem
          \/ \A a \in DOMAIN mem : a \in Cells(call'.dest, call'.dmax * scene.unit) => mem'[a] = 0
          \/ /\ call'.fn \in StringCopies \cup StringAppends \cup {"stpncpy"}
             /\ mem'[call'.dest] = 0
<1>1. LibInv /\ [Next]_vars => [Failing]_vars
  <2> SUFFICES ASSUME LibInv, [Next]_vars,
                      Calls(StringCopies \cup StringAppends \cup FieldFunctions \cup MoveFunctions
                            \cup CopyFunctions \cup {"stpncpy", "strljustify", "strremovews"}),
                      ~Succeeds, mem' # mem
               PROVE  \/ \A a \in DOMAIN mem : a \in Cells(call'.dest, call'.dmax * scene.unit) => mem'[a] = 0
                      \/ /\ call'.fn \in StringCopies \cup StringAppends \cup {"stpncpy"}
                         /\ mem'[call'.dest] = 0
    OBVIOUS
  <2>1. PICK L : Left(L)
    BY StepLeaves
  <2>2. call'.fn \in StringCopies \cup StringAppends \cup FieldFunctions \cup MemoryFunctions
                     \cup {"stpncpy"} \cup EditFunctions
    BY DEF Calls, MemoryFunctions, EditFunctions
  <2>3. call'.err # "EOK"
    BY DEF Succeeds
  <2>4. CASE BlockMade(L) /\ scene.unit \in {1, 2, 4}
    <3>1. PICK r :
        /\ mem' = r.mem /\ call'.err = r.err
        /\ Transfers(r, mem, L, call'.dest, call'.src, call'.slen * scene.unit, call'.dmax * scene.unit)
      BY <2>4 DEF BlockMade
    <3>2. PICK size : size = call'.dmax * scene.unit
      OBVIOUS
    <3>3. mem' = Fill(mem, call'.dest, size, 0)
      BY <2>3, <3>1, <3>2 DEF Transfers
    <3>4. \A a \in DOMAIN mem : a \in Cells(call'.dest, size) => mem'[a] = 0
      BY <3>3 DEF Fill, Cells
    <3> QED
      BY <3>2, <3>4
  <2>5. CASE StringMade(L)
    <3>1. PICK r : /\ mem' = r.mem /\ call'.err = r.err /\ EmptyAtLeast(r, mem, call'.dest)
                   /\ call'.fn \in StringCopies \cup StringAppends
      BY <2>5 DEF StringMade, StringDone
    <3> QED
      BY <2>3, <3>1 DEF EmptyAtLeast
  <2>6. CASE PaddedMade(L)
    <3>1. PICK r : /\ mem' = r.mem /\ call'.err = r.err /\ EmptyAtLeast(r, mem, call'.dest)
                   /\ call'.fn = "stpncpy"
      BY <2>6 DEF PaddedMade, PaddedDone
    <3> QED
      BY <2>3, <3>1 DEF EmptyAtLeast
  <2>7. ASSUME FieldMade(L) \/ EditMade(L), scene.unit = 1
        PROVE  \A a \in DOMAIN mem : a \in Cells(call'.dest, call'.dmax * scene.unit) => mem'[a] = 0
    <3>1. PICK r : /\ mem' = r.mem /\ call'.err = r.err /\ call'.dest \in Nat /\ call'.dmax \in Nat
                   /\ FieldCleared(r, mem, call'.dest, call'.dmax)
      BY <2>7 DEF FieldMade, FieldDone, EditMade, JustifyDone, RemoveDone, EditFunctions
    <3>2. \A i \in 0..(call'.dmax - 1) : mem'[call'.dest + i] = 0
      BY <2>3, <3>1 DEF FieldCleared
    <3> SUFFICES ASSUME NEW a \in Cells(call'.dest, call'.dmax * scene.unit) PROVE mem'[a] = 0
      OBVIOUS
    <3>3. a - call'.dest \in 0..(call'.dmax - 1) /\ call'.dest + (a - call'.dest) = a
      BY <2>7, <3>1 DEF Cells
    <3> QED
      BY <3>2, <3>3
  <2>8. ~SetMade(L) /\ ~CaseMade(L) /\ ~ReadMade /\ ~TokenMade(L)
    BY <2>2, NoFunctionTwice DEF SetMade, CaseMade, ReadMade, TokenMade
  <2> QED
    BY <2>1, <2>4, <2>5, <2>6, <2>7, <2>8 DEF Left
<1>2. [][Failing]_vars => FailureLeavesNoPartialResult
  BY DEF FailureLeavesNoPartialResult
<1> HIDE DEF Failing
<1> QED
  BY LibraryInvariant, <1>1, <1>2, PTL DEF Spec
-----------------------------------------------------------------------------

(* The least of two numbers. *)
LEMMA MinOfTwo ==
    ASSUME NEW i \in Nat, NEW j \in Nat
    PROVE  Min({i, j}) = IF j < i THEN j ELSE i
<1>1. PICK S : S = {i, j}
  OBVIOUS
<1>2. S \in SUBSET Nat /\ S # {} /\ \A k : k \in S <=> k = i \/ k = j
  BY <1>1
<1>3. PICK t : t = Min(S)
  OBVIOUS
<1>4. t \in S /\ \A k \in S : t <= k
  BY <1>2, <1>3, MinMember
<1>5. t = IF j < i THEN j ELSE i
  BY <1>2, <1>4
<1> QED
  BY <1>1, <1>3, <1>5

(* The characters up to the end of a string. *)
LEMMA LengthToTheEnd ==
    ASSUME NEW m, NEW L, NEW p \in Nat, Memory(m, L), p >= 1, p <= L
    PROVE  /\ IsLength(m, p, L - p, Length(m, p, Max(DOMAIN m) - p))
           /\ Length(m, p, Max(DOMAIN m) - p) \in Nat
<1>1. L \in Nat /\ L >= 1
  BY DEF Memory
<1>2. Max(DOMAIN m) = L
  BY <1>1, LastCellIs
<1>3. PICK n \in Nat : n = L - p
  BY <1>1
<1>4. IsLength(m, p, n, Length(m, p, n))
  BY LengthIs
<1>5. Max(DOMAIN m) - p = n /\ L - p = n
  BY <1>2, <1>3
<1>6. Length(m, p, Max(DOMAIN m) - p) = Length(m, p, n)
  BY <1>5
<1>7. Length(m, p, n) \in Nat
  BY <1>4 DEF IsLength
<1> QED
  BY <1>4, <1>5, <1>6, <1>7

(* Where a function puts the characters, and how many it takes. *)
CopyAt(m, dest, append) == IF append THEN Length(m, dest, Max(DOMAIN m) - dest) ELSE 0
Taken(m, src, slen) ==
    IF slen = NoLimit THEN Length(m, src, Max(DOMAIN m) - src)
    ELSE Min({Length(m, src, Max(DOMAIN m) - src), slen})

(* What a call that copies or appends has copied, in the words of the      *)
(* property.                                                               *)
LEMMA CopiedString ==
    ASSUME NEW m, NEW L, NEW r, NEW dest \in Nat, NEW dmax \in Nat, NEW src \in Nat,
           NEW slen \in Nat \cup {NoLimit}, NEW size \in Nat \ {0}, NEW append \in BOOLEAN,
           Strings(m, L, dest, dmax, src), StringDone(r, m, L, dest, dmax, size, src, slen, append),
           dest # NULL, src # NULL, dest # src, dmax * size \in 1..RSIZE_MAX_STR,
           slen # 0, slen * size <= RSIZE_MAX_STR
    PROVE  /\ Copied(r, m, dest, CopyAt(m, dest, append), dmax, src, Taken(m, src, slen))
           /\ CopyAt(m, dest, append) \in Int /\ Taken(m, src, slen) \in Int
<1>1. Memory(m, L) /\ dmax <= RSIZE_MAX_STR /\ L \in Nat
  BY StringSizes DEF Strings, Memory
<1>2. dest >= 1 /\ dest <= L /\ src >= 1 /\ src <= L
  BY <1>1 DEF Strings, In, NULL
<1>3. PICK k \in Nat : k = Length(m, src, Max(DOMAIN m) - src)
  BY <1>1, <1>2, LengthToTheEnd
<1>4. IsLength(m, src, L - src, k)
  BY <1>1, <1>2, <1>3, LengthToTheEnd
<1>5. PICK at : at = CopyAt(m, dest, append)
  OBVIOUS
<1>6. IF append THEN IsLength(m, dest, L - dest, at) ELSE at = 0
  BY <1>1, <1>2, <1>5, LengthToTheEnd DEF CopyAt
<1>7. PICK n : n = Taken(m, src, slen)
  OBVIOUS
<1>8. n = IF slen = NoLimit THEN k ELSE IF slen < k THEN slen ELSE k
  <2>1. slen # NoLimit => Min({k, slen}) = IF slen < k THEN slen ELSE k
    BY MinOfTwo
  <2> QED
    BY <1>3, <1>7, <2>1 DEF Taken
<1>9. Asked(m, L, src, slen, n)
  BY <1>4, <1>8 DEF Asked
<1>10. CopiesTo(r, m, L, dest, dmax, src, slen, append)
  BY DEF StringDone
<1>11. at \in Int /\ n \in Int
  BY <1>1, <1>2, <1>3, <1>5, <1>8, LengthToTheEnd DEF CopyAt
<1> QED
  BY <1>5, <1>6, <1>7, <1>9, <1>10, <1>11 DEF CopiesTo

(* Every string function on memories of every size: a string is copied or  *)
(* appended with its terminator exactly when the result fits and the cells *)
(* written and read are apart, and nothing else changes.                   *)
THEOREM LibraryCopiesStrings == Spec => StringIsCopiedOrRefused
<1> DEFINE CopiedOrRefused ==
      Calls(StringCopies \cup StringAppends) /\ call'.dest # NULL /\ call'.src # NULL
        /\ call'.dest # call'.src /\ call'.dmax * CharSize(call'.fn) \in 1..RSIZE_MAX_STR
        /\ call'.slen # 0 /\ call'.slen * CharSize(call'.fn) <= RSIZE_MAX_STR =>
          LET ToEnd(p) == Length(mem, p, Max(DOMAIN mem) - p)
              at == IF call'.fn \in StringAppends THEN ToEnd(call'.dest) ELSE 0
              n == IF call'.slen = NoLimit THEN ToEnd(call'.src)
                   ELSE Min({ToEnd(call'.src), call'.slen})
              fits == /\ at + n < call'.dmax
                      /\ Disjoint(call'.dest, at + n + 1, call'.src, n + 1)
          IN  /\ Succeeds <=> fits
              /\ fits => mem' = [a \in DOMAIN mem |->
                                   IF a \in Cells(call'.dest + at, n)
                                   THEN mem[call'.src + (a - call'.dest - at)]
                                   ELSE IF a = call'.dest + at + n THEN 0 ELSE mem[a]]
<1>1. LibInv /\ [Next]_vars => [CopiedOrRefused]_vars
  <2> SUFFICES ASSUME LibInv, [Next]_vars,
                      Calls(StringCopies \cup StringAppends), call'.dest # NULL, call'.src # NULL,
                      call'.dest # call'.src, call'.dmax * CharSize(call'.fn) \in 1..RSIZE_MAX_STR,
                      call'.slen # 0, call'.slen * CharSize(call'.fn) <= RSIZE_MAX_STR
               PROVE  CopiedOrRefused
    BY Zenon
  <2>1. PICK L : Left(L)
    BY StepLeaves
  <2>2. call'.fn \in StringCopies \cup StringAppends /\ call' # call
    BY DEF Calls
  <2>3. StringMade(L)
    BY <2>1, <2>2, NoFunctionTwice DEF Left, BlockMade, SetMade, FieldMade, PaddedMade, EditMade,
       CaseMade, ReadMade, TokenMade
  <2>4. PICK r :
        /\ mem' = r.mem /\ call'.err = r.err
        /\ call'.dest \in Nat /\ call'.dmax \in Nat /\ call'.src \in Nat
        /\ call'.slen \in Nat \cup {NoLimit}
        /\ Strings(mem, L, call'.dest, call'.dmax, call'.src)
        /\ StringDone(r, mem, L, call'.dest, call'.dmax, CharSize(call'.fn), call'.src, call'.slen,
                      call'.fn \in StringAppends)
    BY <2>3 DEF StringMade
  <2>5. CharSize(call'.fn) \in Nat \ {0}
    BY SafeLibAssumption DEF CharSize
  <2>6. PICK at : at = IF call'.fn \in StringAppends
                       THEN Length(mem, call'.dest, Max(DOMAIN mem) - call'.dest) ELSE 0
    OBVIOUS
  <2>7. PICK n : n = IF call'.slen = NoLimit THEN Length(mem, call'.src, Max(DOMAIN mem) - call'.src)
                     ELSE Min({Length(mem, call'.src, Max(DOMAIN mem) - call'.src), call'.slen})
    OBVIOUS
  <2>8. (call'.fn \in StringAppends) \in BOOLEAN
    OBVIOUS
  <2>9. Copied(r, mem, call'.dest, at, call'.dmax, call'.src, n) /\ at \in Int /\ n \in Int
    <3>1. PICK size \in Nat \ {0} : size = CharSize(call'.fn)
      BY <2>5
    <3>2. PICK append \in BOOLEAN : append = (call'.fn \in StringAppends)
      BY <2>8
    <3>3. PICK dest \in Nat, dmax \in Nat, src \in Nat, slen \in Nat \cup {NoLimit} :
              dest = call'.dest /\ dmax = call'.dmax /\ src = call'.src /\ slen = call'.slen
      BY <2>4
    <3>4. /\ Strings(mem, L, dest, dmax, src) /\ StringDone(r, mem, L, dest, dmax, size, src, slen, append)
          /\ dest # NULL /\ src # NULL /\ dest # src /\ dmax * size \in 1..RSIZE_MAX_STR
          /\ slen # 0 /\ slen * size <= RSIZE_MAX_STR
      BY <2>4, <3>1, <3>2, <3>3
    <3>5. at = CopyAt(mem, dest, append)
      BY <2>6, <3>2, <3>3 DEF CopyAt
    <3>6. n = Taken(mem, src, slen)
      BY <2>7, <3>3 DEF Taken
    <3>7. /\ Copied(r, mem, dest, CopyAt(mem, dest, append), dmax, src, Taken(mem, src, slen))
          /\ CopyAt(mem, dest, append) \in Int /\ Taken(mem, src, slen) \in Int
      BY <3>4, CopiedString
    <3>8. Copied(r, mem, dest, at, dmax, src, n) /\ at \in Int /\ n \in Int
      BY <3>5, <3>6, <3>7
    <3> QED
      BY <3>3, <3>8
  <2>10. ASSUME NEW a \in DOMAIN mem PROVE a - (call'.dest + at) = a - call'.dest - at
    <3>1. a \in Int
      BY <2>4 DEF Strings, Memory
    <3> QED
      BY <2>4, <2>9, <3>1
  <2>11. Succeeds <=> at + n < call'.dmax /\ Disjoint(call'.dest, at + n + 1, call'.src, n + 1)
    BY <2>4, <2>9 DEF Succeeds, Copied, Fits
  <2>12. Succeeds => mem' = [a \in DOMAIN mem |->
                               IF a \in Cells(call'.dest + at, n)
                               THEN mem[call'.src + (a - call'.dest - at)]
                               ELSE IF a = call'.dest + at + n THEN 0 ELSE mem[a]]
    BY <2>4, <2>9, <2>10 DEF Succeeds, Copied, WithString
  <2> QED
    BY <2>6, <2>7, <2>11, <2>12, Zenon
<1>2. [][CopiedOrRefused]_vars => StringIsCopiedOrRefused
  BY DEF StringIsCopiedOrRefused
<1> HIDE DEF CopiedOrRefused
<1> QED
  BY LibraryInvariant, <1>1, <1>2, PTL DEF Spec
-----------------------------------------------------------------------------

(* The characters strcpyfld, strcpyfldin and strcpyfldout take into a field. *)
TakenField(fn, m, dmax, src, slen) ==
    CASE fn = "strcpyfld" -> slen
      [] fn = "strcpyfldin" -> Length(m, src, dmax)
      [] fn = "strcpyfldout" -> Min({slen, dmax - 1})

(* The three functions take that many characters. *)
LEMMA TakenFieldIs ==
    ASSUME NEW fn \in FieldFunctions, NEW m, NEW dmax \in Nat, NEW src \in Nat, NEW slen \in Nat,
           dmax >= 1
    PROVE  FieldLength(fn, m, dmax, src, slen, TakenField(fn, m, dmax, src, slen))
<1>1. CASE fn = "strcpyfld"
  BY <1>1 DEF TakenField, FieldLength
<1>2. CASE fn = "strcpyfldin"
  <2>1. TakenField(fn, m, dmax, src, slen) = Length(m, src, dmax)
    BY <1>2, Zenon DEF TakenField
  <2> QED
    BY <1>2, <2>1, LengthIs DEF FieldLength
<1>3. CASE fn = "strcpyfldout"
  <2>1. TakenField(fn, m, dmax, src, slen) = Min({slen, dmax - 1})
    BY <1>3, Zenon DEF TakenField
  <2>2. PICK d \in Nat : d = dmax - 1
    OBVIOUS
  <2>3. Min({slen, d}) = IF d < slen THEN d ELSE slen
    BY MinOfTwo
  <2>4. TakenField(fn, m, dmax, src, slen) = IF d < slen THEN d ELSE slen
    BY <2>1, <2>2, <2>3
  <2>5. TakenField(fn, m, dmax, src, slen) = IF slen < dmax - 1 THEN slen ELSE dmax - 1
    BY <2>2, <2>4
  <2> QED
    BY <1>3, <2>5 DEF FieldLength
<1> QED
  BY <1>1, <1>2, <1>3 DEF FieldFunctions

(* Every field function on memories of every size: a field is filled with  *)
(* the characters of the source and nulls behind them exactly when what it *)
(* writes and reads is apart, and is all null otherwise.                   *)
THEOREM LibraryFillsFields == Spec => FieldIsFilledOrCleared
<1> DEFINE FilledOrCleared ==
      Calls(FieldFunctions) /\ call'.dest # NULL /\ call'.src # NULL
        /\ call'.dmax \in 1..RSIZE_MAX_STR /\ call'.slen \in 1..call'.dmax =>
          LET n == CASE call'.fn = "strcpyfld" -> call'.slen
                     [] call'.fn = "strcpyfldin" -> Length(mem, call'.src, call'.dmax)
                     [] call'.fn = "strcpyfldout" -> Min({call'.slen, call'.dmax - 1})
              read == IF call'.fn = "strcpyfldin" /\ n < call'.dmax THEN n + 1 ELSE n
          IN  /\ Succeeds <=> Disjoint(call'.dest, n, call'.src, read)
              /\ \A i \in 0..(call'.dmax - 1) :
                     mem'[call'.dest + i] = IF Succeeds /\ i < n THEN mem[call'.src + i] ELSE 0
<1>1. LibInv /\ [Next]_vars => [FilledOrCleared]_vars
  <2> SUFFICES ASSUME LibInv, [Next]_vars,
                      Calls(FieldFunctions), call'.dest # NULL, call'.src # NULL,
                      call'.dmax \in 1..RSIZE_MAX_STR, call'.slen \in 1..call'.dmax
               PROVE  FilledOrCleared
    BY Zenon
  <2>1. PICK L : Left(L)
    BY StepLeaves
  <2>2. call'.fn \in FieldFunctions /\ call' # call
    BY DEF Calls
  <2>3. FieldMade(L)
    BY <2>1, <2>2, NoFunctionTwice DEF Left, BlockMade, SetMade, StringMade, PaddedMade, EditMade,
       CaseMade, ReadMade, TokenMade
  <2>4. PICK r :
        /\ mem' = r.mem /\ call'.err = r.err
        /\ call'.dest \in Nat /\ call'.dmax \in Nat /\ call'.src \in Nat /\ call'.slen \in Nat
        /\ FieldDone(r, call'.fn, mem, L, call'.dest, call'.dmax, call'.src, call'.slen)
    BY <2>3 DEF FieldMade
  <2>5. PICK n : n = CASE call'.fn = "strcpyfld" -> call'.slen
                       [] call'.fn = "strcpyfldin" -> Length(mem, call'.src, call'.dmax)
                       [] call'.fn = "strcpyfldout" -> Min({call'.slen, call'.dmax - 1})
    OBVIOUS
  <2>10. n = TakenField(call'.fn, mem, call'.dmax, call'.src, call'.slen)
    BY <2>5, Zenon DEF TakenField
  <2>6. FieldLength(call'.fn, mem, call'.dmax, call'.src, call'.slen, n)
    <3>1. PICK dmax \in Nat, src \in Nat, slen \in Nat :
              dmax = call'.dmax /\ src = call'.src /\ slen = call'.slen
      BY <2>4
    <3>2. PICK fn \in FieldFunctions : fn = call'.fn
      BY <2>2
    <3>3. FieldLength(fn, mem, dmax, src, slen, TakenField(fn, mem, dmax, src, slen))
      BY <3>1, TakenFieldIs
    <3> QED
      BY <2>10, <3>1, <3>2, <3>3
  <2>7. /\ r.err = "EOK" <=> Disjoint(call'.dest, n, call'.src, FieldRead(call'.fn, call'.dmax, n))
        /\ \A i \in 0..(call'.dmax - 1) :
               r.mem[call'.dest + i] = IF r.err = "EOK" /\ i < n THEN mem[call'.src + i] ELSE 0
    BY <2>4, <2>6 DEF FieldDone
  <2>8. Succeeds <=> Disjoint(call'.dest, n, call'.src, FieldRead(call'.fn, call'.dmax, n))
    BY <2>4, <2>7 DEF Succeeds
  <2>9. \A i \in 0..(call'.dmax - 1) :
            mem'[call'.dest + i] = IF Succeeds /\ i < n THEN mem[call'.src + i] ELSE 0
    BY <2>4, <2>7 DEF Succeeds
  <2>11. Succeeds <=> Disjoint(call'.dest, n, call'.src,
                               IF call'.fn = "strcpyfldin" /\ n < call'.dmax THEN n + 1 ELSE n)
    BY <2>8, Zenon DEF FieldRead
  <2> DEFINE FilledWith(k) ==
          /\ Succeeds <=> Disjoint(call'.dest, k, call'.src,
                                   IF call'.fn = "strcpyfldin" /\ k < call'.dmax THEN k + 1 ELSE k)
          /\ \A i \in 0..(call'.dmax - 1) :
                 mem'[call'.dest + i] = IF Succeeds /\ i < k THEN mem[call'.src + i] ELSE 0
  <2>12. FilledWith(n)
    BY <2>9, <2>11
  <2> HIDE DEF FilledWith
  <2>13. FilledWith(CASE call'.fn = "strcpyfld" -> call'.slen
                      [] call'.fn = "strcpyfldin" -> Length(mem, call'.src, call'.dmax)
                      [] call'.fn = "strcpyfldout" -> Min({call'.slen, call'.dmax - 1}))
    BY <2>5, <2>12, Zenon
  <2> QED
    BY <2>13, Zenon DEF FilledWith
<1>2. [][FilledOrCleared]_vars => FieldIsFilledOrCleared
  BY DEF FieldIsFilledOrCleared
<1> HIDE DEF FilledOrCleared
<1> QED
  BY LibraryInvariant, <1>1, <1>2, PTL DEF Spec

(* The greatest of two numbers. *)
LEMMA MaxOfTwo ==
    ASSUME NEW i \in Nat, NEW j \in Nat
    PROVE  Max({i, j}) = IF i < j THEN j ELSE i
<1>1. PICK S : S = {i, j}
  OBVIOUS
<1>2. S \in SUBSET (0..(i + j)) /\ S # {} /\ \A k : k \in S <=> k = i \/ k = j
  BY <1>1
<1>3. PICK t : t = Max(S)
  OBVIOUS
<1>4. PICK N \in Nat : N = i + j
  OBVIOUS
<1>5. t \in S /\ \A k \in S : k <= t
  BY <1>2, <1>3, <1>4, MaxMember
<1>6. t = IF i < j THEN j ELSE i
  BY <1>2, <1>5
<1> QED
  BY <1>1, <1>3, <1>6

(* stpncpy on memories of every size: it writes the string and the nulls   *)
(* behind it exactly when they fit and the two ranges are apart.           *)
THEOREM LibraryPadsStrings == Spec => PaddedStringIsCopiedOrRefused
<1> DEFINE PaddedOrRefused ==
      Calls({"stpncpy"}) /\ call'.dest # NULL /\ call'.src # NULL
        /\ call'.dest # call'.src /\ {call'.dmax, call'.slen} \subseteq 1..RSIZE_MAX_STR =>
          LET n == Length(mem, call'.src, call'.slen)
              last == Max({n, call'.slen - 1})
          IN  /\ Succeeds <=> /\ call'.slen < call'.dmax
                              /\ Disjoint(call'.dest, call'.slen + 1, call'.src, call'.slen + 1)
              /\ Succeeds => \A i \in 0..last :
                     mem'[call'.dest + i] = IF i < n THEN mem[call'.src + i] ELSE 0
<1>1. LibInv /\ [Next]_vars => [PaddedOrRefused]_vars
  <2> SUFFICES ASSUME LibInv, [Next]_vars,
                      Calls({"stpncpy"}), call'.dest # NULL, call'.src # NULL,
                      call'.dest # call'.src, {call'.dmax, call'.slen} \subseteq 1..RSIZE_MAX_STR
               PROVE  PaddedOrRefused
    BY Zenon
  <2>1. PICK L : Left(L)
    BY StepLeaves
  <2>2. call'.fn = "stpncpy" /\ call' # call
    BY DEF Calls
  <2>3. PaddedMade(L)
    BY <2>1, <2>2, NoFunctionTwice DEF Left, BlockMade, SetMade, StringMade, FieldMade, EditMade,
       CaseMade, ReadMade, TokenMade
  <2>4. PICK r :
        /\ mem' = r.mem /\ call'.err = r.err
        /\ call'.dest \in Nat /\ call'.dmax \in Nat /\ call'.src \in Nat /\ call'.slen \in Nat
        /\ PaddedDone(r, mem, L, call'.dest, call'.dmax, call'.src, call'.slen)
    BY <2>3 DEF PaddedMade
  <2>5. call'.dmax \in 1..RSIZE_MAX_STR /\ call'.slen \in 1..RSIZE_MAX_STR
    OBVIOUS
  <2>6. PICK n : n = Length(mem, call'.src, call'.slen)
    OBVIOUS
  <2>7. IsLength(mem, call'.src, call'.slen, n)
    <3>1. PICK src \in Nat, slen \in Nat : src = call'.src /\ slen = call'.slen
      BY <2>4
    <3>2. IsLength(mem, src, slen, Length(mem, src, slen))
      BY LengthIs
    <3> QED
      BY <2>6, <3>1, <3>2
  <2>8. n \in Nat /\ n <= call'.slen
    BY <2>4, <2>7 DEF IsLength
  <2>9. /\ r.err = "EOK" <=> call'.slen < call'.dmax
                               /\ Disjoint(call'.dest, call'.slen + 1, call'.src, call'.slen + 1)
        /\ r.err = "EOK" =>
              \A i \in 0..n : r.mem[call'.dest + i] = IF i < n THEN mem[call'.src + i] ELSE 0
        /\ r.err = "EOK" => \A i \in n..(call'.slen - 1) : r.mem[call'.dest + i] = 0
    BY <2>4, <2>5, <2>7 DEF PaddedDone
  <2>10. PICK last : last = Max({n, call'.slen - 1})
    OBVIOUS
  <2>11. last = IF n < call'.slen - 1 THEN call'.slen - 1 ELSE n
    <3>1. PICK s \in Nat : s = call'.slen - 1
      BY <2>4, <2>5
    <3>2. Max({n, s}) = IF n < s THEN s ELSE n
      BY <2>8, MaxOfTwo
    <3> QED
      BY <2>10, <3>1, <3>2
  <2>12. ASSUME Succeeds, NEW i \in 0..last
         PROVE  mem'[call'.dest + i] = IF i < n THEN mem[call'.src + i] ELSE 0
    <3>1. r.err = "EOK" /\ i \in Int
      BY <2>4, <2>8, <2>11, <2>12 DEF Succeeds
    <3>2. CASE i <= n
      <4>1. i \in 0..n
        BY <2>8, <2>12, <3>1, <3>2, <2>11, <2>4
      <4> QED
        BY <2>4, <2>9, <3>1, <4>1
    <3>3. CASE i > n
      <4>1. i \in n..(call'.slen - 1)
        BY <2>4, <2>8, <2>11, <2>12, <3>1, <3>3
      <4>2. ~(i < n)
        BY <2>8, <3>1, <3>3
      <4> QED
        BY <2>4, <2>9, <3>1, <4>1, <4>2
    <3> QED
      BY <2>8, <3>1, <3>2, <3>3
  <2>13. Succeeds <=> /\ call'.slen < call'.dmax
                      /\ Disjoint(call'.dest, call'.slen + 1, call'.src, call'.slen + 1)
    BY <2>4, <2>9 DEF Succeeds
  <2> QED
    BY <2>6, <2>10, <2>12, <2>13, Zenon
<1>2. [][PaddedOrRefused]_vars => PaddedStringIsCopiedOrRefused
  BY DEF PaddedStringIsCopiedOrRefused
<1> HIDE DEF PaddedOrRefused
<1> QED
  BY LibraryInvariant, <1>1, <1>2, PTL DEF Spec
-----------------------------------------------------------------------------

(* The string at p, when k characters and a terminator stand there. *)
LEMMA StringAtIs ==
    ASSUME NEW m, NEW L, NEW p \in Nat, NEW k \in Nat, Memory(m, L), Plain(m, p, k),
           p >= 1, p + k <= L, m[p + k] = 0
    PROVE  StringAt(m, p) = [i \in 1..k |-> m[p + i - 1]]
<1>1. L \in Nat /\ p <= L
  BY DEF Memory
<1>2. PICK n \in Nat : n = L - p
  BY <1>1
<1>3. IsLength(m, p, n, k)
  BY <1>1, <1>2 DEF IsLength
<1>4. PICK j : j = Length(m, p, Max(DOMAIN m) - p)
  OBVIOUS
<1>5. IsLength(m, p, n, j)
  BY <1>1, <1>2, <1>4, LengthToTheEnd
<1>6. j = k
  BY <1>3, <1>5, OneLength
<1> QED
  BY <1>4, <1>6 DEF StringAt

(* A part of a sequence. *)
LEMMA PartOfSequence ==
    ASSUME NEW k \in Nat, NEW s \in [1..k -> Nat], NEW x \in Nat, NEW y \in Nat, x >= 1, x <= y, y <= k
    PROVE  SubSeq(s, x, y) = [i \in 1..(y + 1 - x) |-> s[x + i - 1]] /\ Len(s) = k
<1>1. s \in Seq(Nat) /\ Len(s) = k
  OBVIOUS
<1> QED
  BY <1>1

(* A string in the memory, as a sequence. *)
TextAt(m, p, k) == [i \in 1..k |-> m[p + i - 1]]
TextPlaces(s) == {i \in DOMAIN s : s[i] \notin Blanks}

(* Where the text of a string begins, and where it ends. *)
LEMMA TextBegins ==
    ASSUME NEW m, NEW L, NEW dest \in Nat, NEW k \in Nat, NEW t,
           Memory(m, L), StringWithBlanks(m, L, dest, k, t)
    PROVE  /\ t = dest + k => TextPlaces(TextAt(m, dest, k)) = {}
           /\ t < dest + k => /\ TextPlaces(TextAt(m, dest, k)) # {}
                              /\ Min(TextPlaces(TextAt(m, dest, k))) = t + 1 - dest
<1>1. /\ dest >= 1 /\ dest + k <= L /\ t \in dest..(dest + k) /\ m[t] \notin Blanks
      /\ \A a \in dest..(t - 1) : m[a] \in Blanks
  BY DEF StringWithBlanks, BlanksFirst
<1>2. PICK S : S = TextPlaces(TextAt(m, dest, k))
  OBVIOUS
<1>3. \A i : i \in S <=> i \in 1..k /\ m[dest + i - 1] \notin Blanks
  BY <1>2 DEF TextPlaces, TextAt
<1>4. \A i \in S : dest + i - 1 >= t
  <2> SUFFICES ASSUME NEW i \in S, dest + i - 1 < t PROVE FALSE
    BY <1>1, <1>3
  <2>1. i \in 1..k /\ m[dest + i - 1] \notin Blanks
    BY <1>3
  <2>2. dest + i - 1 \in dest..(t - 1)
    BY <1>1, <2>1
  <2> QED
    BY <1>1, <2>1, <2>2
<1>5. ASSUME t = dest + k PROVE S = {}
  BY <1>1, <1>3, <1>4, <1>5
<1>6. ASSUME t < dest + k PROVE S # {} /\ Min(S) = t + 1 - dest
  <2>1. PICK j \in Int : j = t + 1 - dest
    BY <1>1
  <2>2. j \in 1..k /\ dest + j - 1 = t
    BY <1>1, <1>6, <2>1
  <2>3. j \in S
    BY <1>1, <1>3, <2>2
  <2>4. S \in SUBSET Nat
    BY <1>3
  <2>5. PICK x : x = Min(S)
    OBVIOUS
  <2>6. x \in S /\ \A i \in S : x <= i
    BY <2>3, <2>4, <2>5, MinMember
  <2>7. x = j
    BY <1>1, <1>3, <1>4, <2>1, <2>3, <2>6
  <2> QED
    BY <2>1, <2>3, <2>5, <2>7
<1> QED
  BY <1>2, <1>5, <1>6

(* Where the text of a string ends. *)
LEMMA TextEnds ==
    ASSUME NEW m, NEW L, NEW dest \in Nat, NEW k \in Nat, NEW t, NEW u,
           Memory(m, L), StringWithBlanks(m, L, dest, k, t), LastOfText(m, dest, k, t, u)
    PROVE  Max(TextPlaces(TextAt(m, dest, k))) = u + 1 - dest
<1>1. /\ dest >= 1 /\ dest + k <= L /\ t \in dest..(dest + k)
      /\ u \in t..(dest + k - 1) /\ m[u] \notin Blanks
      /\ \A a \in (u + 1)..(dest + k - 1) : m[a] \in Blanks
  BY DEF StringWithBlanks, BlanksFirst, LastOfText
<1>2. PICK S : S = TextPlaces(TextAt(m, dest, k))
  OBVIOUS
<1>3. \A i : i \in S <=> i \in 1..k /\ m[dest + i - 1] \notin Blanks
  BY <1>2 DEF TextPlaces, TextAt
<1>4. \A i \in S : dest + i - 1 <= u
  <2> SUFFICES ASSUME NEW i \in S, dest + i - 1 > u PROVE FALSE
    BY <1>1, <1>3
  <2>1. i \in 1..k /\ m[dest + i - 1] \notin Blanks
    BY <1>3
  <2>2. dest + i - 1 \in (u + 1)..(dest + k - 1)
    BY <1>1, <2>1
  <2> QED
    BY <1>1, <2>1, <2>2
<1>5. PICK j \in Int : j = u + 1 - dest
  BY <1>1
<1>6. j \in 1..k /\ dest + j - 1 = u
  BY <1>1, <1>5
<1>7. j \in S
  BY <1>1, <1>3, <1>6
<1>8. S \in SUBSET (0..k)
  BY <1>3
<1>9. PICK x : x = Max(S)
  OBVIOUS
<1>10. x \in S /\ \A i \in S : i <= x
  BY <1>7, <1>8, <1>9, MaxMember
<1>11. x = j
  BY <1>1, <1>3, <1>4, <1>5, <1>7, <1>10
<1> QED
  BY <1>2, <1>5, <1>9, <1>11

(* The string that an edit leaves. *)
LEMMA EditedText ==
    ASSUME NEW b, NEW m, NEW L, NEW dest \in Nat, NEW k \in Nat, NEW t \in Nat, NEW n \in Nat,
           Memory(m, L), TextIs(b, m, L, dest, t, n, k), StringWithBlanks(m, L, dest, k, t),
           t + n <= dest + k
    PROVE  StringAt(b, dest) = [i \in 1..n |-> m[t + i - 1]]
<1>1. /\ Memory(b, L) /\ b[dest + n] = 0 /\ \A i \in 0..(n - 1) : b[dest + i] = m[t + i]
  BY DEF TextIs
<1>2. dest >= 1 /\ dest + k <= L /\ t >= dest /\ Plain(m, dest, k) /\ L \in Nat
  BY DEF StringWithBlanks, BlanksFirst, Memory
<1>3. ASSUME NEW i \in 0..(n - 1) PROVE m[t + i] # 0
  <2>1. t + i - dest \in 0..(k - 1) /\ dest + (t + i - dest) = t + i
    BY <1>2, <1>3
  <2> QED
    BY <1>2, <2>1 DEF Plain
<1>4. Plain(b, dest, n)
  BY <1>1, <1>3 DEF Plain
<1>5. dest + n <= L
  BY <1>2
<1>6. StringAt(b, dest) = [i \in 1..n |-> b[dest + i - 1]]
  BY <1>1, <1>2, <1>4, <1>5, StringAtIs
<1>7. ASSUME NEW i \in 1..n PROVE b[dest + i - 1] = m[t + i - 1]
  <2>1. i - 1 \in 0..(n - 1) /\ dest + (i - 1) = dest + i - 1 /\ t + (i - 1) = t + i - 1
    BY <1>7
  <2> QED
    BY <1>1, <2>1
<1> QED
  BY <1>6, <1>7
-----------------------------------------------------------------------------

(* The string before an edit. *)
LEMMA TextBefore ==
    ASSUME NEW m, NEW L, NEW dest \in Nat, NEW k \in Nat, NEW t,
           Memory(m, L), StringWithBlanks(m, L, dest, k, t)
    PROVE  /\ StringAt(m, dest) = TextAt(m, dest, k)
           /\ TextAt(m, dest, k) \in [1..k -> Nat]
<1>1. dest >= 1 /\ dest + k <= L /\ m[dest + k] = 0 /\ Plain(m, dest, k)
  BY DEF StringWithBlanks
<1>2. StringAt(m, dest) = TextAt(m, dest, k)
  BY <1>1, StringAtIs DEF TextAt
<1>3. ASSUME NEW i \in 1..k PROVE m[dest + i - 1] \in Nat
  <2>1. dest + i - 1 \in 1..L
    BY <1>1, <1>3 DEF Memory
  <2> QED
    BY <2>1 DEF Memory
<1> QED
  BY <1>2, <1>3 DEF TextAt

(* n characters from t on are a part of the k characters at p. *)
Within(p, k, t, n) == t >= p /\ n >= 1 /\ t + n <= p + k

(* A part of the string, as cells of the memory. *)
LEMMA PartOfText ==
    ASSUME NEW m, NEW dest \in Nat, NEW k \in Nat, NEW t \in Nat, NEW n \in Nat,
           TextAt(m, dest, k) \in [1..k -> Nat], Within(dest, k, t, n)
    PROVE  /\ SubSeq(TextAt(m, dest, k), t + 1 - dest, t + n - dest) = TextAt(m, t, n)
           /\ Len(TextAt(m, dest, k)) = k
<1>0. t >= dest /\ n >= 1 /\ t + n <= dest + k
  BY DEF Within
<1>1. PICK s : s = TextAt(m, dest, k)
  OBVIOUS
<1>2. PICK x \in Nat, y \in Nat : x = t + 1 - dest /\ y = t + n - dest
  BY <1>0
<1>3. s \in [1..k -> Nat] /\ x >= 1 /\ x <= y /\ y <= k
  BY <1>0, <1>1, <1>2
<1>4. SubSeq(s, x, y) = [i \in 1..(y + 1 - x) |-> s[x + i - 1]] /\ Len(s) = k
  BY <1>3, PartOfSequence
<1>5. y + 1 - x = n
  BY <1>2
<1>6. ASSUME NEW i \in 1..n PROVE s[x + i - 1] = m[t + i - 1]
  <2>1. PICK j \in Int : j = x + i - 1
    BY <1>2
  <2>2. j \in 1..k /\ dest + j - 1 = t + i - 1
    BY <1>0, <1>2, <1>3, <2>1
  <2>3. s[j] = m[dest + j - 1]
    BY <1>1, <2>2 DEF TextAt
  <2> QED
    BY <2>1, <2>2, <2>3
<1>7. SubSeq(s, x, y) = TextAt(m, t, n)
  BY <1>4, <1>5, <1>6 DEF TextAt
<1> QED
  BY <1>1, <1>2, <1>4, <1>7

(* Justifying leaves the string without the blanks in front of it. *)
LEMMA JustifiedString ==
    ASSUME NEW b, NEW m, NEW L, NEW dest \in Nat, NEW k, NEW t, Memory(m, L),
           StringWithBlanks(m, L, dest, k, t),
           IF t = dest + k THEN b = m ELSE TextIs(b, m, L, dest, t, dest + k - t, k)
    PROVE  StringAt(b, dest) = LeftOnly(StringAt(m, dest))
<1>1. k \in Nat /\ t \in dest..(dest + k) /\ t \in Nat
  BY DEF StringWithBlanks, BlanksFirst
<1>2. PICK s : s = TextAt(m, dest, k)
  OBVIOUS
<1>3. StringAt(m, dest) = s /\ s \in [1..k -> Nat]
  BY <1>1, <1>2, TextBefore
<1>4. LeftOnly(s) = IF TextPlaces(s) = {} THEN s ELSE SubSeq(s, Min(TextPlaces(s)), Len(s))
  BY Zenon DEF LeftOnly, TextPlaces
<1>5. CASE t = dest + k
  <2>1. TextPlaces(s) = {}
    BY <1>1, <1>2, <1>5, TextBegins
  <2> QED
    BY <1>3, <1>4, <1>5, <2>1
<1>6. CASE t # dest + k
  <2>1. PICK n \in Nat : n = dest + k - t
    BY <1>1
  <2>2. n >= 1 /\ t + n <= dest + k /\ t + n - dest = k /\ t < dest + k
    BY <1>1, <1>6, <2>1
  <2>3. TextIs(b, m, L, dest, t, n, k)
    BY <1>6, <2>1
  <2>4. StringAt(b, dest) = TextAt(m, t, n)
    BY <1>1, <2>2, <2>3, EditedText DEF TextAt
  <2>5. TextPlaces(s) # {} /\ Min(TextPlaces(s)) = t + 1 - dest
    BY <1>1, <1>2, <2>2, TextBegins
  <2>6. SubSeq(s, t + 1 - dest, t + n - dest) = TextAt(m, t, n) /\ Len(s) = k
    <3>1. t \in Nat /\ t >= dest /\ TextAt(m, dest, k) \in [1..k -> Nat]
      BY <1>1, <1>2, <1>3
    <3>2. Within(dest, k, t, n)
      BY <1>1, <2>2 DEF Within
    <3>3. /\ SubSeq(TextAt(m, dest, k), t + 1 - dest, t + n - dest) = TextAt(m, t, n)
          /\ Len(TextAt(m, dest, k)) = k
      BY <1>1, <3>1, <3>2, PartOfText
    <3> QED
      BY <1>2, <3>3
  <2> QED
    BY <1>3, <1>4, <2>2, <2>4, <2>5, <2>6
<1> QED
  BY <1>5, <1>6

(* Trimming leaves the string without the blanks on both sides of it. *)
LEMMA TrimmedString ==
    ASSUME NEW b, NEW m, NEW L, NEW dest \in Nat, NEW k, NEW t, Memory(m, L), Memory(b, L),
           StringWithBlanks(m, L, dest, k, t),
           IF t = dest + k THEN b[dest] = 0
           ELSE \E u : LastOfText(m, dest, k, t, u) /\ TextIs(b, m, L, dest, t, u + 1 - t, k)
    PROVE  StringAt(b, dest) = Trimmed(StringAt(m, dest))
<1>1. k \in Nat /\ t \in dest..(dest + k) /\ t \in Nat /\ dest >= 1 /\ dest + k <= L /\ L \in Nat
  BY DEF StringWithBlanks, BlanksFirst, Memory
<1>2. PICK s : s = TextAt(m, dest, k)
  OBVIOUS
<1>3. StringAt(m, dest) = s /\ s \in [1..k -> Nat]
  BY <1>1, <1>2, TextBefore
<1>4. Trimmed(s) = IF TextPlaces(s) = {} THEN <<>>
                   ELSE SubSeq(s, Min(TextPlaces(s)), Max(TextPlaces(s)))
  BY Zenon DEF Trimmed, TextPlaces
<1>5. CASE t = dest + k
  <2>1. TextPlaces(s) = {}
    BY <1>1, <1>2, <1>5, TextBegins
  <2>2. b[dest] = 0 /\ Plain(b, dest, 0) /\ dest + 0 = dest /\ dest <= L /\ 0 \in Nat
    BY <1>1, <1>5 DEF Plain
  <2>3. StringAt(b, dest) = [i \in 1..0 |-> b[dest + i - 1]]
    BY <1>1, <2>2, StringAtIs
  <2>4. StringAt(b, dest) = <<>>
    BY <2>3
  <2> QED
    BY <1>3, <1>4, <2>1, <2>4
<1>6. CASE t # dest + k
  <2>1. PICK u : LastOfText(m, dest, k, t, u) /\ TextIs(b, m, L, dest, t, u + 1 - t, k)
    BY <1>6
  <2>2. u \in t..(dest + k - 1)
    BY <2>1 DEF LastOfText
  <2>3. PICK n \in Nat : n = u + 1 - t
    BY <1>1, <2>2
  <2>4. n >= 1 /\ t + n <= dest + k /\ t + n - dest = u + 1 - dest /\ t < dest + k
    BY <1>1, <1>6, <2>2, <2>3
  <2>5. TextIs(b, m, L, dest, t, n, k)
    BY <2>1, <2>3
  <2>6. StringAt(b, dest) = TextAt(m, t, n)
    BY <1>1, <2>4, <2>5, EditedText DEF TextAt
  <2>7. TextPlaces(s) # {} /\ Min(TextPlaces(s)) = t + 1 - dest
    BY <1>1, <1>2, <2>4, TextBegins
  <2>8. Max(TextPlaces(s)) = u + 1 - dest
    BY <1>1, <1>2, <2>1, TextEnds
  <2>9. SubSeq(s, t + 1 - dest, t + n - dest) = TextAt(m, t, n)
    <3>1. t \in Nat /\ t >= dest /\ TextAt(m, dest, k) \in [1..k -> Nat]
      BY <1>1, <1>2, <1>3
    <3>2. Within(dest, k, t, n)
      BY <1>1, <2>4 DEF Within
    <3>3. /\ SubSeq(TextAt(m, dest, k), t + 1 - dest, t + n - dest) = TextAt(m, t, n)
          /\ Len(TextAt(m, dest, k)) = k
      BY <1>1, <3>1, <3>2, PartOfText
    <3> QED
      BY <1>2, <3>3
  <2> QED
    BY <1>3, <1>4, <2>4, <2>6, <2>7, <2>8, <2>9
<1> QED
  BY <1>5, <1>6

(* strljustify and strremovews on memories of every size: the string they  *)
(* leave is the string they found without the blanks in front of it, and,  *)
(* for strremovews, behind it.                                             *)
THEOREM LibraryKeepsTheText == Spec => EditsKeepTheText
<1> DEFINE KeepsText ==
      Calls({"strljustify", "strremovews"}) /\ Succeeds /\ call'.dmax > RSIZE_MIN_STR =>
          LET before == StringAt(mem, call'.dest)
          IN  StringAt(mem', call'.dest) =
                  IF call'.fn = "strremovews" THEN Trimmed(before) ELSE LeftOnly(before)
<1>1. LibInv /\ [Next]_vars => [KeepsText]_vars
  <2> SUFFICES ASSUME LibInv, [Next]_vars, Calls({"strljustify", "strremovews"}), Succeeds,
                      call'.dmax > RSIZE_MIN_STR
               PROVE  KeepsText
    BY Zenon
  <2>1. PICK L : Left(L)
    BY StepLeaves
  <2>2. call'.fn \in {"strljustify", "strremovews"} /\ call' # call
    BY DEF Calls
  <2>3. EditMade(L) /\ Memory(mem, L)
    BY <2>1, <2>2, NoFunctionTwice DEF Left, BlockMade, SetMade, StringMade, FieldMade, PaddedMade,
       CaseMade, ReadMade, TokenMade, EditFunctions
  <2>4. PICK r :
        /\ mem' = r.mem /\ call'.err = r.err /\ call'.dest \in Nat /\ call'.dmax \in Nat
        /\ call'.fn = "strljustify" => JustifyDone(r, mem, L, call'.dest, call'.dmax)
        /\ call'.fn = "strremovews" => RemoveDone(r, mem, L, call'.dest, call'.dmax)
    BY <2>3 DEF EditMade
  <2>5. r.err = "EOK"
    BY <2>4 DEF Succeeds
  <2>6. CASE call'.fn = "strljustify"
    <3>1. PICK k, t :
             /\ StringWithBlanks(mem, L, call'.dest, k, t)
             /\ IF t = call'.dest + k THEN mem' = mem
                ELSE TextIs(mem', mem, L, call'.dest, t, call'.dest + k - t, k)
      BY <2>4, <2>5, <2>6 DEF JustifyDone
    <3>2. StringAt(mem', call'.dest) = LeftOnly(StringAt(mem, call'.dest))
      <4>1. PICK dest \in Nat : dest = call'.dest
        BY <2>4
      <4>2. PICK b : b = mem'
        OBVIOUS
      <4>3. /\ StringWithBlanks(mem, L, dest, k, t)
            /\ IF t = dest + k THEN b = mem ELSE TextIs(b, mem, L, dest, t, dest + k - t, k)
        BY <3>1, <4>1, <4>2
      <4>4. StringAt(b, dest) = LeftOnly(StringAt(mem, dest))
        BY <2>3, <4>3, JustifiedString
      <4> QED
        BY <4>1, <4>2, <4>4
    <3> QED
      BY <2>6, <3>2
  <2>7. CASE call'.fn = "strremovews"
    <3>1. Memory(mem', L) /\ \E k, t :
             /\ StringWithBlanks(mem, L, call'.dest, k, t)
             /\ IF t = call'.dest + k THEN mem'[call'.dest] = 0
                ELSE \E u : LastOfText(mem, call'.dest, k, t, u)
                            /\ TextIs(mem', mem, L, call'.dest, t, u + 1 - t, k)
      BY <2>4, <2>5, <2>7 DEF RemoveDone
    <3>2. PICK k, t :
             /\ StringWithBlanks(mem, L, call'.dest, k, t)
             /\ IF t = call'.dest + k THEN mem'[call'.dest] = 0
                ELSE \E u : LastOfText(mem, call'.dest, k, t, u)
                            /\ TextIs(mem', mem, L, call'.dest, t, u + 1 - t, k)
      BY <3>1
    <3>3. StringAt(mem', call'.dest) = Trimmed(StringAt(mem, call'.dest))
      <4>1. PICK dest \in Nat : dest = call'.dest
        BY <2>4
      <4>2. PICK b : b = mem'
        OBVIOUS
      <4>3. /\ StringWithBlanks(mem, L, dest, k, t)
            /\ IF t = dest + k THEN b[dest] = 0
               ELSE \E u : LastOfText(mem, dest, k, t, u) /\ TextIs(b, mem, L, dest, t, u + 1 - t, k)
        BY <3>2, <4>1, <4>2
      <4>4. StringAt(b, dest) = Trimmed(StringAt(mem, dest))
        BY <2>3, <3>1, <4>2, <4>3, TrimmedString
      <4> QED
        BY <4>1, <4>2, <4>4
    <3> QED
      BY <2>7, <3>3
  <2> QED
    BY <2>2, <2>6, <2>7
<1>2. [][KeepsText]_vars => EditsKeepTheText
  BY DEF EditsKeepTheText
<1> HIDE DEF KeepsText
<1> QED
  BY LibraryInvariant, <1>1, <1>2, PTL DEF Spec
-----------------------------------------------------------------------------

(* A handler that hears nothing has been told nothing. *)
LEMMA HeardNothing ==
    ASSUME NEW library, NEW e, Heard(library, e) = <<>>
    PROVE  e = "EOK"
<1>1. PICK h : h = IF handlers[library] = NoHandler THEN DefaultHandler ELSE handlers[library]
  OBVIOUS
<1>2. Heard(library, e) = IF e = "EOK" THEN <<>> ELSE <<h, e>>
  BY <1>1 DEF Heard
<1>3. <<h, e>> # <<>>
  OBVIOUS
<1> QED
  BY <1>2, <1>3

(* The checks of a comparison, and those of a search. *)
LEMMA CompareErrorIs ==
    ASSUME NEW dest \in Nat, NEW dmax \in Nat, NEW src \in Nat, CompareError(dest, dmax, src) = "EOK"
    PROVE  dest # 0 /\ src # 0 /\ dmax # 0 /\ dmax <= RSIZE_MAX_STR
<1> DEFINE a == NullDest(dest)
           b == NullSrc(src)
           c == Zero(dmax)
           d == TooLong(dmax, RSIZE_MAX_STR)
           checks == <<a, b, c, d>>
<1>1. FirstError(checks) = "EOK"
  BY DEF CompareError
<1>2. /\ a[2] # "EOK" /\ (a[1] <=> dest = 0) /\ b[2] # "EOK" /\ (b[1] <=> src = 0)
      /\ c[2] # "EOK" /\ (c[1] <=> dmax = 0) /\ d[2] # "EOK" /\ (d[1] <=> dmax > RSIZE_MAX_STR)
  BY DEF NullDest, NullSrc, Zero, TooLong, NULL
<1> HIDE DEF a, b, c, d
<1>3. DOMAIN checks = 1..4 /\ 4 \in Nat /\ checks[1] = a /\ checks[2] = b /\ checks[3] = c /\ checks[4] = d
  OBVIOUS
<1> HIDE DEF checks
<1>4. \A i \in 1..4 : checks[i][2] # "EOK"
  BY <1>2, <1>3
<1>5. \A i \in 1..4 : ~checks[i][1]
  BY <1>1, <1>3, <1>4, NoCheckFails
<1>6. ~a[1] /\ ~b[1] /\ ~c[1] /\ ~d[1]
  BY <1>3, <1>5
<1>7. RSIZE_MAX_STR \in Int
  BY SafeLibAssumption
<1> QED
  BY <1>2, <1>6, <1>7

(* The checks of a comparison of blocks. *)
LEMMA BlocksErrorIs ==
    ASSUME NEW dest \in Nat, NEW dmax \in Nat, NEW src \in Nat, NEW smax \in Nat, NEW max \in Nat,
           FirstError(<<NullDest(dest), NullSrc(src), Zero(dmax), TooLong(dmax, max),
                        Zero(smax), TooLong(smax, dmax)>>) = "EOK"
    PROVE  dest # 0 /\ src # 0 /\ smax <= dmax /\ dmax <= max
<1> DEFINE a == NullDest(dest)
           b == NullSrc(src)
           c == Zero(dmax)
           d == TooLong(dmax, max)
           e == Zero(smax)
           f == TooLong(smax, dmax)
           checks == <<a, b, c, d, e, f>>
<1>1. FirstError(checks) = "EOK"
  OBVIOUS
<1>2. /\ a[2] # "EOK" /\ (a[1] <=> dest = 0) /\ b[2] # "EOK" /\ (b[1] <=> src = 0)
      /\ c[2] # "EOK" /\ d[2] # "EOK" /\ (d[1] <=> dmax > max)
      /\ e[2] # "EOK" /\ f[2] # "EOK" /\ (f[1] <=> smax > dmax)
  BY DEF NullDest, NullSrc, Zero, TooLong, NULL
<1> HIDE DEF a, b, c, d, e, f
<1>3. DOMAIN checks = 1..6 /\ 6 \in Nat /\ checks[1] = a /\ checks[2] = b /\ checks[3] = c
      /\ checks[4] = d /\ checks[5] = e /\ checks[6] = f
  OBVIOUS
<1> HIDE DEF checks
<1>4. \A i \in 1..6 : checks[i][2] # "EOK"
  BY <1>2, <1>3
<1>5. \A i \in 1..6 : ~checks[i][1]
  BY <1>1, <1>3, <1>4, NoCheckFails
<1>6. ~a[1] /\ ~b[1] /\ ~d[1] /\ ~f[1]
  BY <1>3, <1>5
<1> QED
  BY <1>2, <1>6

(* What a comparison returns, as the property says it. *)
CharAt(fn, m, a) == IF fn \in {"strcasecmp", "strcasestr"} THEN toupper(m[a]) ELSE m[a]

(* Upper case has no other zero. *)
LEMMA UpperZero ==
    ASSUME NEW c
    PROVE  toupper(c) = 0 <=> c = 0
  BY DEF toupper, Lowers

(* A character a comparison sees is zero exactly when the character of the *)
(* string is.                                                              *)
LEMMA CharZero ==
    ASSUME NEW fn, NEW m, NEW a
    PROVE  CharAt(fn, m, a) = 0 <=> m[a] = 0
  BY UpperZero DEF CharAt

DifferAt(fn, m, dest, src, n) == {i \in 0..(n - 1) : CharAt(fn, m, dest + i) # CharAt(fn, m, src + i)}

SignIsRight(fn, out, x, y) ==
    \/ SignOf(out) = SignOf(x - y)
    \/ /\ fn = "memcmp32" /\ out # 0
       /\ x - y \notin (-(UINT32_SIZE \div 2))..((UINT32_SIZE \div 2) - 1)

ComparedUpTo(fn, m, dest, dmax, src, n, out) ==
    IF DifferAt(fn, m, dest, src, n) # {}
    THEN SignIsRight(fn, out, CharAt(fn, m, dest + Min(DifferAt(fn, m, dest, src, n))),
                     CharAt(fn, m, src + Min(DifferAt(fn, m, dest, src, n))))
    ELSE out = 0 \/ (fn \in {"strcmp", "strcasecmp"} /\ n = dmax)

(* The first difference of two strings lies at or before the end of the    *)
(* one that ends first.                                                    *)
LEMMA StringsCompared ==
    ASSUME NEW fn \in {"strcmp", "strcasecmp"}, NEW m, NEW dest \in Nat, NEW dmax \in Nat, NEW src \in Nat,
           NEW d, IsLength(m, dest, dmax, d), NEW s, IsLength(m, src, dmax, s),
           NEW n, n = (IF s < d THEN s ELSE d),
           NEW k \in 0..n, k = n \/ CharAt(fn, m, dest + k) # CharAt(fn, m, src + k),
           \A i \in 0..n : i = n \/ CharAt(fn, m, dest + i) # CharAt(fn, m, src + i) => k <= i,
           NEW top, top = (IF d + 1 < dmax THEN d + 1 ELSE dmax)
    PROVE  ComparedUpTo(fn, m, dest, dmax, src, top, CharAt(fn, m, dest + k) - CharAt(fn, m, src + k))
<1> DEFINE x(i) == CharAt(fn, m, dest + i)
           y(i) == CharAt(fn, m, src + i)
           differ == DifferAt(fn, m, dest, src, top)
<1>1. d \in 0..dmax /\ s \in 0..dmax /\ n \in Nat /\ top \in Nat /\ n <= d /\ n <= s /\ top <= dmax /\ top <= d + 1
      /\ (top = dmax \/ top = d + 1) /\ (n = d \/ n = s)
  BY DEF IsLength
<1>2. d < dmax => x(d) = 0
  BY CharZero DEF IsLength
<1>3. s < dmax => y(s) = 0
  BY CharZero DEF IsLength
<1>4. \A i \in 0..(d - 1) : x(i) # 0
  BY CharZero DEF IsLength, Plain
<1>5. \A i \in 0..(s - 1) : y(i) # 0
  BY CharZero DEF IsLength, Plain
<1>6. \A i : i \in differ <=> i \in 0..(top - 1) /\ x(i) # y(i)
  BY DEF DifferAt
<1>7. differ \in SUBSET Nat
  BY <1>1, <1>6
<1>8. \A i \in 0..n : i = n \/ x(i) # y(i) => k <= i
  OBVIOUS
<1>9. k = n \/ x(k) # y(k)
  OBVIOUS
<1> HIDE DEF x, y, differ
<1>10. CASE differ # {}
  <2>1. PICK i : i = Min(differ)
    OBVIOUS
  <2>2. i \in differ /\ \A j \in differ : i <= j
    BY <1>7, <1>10, <2>1, MinMember
  <2>3. i \in Nat /\ i <= top - 1 /\ x(i) # y(i)
    BY <1>1, <1>6, <2>2
  <2>4. \A j \in 0..(i - 1) : x(j) = y(j)
    BY <1>1, <1>6, <2>2, <2>3
  <2>5. i <= n
    <3> SUFFICES ASSUME n < i PROVE FALSE
      BY <1>1, <2>3
    <3>1. n = s /\ s < d /\ s < i /\ s < dmax
      BY <1>1, <2>3
    <3>2. y(s) = 0 /\ x(s) = y(s) /\ x(s) # 0
      BY <1>1, <1>3, <1>4, <2>3, <2>4, <3>1
    <3> QED
      BY <3>2
  <2>6. k <= i
    BY <1>1, <1>8, <2>3, <2>5
  <2>7. k = i
    BY <1>1, <1>9, <2>3, <2>4, <2>5, <2>6
  <2>8. SignIsRight(fn, x(k) - y(k), x(Min(differ)), y(Min(differ)))
    BY <2>1, <2>7 DEF SignIsRight
  <2> QED
    BY <1>10, <2>8 DEF ComparedUpTo, x, y, differ
<1>11. CASE differ = {}
  <2>1. \A i \in 0..(top - 1) : x(i) = y(i)
    BY <1>6, <1>11
  <2>2. ASSUME top # dmax PROVE x(k) - y(k) = 0
    <3>1. top = d + 1 /\ d < dmax
      BY <1>1, <2>2
    <3>2. x(d) = 0 /\ y(d) = 0
      BY <1>1, <1>2, <2>1, <3>1
    <3>3. s <= d
      BY <1>1, <1>5, <3>2
    <3>4. n = s /\ s < dmax
      BY <1>1, <3>1, <3>3
    <3>5. k = s
      BY <1>1, <1>9, <2>1, <3>1, <3>3, <3>4
    <3>6. x(k) = 0 /\ y(k) = 0
      BY <1>1, <1>3, <2>1, <3>1, <3>3, <3>4, <3>5
    <3> QED
      BY <3>6
  <2>3. x(k) - y(k) = 0 \/ (fn \in {"strcmp", "strcasecmp"} /\ top = dmax)
    BY <2>2
  <2> QED
    BY <1>11, <2>3 DEF ComparedUpTo, x, y, differ
<1> QED
  BY <1>10, <1>11

(* The loop of a string comparison stops at the end of the shorter string  *)
(* or at the first difference.                                             *)
LEMMA StringLoop ==
    ASSUME NEW fn \in {"strcmp", "strcasecmp"}, NEW m, NEW dest \in Nat, NEW dmax \in Nat, NEW src \in Nat
    PROVE  LET n == Common(m, dest, dmax, src)
               k == Min({i \in 0..n : i = n \/ CharAt(fn, m, dest + i) # CharAt(fn, m, src + i)})
           IN  ComparedUpTo(fn, m, dest, dmax, src, Min({dmax, Length(m, dest, dmax) + 1}),
                            CharAt(fn, m, dest + k) - CharAt(fn, m, src + k))
<1>1. PICK d : d = Length(m, dest, dmax)
  OBVIOUS
<1>2. PICK s : s = Length(m, src, dmax)
  OBVIOUS
<1>3. IsLength(m, dest, dmax, d) /\ IsLength(m, src, dmax, s)
  BY <1>1, <1>2, LengthIs
<1>4. d \in Nat /\ s \in Nat /\ d <= dmax
  BY <1>3 DEF IsLength
<1>5. PICK n : n = Common(m, dest, dmax, src)
  OBVIOUS
<1>6. n = IF s < d THEN s ELSE d
  BY <1>1, <1>2, <1>4, <1>5, MinOfTwo DEF Common
<1>7. n \in Nat
  BY <1>4, <1>6
<1> DEFINE S == {i \in 0..n : i = n \/ CharAt(fn, m, dest + i) # CharAt(fn, m, src + i)}
<1>8. S \in SUBSET Nat /\ n \in S
  BY <1>7
<1>9. \A i : i \in S <=> i \in 0..n /\ (i = n \/ CharAt(fn, m, dest + i) # CharAt(fn, m, src + i))
  OBVIOUS
<1>10. PICK k : k = Min(S)
  OBVIOUS
<1>11. k \in S /\ \A i \in S : k <= i
  <2> HIDE DEF S
  <2> QED
    BY <1>8, <1>10, MinMember
<1>12. PICK top : top = Min({dmax, d + 1})
  OBVIOUS
<1>13. top = IF d + 1 < dmax THEN d + 1 ELSE dmax
  <2>1. PICK e \in Nat : e = d + 1
    BY <1>4
  <2> QED
    BY <1>12, <2>1, MinOfTwo
<1>14. k \in 0..n /\ (k = n \/ CharAt(fn, m, dest + k) # CharAt(fn, m, src + k))
  BY <1>9, <1>11
<1>15. \A i \in 0..n : i = n \/ CharAt(fn, m, dest + i) # CharAt(fn, m, src + i) => k <= i
  BY <1>9, <1>11
<1> HIDE DEF S
<1>16. ComparedUpTo(fn, m, dest, dmax, src, top, CharAt(fn, m, dest + k) - CharAt(fn, m, src + k))
  BY <1>3, <1>6, <1>13, <1>14, <1>15, StringsCompared
<1> QED
  BY <1>1, <1>5, <1>10, <1>12, <1>16 DEF S

(* safe_strcmp finds the first difference. *)
LEMMA strcmpCompares ==
    ASSUME NEW m, NEW dest \in Nat, NEW dmax \in Nat, NEW src \in Nat, NEW r,
           r = safe_strcmp(m, dest, dmax, src), r.told = "EOK"
    PROVE  ComparedUpTo("strcmp", m, dest, dmax, src, Min({dmax, Length(m, dest, dmax) + 1}), r.out)
<1> DEFINE n == Common(m, dest, dmax, src)
           k == Min({i \in 0..n : i = n \/ m[dest + i] # m[src + i]})
           c == Min({i \in 0..n : i = n \/ CharAt("strcmp", m, dest + i) # CharAt("strcmp", m, src + i)})
<1>1. \A a : CharAt("strcmp", m, a) = m[a]
  BY DEF CharAt
<1>2. {i \in 0..n : i = n \/ CharAt("strcmp", m, dest + i) # CharAt("strcmp", m, src + i)}
          = {i \in 0..n : i = n \/ m[dest + i] # m[src + i]}
  BY <1>1
<1>3. c = k
  BY <1>2
<1>4. r.out = m[dest + k] - m[src + k]
  BY DEF safe_strcmp, Refused, Returns, Result
<1>5. ComparedUpTo("strcmp", m, dest, dmax, src, Min({dmax, Length(m, dest, dmax) + 1}),
                   CharAt("strcmp", m, dest + c) - CharAt("strcmp", m, src + c))
  BY StringLoop
<1> HIDE DEF k, c
<1> QED
  BY <1>1, <1>3, <1>4, <1>5

(* safe_strcasecmp finds the first difference in upper case. *)
LEMMA strcasecmpCompares ==
    ASSUME NEW m, NEW dest \in Nat, NEW dmax \in Nat, NEW src \in Nat, NEW r,
           r = safe_strcasecmp(m, dest, dmax, src), r.told = "EOK"
    PROVE  ComparedUpTo("strcasecmp", m, dest, dmax, src, Min({dmax, Length(m, dest, dmax) + 1}), r.out)
<1> DEFINE n == Common(m, dest, dmax, src)
           k == Min({i \in 0..n : i = n \/ toupper(m[dest + i]) # toupper(m[src + i])})
           c == Min({i \in 0..n : i = n \/ CharAt("strcasecmp", m, dest + i) # CharAt("strcasecmp", m, src + i)})
<1>1. \A a : CharAt("strcasecmp", m, a) = toupper(m[a])
  BY DEF CharAt
<1>2. {i \in 0..n : i = n \/ CharAt("strcasecmp", m, dest + i) # CharAt("strcasecmp", m, src + i)}
          = {i \in 0..n : i = n \/ toupper(m[dest + i]) # toupper(m[src + i])}
  BY <1>1
<1>3. c = k
  BY <1>2
<1>4. r.out = toupper(m[dest + k]) - toupper(m[src + k])
  BY DEF safe_strcasecmp, Refused, Returns, Result
<1>5. ComparedUpTo("strcasecmp", m, dest, dmax, src, Min({dmax, Length(m, dest, dmax) + 1}),
                   CharAt("strcasecmp", m, dest + c) - CharAt("strcasecmp", m, src + c))
  BY StringLoop
<1> HIDE DEF k, c
<1> QED
  BY <1>1, <1>3, <1>4, <1>5

(* The wrapped difference of two numbers is never zero unless they are the *)
(* same, and is their difference as far as that is small enough.           *)
LEMMA WrappedSign ==
    ASSUME NEW x \in Nat, NEW y \in Nat, x < UINT32_SIZE, y < UINT32_SIZE, x # y
    PROVE  /\ WrappedMinus(x, y) # 0
           /\ x - y \in (-(UINT32_SIZE \div 2))..((UINT32_SIZE \div 2) - 1) => WrappedMinus(x, y) = x - y
<1>1. UINT32_SIZE \in Nat \ {0} /\ UINT32_SIZE % 2 = 0
  BY SafeMemAssumption
<1>2. PICK h \in Nat : UINT32_SIZE = h + h /\ UINT32_SIZE \div 2 = h /\ h > 0
  <2>1. PICK h \in Int : h = UINT32_SIZE \div 2
    BY <1>1
  <2>2. UINT32_SIZE = h + h
    BY <1>1, <2>1
  <2> QED
    BY <1>1, <2>1, <2>2
<1>3. PICK d \in Int : d = x - y /\ d # 0 /\ d > -(h + h) /\ d < h + h
  BY <1>2
<1>4. PICK w \in Int : w = (d + h) % (h + h)
  BY <1>2
<1>5. WrappedMinus(x, y) = w - h
  BY <1>2, <1>3, <1>4 DEF WrappedMinus
<1>6. d + h \in 0..(h + h - 1) => w = d + h
  BY <1>2, <1>4
<1>7. d + h < 0 => w = (d + h) + (h + h)
  BY <1>2, <1>3, <1>4
<1>8. d + h >= h + h => w = (d + h) - (h + h)
  BY <1>2, <1>3, <1>4
<1>9. w - h # 0
  BY <1>2, <1>3, <1>6, <1>7, <1>8
<1> QED
  BY <1>2, <1>3, <1>5, <1>6, <1>9

(* A comparison of blocks looks at cells of the memory only, and finds the *)
(* first difference.                                                       *)
LEMMA BlocksCompared ==
    ASSUME NEW fn \in {"memcmp", "memcmp16", "memcmp32", "wmemcmp"}, NEW L, NEW m, Memory(m, L),
           NEW dest \in Nat, NEW dmax \in Nat, NEW src \in Nat, NEW slen \in Nat,
           In(dest, dmax, L), In(src, dmax, L), slen <= dmax,
           NEW differ, differ = {i \in 0..(slen - 1) : m[dest + i] # m[src + i]}, NEW out,
           dest = src \/ differ = {} => out = 0,
           \A x, y \in Nat : /\ dest # src /\ differ # {} /\ x # y
                             /\ x = m[dest + Min(differ)] /\ y = m[src + Min(differ)]
                             => SignIsRight(fn, out, x, y)
    PROVE  ComparedUpTo(fn, m, dest, dmax, src, slen, out)
<1>1. \A a : CharAt(fn, m, a) = m[a]
  BY DEF CharAt
<1>2. DifferAt(fn, m, dest, src, slen) = differ
  BY <1>1 DEF DifferAt
<1>3. \A i : i \in differ <=> i \in 0..(slen - 1) /\ m[dest + i] # m[src + i]
  OBVIOUS
<1>4. differ \in SUBSET Nat
  BY <1>3
<1>5. CASE differ = {}
  BY <1>2, <1>5 DEF ComparedUpTo
<1>6. CASE differ # {}
  <2>1. PICK i : i = Min(differ)
    OBVIOUS
  <2>2. i \in differ
    BY <1>4, <1>6, <2>1, MinMember
  <2>3. i \in 0..(slen - 1) /\ m[dest + i] # m[src + i]
    BY <1>3, <2>2
  <2>4. PICK a \in Int : a = dest + i
    BY <2>3
  <2>5. PICK b \in Int : b = src + i
    BY <2>3
  <2>6. a \in 1..L /\ b \in 1..L
    BY <2>3, <2>4, <2>5 DEF In, Memory
  <2>7. m[a] \in Nat /\ m[b] \in Nat /\ m[a] # m[b]
    BY <2>3, <2>4, <2>5, <2>6 DEF Memory
  <2>8. dest # src
    BY <2>3
  <2>9. SignIsRight(fn, out, m[a], m[b])
    BY <1>6, <2>1, <2>4, <2>5, <2>7, <2>8
  <2> QED
    BY <1>1, <1>2, <1>6, <2>1, <2>4, <2>5, <2>9 DEF ComparedUpTo
<1> QED
  BY <1>5, <1>6

(* A sign is its own sign. *)
LEMMA SignOfSign ==
    ASSUME NEW fn, NEW x \in Nat, NEW y \in Nat, x # y
    PROVE  SignIsRight(fn, Sign(x, y), x, y) /\ SignIsRight(fn, Minus(x, y), x, y)
  BY DEF SignIsRight, SignOf, Sign, Minus

(* safe_memcmp finds the first difference. *)
LEMMA memcmpCompares ==
    ASSUME NEW L, NEW m, Memory(m, L), NEW dest \in Nat, NEW dmax \in Nat, NEW src \in Nat, NEW slen \in Nat,
           dest # 0 /\ dmax <= RSIZE_MAX_MEM => In(dest, dmax, L),
           src # 0 /\ dmax <= RSIZE_MAX_MEM => In(src, dmax, L),
           NEW r, r = safe_memcmp(m, dest, dmax, src, slen), r.told = "EOK"
    PROVE  ComparedUpTo("memcmp", m, dest, dmax, src, slen, r.out)
<1> DEFINE bad == FirstError(<<NullDest(dest), NullSrc(src), Zero(dmax), TooLong(dmax, RSIZE_MAX_MEM),
                               Zero(slen), TooLong(slen, dmax)>>)
           differ == {i \in 0..(slen - 1) : m[dest + i] # m[src + i]}
           X == m[dest + Min(differ)]
           Y == m[src + Min(differ)]
<1>1. /\ bad = "EOK"
      /\ dest = src \/ differ = {} => r.out = 0
      /\ dest # src /\ differ # {} => r.out = Sign(X, Y)
  BY DEF safe_memcmp, Compare, Returns, Result
<1>2. RSIZE_MAX_MEM \in Nat /\ RSIZE_MAX_MEM <= RSIZE_MAX_MEM
  BY SafeLibAssumption
<1>3. PICK max \in Nat : max = RSIZE_MAX_MEM
  BY <1>2
<1>4. dest # 0 /\ src # 0 /\ slen <= dmax /\ dmax <= max
  BY <1>1, <1>3, BlocksErrorIs
<1>5. dmax <= RSIZE_MAX_MEM
  BY <1>2, <1>3, <1>4, SafeLibAssumption
<1>6. PICK D : D = differ
  OBVIOUS
<1>7. ASSUME NEW x \in Nat, NEW y \in Nat, dest # src, D # {}, x # y, x = m[dest + Min(D)], y = m[src + Min(D)]
      PROVE  SignIsRight("memcmp", r.out, x, y)
  <2>1. r.out = Sign(x, y)
    BY <1>1, <1>6, <1>7
  <2> QED
    BY <1>7, <2>1, SignOfSign
<1> QED
  BY <1>1, <1>4, <1>5, <1>6, <1>7, BlocksCompared

(* safe_memcmp16 finds the first difference. *)
LEMMA memcmp16Compares ==
    ASSUME NEW L, NEW m, Memory(m, L), NEW dest \in Nat, NEW dmax \in Nat, NEW src \in Nat, NEW slen \in Nat,
           dest # 0 /\ dmax <= RSIZE_MAX_MEM => In(dest, dmax, L),
           src # 0 /\ dmax <= RSIZE_MAX_MEM => In(src, dmax, L),
           NEW r, r = safe_memcmp16(m, dest, dmax, src, slen), r.told = "EOK"
    PROVE  ComparedUpTo("memcmp16", m, dest, dmax, src, slen, r.out)
<1> DEFINE bad == FirstError(<<NullDest(dest), NullSrc(src), Zero(dmax), TooLong(dmax, (RSIZE_MAX_MEM \div 2)),
                               Zero(slen), TooLong(slen, dmax)>>)
           differ == {i \in 0..(slen - 1) : m[dest + i] # m[src + i]}
           X == m[dest + Min(differ)]
           Y == m[src + Min(differ)]
<1>1. /\ bad = "EOK"
      /\ dest = src \/ differ = {} => r.out = 0
      /\ dest # src /\ differ # {} => r.out = Minus(X, Y)
  BY DEF safe_memcmp16, Compare, Returns, Result
<1>2. (RSIZE_MAX_MEM \div 2) \in Nat /\ (RSIZE_MAX_MEM \div 2) <= RSIZE_MAX_MEM
  BY SafeLibAssumption
<1>3. PICK max \in Nat : max = (RSIZE_MAX_MEM \div 2)
  BY <1>2
<1>4. dest # 0 /\ src # 0 /\ slen <= dmax /\ dmax <= max
  BY <1>1, <1>3, BlocksErrorIs
<1>5. dmax <= RSIZE_MAX_MEM
  BY <1>2, <1>3, <1>4, SafeLibAssumption
<1>6. PICK D : D = differ
  OBVIOUS
<1>7. ASSUME NEW x \in Nat, NEW y \in Nat, dest # src, D # {}, x # y, x = m[dest + Min(D)], y = m[src + Min(D)]
      PROVE  SignIsRight("memcmp16", r.out, x, y)
  <2>1. r.out = Minus(x, y)
    BY <1>1, <1>6, <1>7
  <2> QED
    BY <1>7, <2>1, SignOfSign
<1> QED
  BY <1>1, <1>4, <1>5, <1>6, <1>7, BlocksCompared

(* safe_memcmp32 finds the first difference. *)
LEMMA memcmp32Compares ==
    ASSUME NEW L, NEW m, Memory(m, L), NEW dest \in Nat, NEW dmax \in Nat, NEW src \in Nat, NEW slen \in Nat,
           dest # 0 /\ dmax <= RSIZE_MAX_MEM => In(dest, dmax, L),
           src # 0 /\ dmax <= RSIZE_MAX_MEM => In(src, dmax, L),
           \A a \in 1..L : m[a] < UINT32_SIZE,
           NEW r, r = safe_memcmp32(m, dest, dmax, src, slen), r.told = "EOK"
    PROVE  ComparedUpTo("memcmp32", m, dest, dmax, src, slen, r.out)
<1> DEFINE bad == FirstError(<<NullDest(dest), NullSrc(src), Zero(dmax), TooLong(dmax, (RSIZE_MAX_MEM \div 4)),
                               Zero(slen), TooLong(slen, dmax)>>)
           differ == {i \in 0..(slen - 1) : m[dest + i] # m[src + i]}
           X == m[dest + Min(differ)]
           Y == m[src + Min(differ)]
<1>1. /\ bad = "EOK"
      /\ dest = src \/ differ = {} => r.out = 0
      /\ dest # src /\ differ # {} => r.out = WrappedMinus(X, Y)
  BY DEF safe_memcmp32, Compare, Returns, Result
<1>2. (RSIZE_MAX_MEM \div 4) \in Nat /\ (RSIZE_MAX_MEM \div 4) <= RSIZE_MAX_MEM
  BY SafeLibAssumption
<1>3. PICK max \in Nat : max = (RSIZE_MAX_MEM \div 4)
  BY <1>2
<1>4. dest # 0 /\ src # 0 /\ slen <= dmax /\ dmax <= max
  BY <1>1, <1>3, BlocksErrorIs
<1>5. dmax <= RSIZE_MAX_MEM
  BY <1>2, <1>3, <1>4, SafeLibAssumption
<1>6. PICK D : D = differ
  OBVIOUS
<1>7. ASSUME NEW x \in Nat, NEW y \in Nat, dest # src, D # {}, x # y, x = m[dest + Min(D)], y = m[src + Min(D)]
      PROVE  SignIsRight("memcmp32", r.out, x, y)
  <2>1. r.out = WrappedMinus(x, y)
    BY <1>1, <1>6, <1>7
  <2>2. x < UINT32_SIZE /\ y < UINT32_SIZE
    <3>1. \A i : i \in D <=> i \in 0..(slen - 1) /\ m[dest + i] # m[src + i]
      BY <1>6
    <3>2. D \in SUBSET Nat
      BY <3>1
    <3>3. PICK i : i = Min(D)
      OBVIOUS
    <3>4. i \in 0..(slen - 1)
      BY <1>7, <3>1, <3>2, <3>3, MinMember
    <3>5. dest + i \in 1..L /\ src + i \in 1..L
      BY <1>4, <1>5, <3>4 DEF In, Memory
    <3> QED
      BY <1>7, <3>3, <3>5
  <2>3. /\ r.out # 0
        /\ x - y \in (-(UINT32_SIZE \div 2))..((UINT32_SIZE \div 2) - 1) => r.out = x - y
    BY <1>7, <2>1, <2>2, WrappedSign
  <2> QED
    BY <2>3 DEF SignIsRight
<1> QED
  BY <1>1, <1>4, <1>5, <1>6, <1>7, BlocksCompared

(* safe_wmemcmp finds the first difference. *)
LEMMA wmemcmpCompares ==
    ASSUME NEW L, NEW m, Memory(m, L), NEW dest \in Nat, NEW dmax \in Nat, NEW src \in Nat, NEW slen \in Nat,
           dest # 0 /\ dmax <= RSIZE_MAX_MEM => In(dest, dmax, L),
           src # 0 /\ dmax <= RSIZE_MAX_MEM => In(src, dmax, L),
           NEW r, r = safe_wmemcmp(m, dest, dmax, src, slen), r.told = "EOK"
    PROVE  ComparedUpTo("wmemcmp", m, dest, dmax, src, slen, r.out)
<1> DEFINE bad == FirstError(<<NullDest(dest), NullSrc(src), Zero(dmax), TooLong(dmax, (RSIZE_MAX_MEM \div 4)),
                               Zero(slen), TooLong(slen, dmax)>>)
           differ == {i \in 0..(slen - 1) : m[dest + i] # m[src + i]}
           X == m[dest + Min(differ)]
           Y == m[src + Min(differ)]
<1>1. /\ bad = "EOK"
      /\ dest = src \/ differ = {} => r.out = 0
      /\ dest # src /\ differ # {} => r.out = Minus(X, Y)
  BY DEF safe_wmemcmp, Compare, Returns, Result
<1>2. (RSIZE_MAX_MEM \div 4) \in Nat /\ (RSIZE_MAX_MEM \div 4) <= RSIZE_MAX_MEM
  BY SafeLibAssumption
<1>3. PICK max \in Nat : max = (RSIZE_MAX_MEM \div 4)
  BY <1>2
<1>4. dest # 0 /\ src # 0 /\ slen <= dmax /\ dmax <= max
  BY <1>1, <1>3, BlocksErrorIs
<1>5. dmax <= RSIZE_MAX_MEM
  BY <1>2, <1>3, <1>4, SafeLibAssumption
<1>6. PICK D : D = differ
  OBVIOUS
<1>7. ASSUME NEW x \in Nat, NEW y \in Nat, dest # src, D # {}, x # y, x = m[dest + Min(D)], y = m[src + Min(D)]
      PROVE  SignIsRight("wmemcmp", r.out, x, y)
  <2>1. r.out = Minus(x, y)
    BY <1>1, <1>6, <1>7
  <2> QED
    BY <1>7, <2>1, SignOfSign
<1> QED
  BY <1>1, <1>4, <1>5, <1>6, <1>7, BlocksCompared

(* A call of a comparison finds the first difference, in the words of the  *)
(* property.                                                               *)
LEMMA CallCompares ==
    ASSUME LibInv, [Next]_vars, Calls(CompareFunctions), call'.heard = <<>>
    PROVE  ComparedUpTo(call'.fn, mem, call'.dest, call'.dmax, call'.src,
                        IF call'.fn \in {"strcmp", "strcasecmp"}
                        THEN Min({call'.dmax, Length(mem, call'.dest, call'.dmax) + 1})
                        ELSE call'.slen, call'.out)
<1>1. PICK L : Left(L)
  BY StepLeaves
<1>2. call'.fn \in CompareFunctions /\ call' # call /\ call'.fn \in ReadFunctions /\ call'.fn # "strtok"
  BY DEF Calls, CompareFunctions, ReadFunctions
<1>3. CompareFunctions \cap CaseFunctions = {}
  BY DEF CompareFunctions, CaseFunctions
<1>4. ReadMade
  BY <1>1, <1>2, <1>3, NoFunctionTwice DEF Left, BlockMade, SetMade, StringMade, FieldMade, PaddedMade,
     EditMade, CaseMade, TokenMade
<1>5. PICK r : /\ call'.out = r.out /\ call'.heard = Heard(scene.library, r.told)
               /\ ReadDone(call'.fn, r, mem, call'.dest, call'.dmax, call'.src, call'.slen)
  BY <1>4 DEF ReadMade
<1>6. PICK fn, dest, dmax, src, slen :
          fn = call'.fn /\ dest = call'.dest /\ dmax = call'.dmax /\ src = call'.src /\ slen = call'.slen
  OBVIOUS
<1>7. ReadDone(fn, r, mem, dest, dmax, src, slen) /\ fn \in CompareFunctions
  BY <1>2, <1>5, <1>6
<1>8. r.told = "EOK"
  <2>1. Heard(scene.library, r.told) = <<>>
    BY <1>5
  <2> QED
    BY <2>1, HeardNothing
<1>9. dest \in scene.dests /\ dmax \in scene.sizes /\ src \in scene.sources
  BY <1>7 DEF ReadDone
<1>10. dest \in Nat /\ dmax \in Nat /\ src \in Nat
  BY <1>9 DEF LibInv, ArgumentsFit
<1>11. CASE fn \in {"strcmp", "strcasecmp"}
  <2>1. ComparedUpTo(fn, mem, dest, dmax, src, Min({dmax, Length(mem, dest, dmax) + 1}), r.out)
    <3>1. CASE fn = "strcmp"
      BY <1>7, <1>8, <1>10, <3>1, strcmpCompares DEF ReadDone
    <3>2. CASE fn = "strcasecmp"
      BY <1>7, <1>8, <1>10, <3>2, strcasecmpCompares DEF ReadDone
    <3> QED
      BY <1>11, <3>1, <3>2
  <2> QED
    BY <1>5, <1>6, <1>11, <2>1
<1>12. CASE fn \in {"memcmp", "memcmp16", "memcmp32", "wmemcmp"}
  <2>1. slen \in scene.lengths /\ "compare" \in scene.kinds
    BY <1>7, <1>12 DEF ReadDone
  <2>2. Memory(mem, L) /\ Comparable(mem, L) /\ slen \in Nat
    BY <1>1, <2>1 DEF Left, InMemory, LibInv, ArgumentsFit
  <2>3. /\ dest # 0 /\ dmax <= RSIZE_MAX_MEM => In(dest, dmax, L)
        /\ src # 0 /\ dmax <= RSIZE_MAX_MEM => In(src, dmax, L)
        /\ \A a \in 1..L : mem[a] < UINT32_SIZE
    BY <1>9, <2>2 DEF Comparable
  <2>4. ComparedUpTo(fn, mem, dest, dmax, src, slen, r.out)
    <3>1. CASE fn = "memcmp"
      BY <1>7, <1>8, <1>10, <2>2, <2>3, <3>1, memcmpCompares DEF ReadDone
    <3>2. CASE fn = "memcmp16"
      BY <1>7, <1>8, <1>10, <2>2, <2>3, <3>2, memcmp16Compares DEF ReadDone
    <3>3. CASE fn = "memcmp32"
      BY <1>7, <1>8, <1>10, <2>2, <2>3, <3>3, memcmp32Compares DEF ReadDone
    <3>4. CASE fn = "wmemcmp"
      BY <1>7, <1>8, <1>10, <2>2, <2>3, <3>4, wmemcmpCompares DEF ReadDone
    <3> QED
      BY <1>12, <3>1, <3>2, <3>3, <3>4
  <2>5. fn \notin {"strcmp", "strcasecmp"}
    BY <1>12
  <2> QED
    BY <1>5, <1>6, <2>4, <2>5
<1> QED
  BY <1>7, <1>11, <1>12 DEF CompareFunctions

(* A comparison has the sign of the first place where its two sides        *)
(* differ, and finds no difference only where there is none, for blocks    *)
(* and strings of every length (safe_memcmp.c, safe_strcmp.c and theirs).  *)
THEOREM LibraryComparesFirst == Spec => ComparesByTheFirstDifference
<1> DEFINE ComparesFirst ==
      Calls({"memcmp", "memcmp16", "memcmp32", "wmemcmp", "strcmp", "strcasecmp"})
        /\ call'.heard = <<>> =>
          LET strings == call'.fn \in {"strcmp", "strcasecmp"}
              Cell(a) == IF call'.fn = "strcasecmp" THEN toupper(mem[a]) ELSE mem[a]
              n == IF strings THEN Min({call'.dmax, Length(mem, call'.dest, call'.dmax) + 1})
                   ELSE call'.slen
              x(i) == Cell(call'.dest + i)
              y(i) == Cell(call'.src + i)
              differ == {i \in 0..(n - 1) : x(i) # y(i)}
          IN  IF differ # {}
              THEN LET i == Min(differ)
                   IN  \/ SignOf(call'.out) = SignOf(x(i) - y(i))
                       \/ /\ call'.fn = "memcmp32" /\ call'.out # 0
                          /\ x(i) - y(i) \notin (-(UINT32_SIZE \div 2))..((UINT32_SIZE \div 2) - 1)
              ELSE call'.out = 0 \/ (strings /\ n = call'.dmax)
<1>1. LibInv /\ [Next]_vars => [ComparesFirst]_vars
  <2> SUFFICES ASSUME LibInv, [Next]_vars, Calls(CompareFunctions), call'.heard = <<>>
               PROVE  ComparesFirst
    BY Zenon DEF CompareFunctions
  <2> DEFINE C(a) == IF call'.fn = "strcasecmp" THEN toupper(mem[a]) ELSE mem[a]
             n == IF call'.fn \in {"strcmp", "strcasecmp"}
                  THEN Min({call'.dmax, Length(mem, call'.dest, call'.dmax) + 1})
                  ELSE call'.slen
             differ == {i \in 0..(n - 1) : C(call'.dest + i) # C(call'.src + i)}
  <2>1. ComparedUpTo(call'.fn, mem, call'.dest, call'.dmax, call'.src, n, call'.out)
    BY CallCompares, Zenon
  <2>2. call'.fn # "strcasestr"
    BY DEF Calls, CompareFunctions
  <2>3. \A a : CharAt(call'.fn, mem, a) = C(a)
    BY <2>2 DEF CharAt
  <2> HIDE DEF C, n
  <2>4. DifferAt(call'.fn, mem, call'.dest, call'.src, n) = differ
    BY <2>3 DEF DifferAt
  <2>5. IF differ # {}
        THEN SignIsRight(call'.fn, call'.out, C(call'.dest + Min(differ)), C(call'.src + Min(differ)))
        ELSE call'.out = 0 \/ (call'.fn \in {"strcmp", "strcasecmp"} /\ n = call'.dmax)
    BY <2>1, <2>3, <2>4 DEF ComparedUpTo
  <2> QED
    BY <2>5, Zenon DEF SignIsRight, C, n
<1>2. [][ComparesFirst]_vars => ComparesByTheFirstDifference
  BY DEF ComparesByTheFirstDifference
<1> HIDE DEF ComparesFirst
<1> QED
  BY <1>1, <1>2, LibraryInvariant, PTL DEF Spec
-----------------------------------------------------------------------------

(* The checks of a search. *)
LEMMA SearchErrorIs ==
    ASSUME NEW dest \in Nat, NEW dmax \in Nat, NEW src \in Nat, NEW slen \in Nat,
           SearchError(dest, dmax, src, slen) = "EOK"
    PROVE  /\ dest # 0 /\ src # 0 /\ dmax # 0 /\ slen # 0
           /\ dmax <= RSIZE_MAX_STR /\ slen <= RSIZE_MAX_STR
<1> DEFINE a == NullDest(dest)
           b == NullSrc(src)
           c == Zero(dmax)
           d == TooLong(dmax, RSIZE_MAX_STR)
           e == Zero(slen)
           f == TooLong(slen, RSIZE_MAX_STR)
           checks == <<a, b, c, d, e, f>>
<1>1. FirstError(checks) = "EOK"
  BY DEF SearchError
<1>2. /\ a[2] # "EOK" /\ (a[1] <=> dest = 0) /\ b[2] # "EOK" /\ (b[1] <=> src = 0)
      /\ c[2] # "EOK" /\ (c[1] <=> dmax = 0) /\ d[2] # "EOK" /\ (d[1] <=> dmax > RSIZE_MAX_STR)
      /\ e[2] # "EOK" /\ (e[1] <=> slen = 0) /\ f[2] # "EOK" /\ (f[1] <=> slen > RSIZE_MAX_STR)
  BY DEF NullDest, NullSrc, Zero, TooLong, NULL
<1> HIDE DEF a, b, c, d, e, f
<1>3. DOMAIN checks = 1..6 /\ 6 \in Nat /\ checks[1] = a /\ checks[2] = b /\ checks[3] = c
      /\ checks[4] = d /\ checks[5] = e /\ checks[6] = f
  OBVIOUS
<1> HIDE DEF checks
<1>4. \A i \in 1..6 : checks[i][2] # "EOK"
  BY <1>2, <1>3
<1>5. \A i \in 1..6 : ~checks[i][1]
  BY <1>1, <1>3, <1>4, NoCheckFails
<1>6. ~a[1] /\ ~b[1] /\ ~c[1] /\ ~d[1] /\ ~e[1] /\ ~f[1]
  BY <1>3, <1>5
<1>7. RSIZE_MAX_STR \in Int
  BY SafeLibAssumption
<1> QED
  BY <1>2, <1>6, <1>7

(* safe_strstr makes the same checks in another order. *)
LEMMA FindErrorIs ==
    ASSUME NEW dest \in Nat, NEW dmax \in Nat, NEW src \in Nat, NEW slen \in Nat,
           FirstError(<<NullDest(dest), Zero(dmax), TooLong(dmax, RSIZE_MAX_STR),
                        NullSrc(src), Zero(slen), TooLong(slen, RSIZE_MAX_STR)>>) = "EOK"
    PROVE  /\ dest # 0 /\ src # 0 /\ dmax # 0 /\ slen # 0
           /\ dmax <= RSIZE_MAX_STR /\ slen <= RSIZE_MAX_STR
<1> DEFINE a == NullDest(dest)
           b == Zero(dmax)
           c == TooLong(dmax, RSIZE_MAX_STR)
           d == NullSrc(src)
           e == Zero(slen)
           f == TooLong(slen, RSIZE_MAX_STR)
           checks == <<a, b, c, d, e, f>>
<1>1. FirstError(checks) = "EOK"
  OBVIOUS
<1>2. /\ a[2] # "EOK" /\ (a[1] <=> dest = 0) /\ b[2] # "EOK" /\ (b[1] <=> dmax = 0)
      /\ c[2] # "EOK" /\ (c[1] <=> dmax > RSIZE_MAX_STR) /\ d[2] # "EOK" /\ (d[1] <=> src = 0)
      /\ e[2] # "EOK" /\ (e[1] <=> slen = 0) /\ f[2] # "EOK" /\ (f[1] <=> slen > RSIZE_MAX_STR)
  BY DEF NullDest, NullSrc, Zero, TooLong, NULL
<1> HIDE DEF a, b, c, d, e, f
<1>3. DOMAIN checks = 1..6 /\ 6 \in Nat /\ checks[1] = a /\ checks[2] = b /\ checks[3] = c
      /\ checks[4] = d /\ checks[5] = e /\ checks[6] = f
  OBVIOUS
<1> HIDE DEF checks
<1>4. \A i \in 1..6 : checks[i][2] # "EOK"
  BY <1>2, <1>3
<1>5. \A i \in 1..6 : ~checks[i][1]
  BY <1>1, <1>3, <1>4, NoCheckFails
<1>6. ~a[1] /\ ~b[1] /\ ~c[1] /\ ~d[1] /\ ~e[1] /\ ~f[1]
  BY <1>3, <1>5
<1>7. RSIZE_MAX_STR \in Int
  BY SafeLibAssumption
<1> QED
  BY <1>2, <1>6, <1>7

(* What is sought, as the property says it. *)
Chars(m, src, k) == {m[src + j] : j \in 0..(k - 1)}
MembersIn(m, dest, n, set) == {i \in 0..(n - 1) : m[dest + i] \in set}
MatchesIn(fn, m, dest, src, n, k) ==
    {i \in 0..(n - k) : \A j \in 0..(k - 1) : CharAt(fn, m, dest + i + j) = CharAt(fn, m, src + j)}
FoundAt(dest, places) == IF places = {} THEN NULL ELSE dest + Min(places)

(* safe_strspn ends at the first character that is not in the set. *)
LEMMA strspnFinds ==
    ASSUME NEW m, NEW dest \in Nat, NEW dmax \in Nat, NEW src \in Nat, NEW slen \in Nat, NEW r,
           r = safe_strspn(m, dest, dmax, src, slen), r.told = "EOK",
           NEW n, n = Length(m, dest, dmax), NEW k, k = Length(m, src, slen)
    PROVE  r.out = Min(((0..(n - 1)) \ MembersIn(m, dest, n, Chars(m, src, k))) \cup {n})
<1> DEFINE set == CharsOf(m, src, slen)
           S == {i \in 0..n : i = n \/ (m[dest + i] \in set) # TRUE}
<1>1. r.out = Min(S)
  BY DEF safe_strspn, Span, Refused, Returns, Result
<1>2. n \in Nat
  BY LengthIs DEF IsLength
<1>3. set = Chars(m, src, k)
  BY DEF CharsOf, Chars
<1> HIDE DEF set
<1>4. S = ((0..(n - 1)) \ MembersIn(m, dest, n, set)) \cup {n}
  <2>1. \A i : ((m[dest + i] \in set) # TRUE) <=> m[dest + i] \notin set
    OBVIOUS
  <2>2. \A i : i \in S <=> i \in 0..n /\ (i = n \/ m[dest + i] \notin set)
    BY <2>1
  <2>3. \A i : i \in MembersIn(m, dest, n, set) <=> i \in 0..(n - 1) /\ m[dest + i] \in set
    BY DEF MembersIn
  <2>4. \A i : i \in 0..n <=> i \in 0..(n - 1) \/ i = n
    BY <1>2
  <2>5. n \notin 0..(n - 1)
    BY <1>2
  <2> HIDE DEF S
  <2> QED
    BY <2>2, <2>3, <2>4, <2>5
<1> QED
  BY <1>1, <1>3, <1>4

(* safe_strcspn ends at the first character that is in the set. *)
LEMMA strcspnFinds ==
    ASSUME NEW m, NEW dest \in Nat, NEW dmax \in Nat, NEW src \in Nat, NEW slen \in Nat, NEW r,
           r = safe_strcspn(m, dest, dmax, src, slen), r.told = "EOK",
           NEW n, n = Length(m, dest, dmax), NEW k, k = Length(m, src, slen)
    PROVE  r.out = Min(MembersIn(m, dest, n, Chars(m, src, k)) \cup {n})
<1> DEFINE set == CharsOf(m, src, slen)
           S == {i \in 0..n : i = n \/ (m[dest + i] \in set) # FALSE}
<1>1. r.out = Min(S)
  BY DEF safe_strcspn, Span, Refused, Returns, Result
<1>2. n \in Nat
  BY LengthIs DEF IsLength
<1>3. set = Chars(m, src, k)
  BY DEF CharsOf, Chars
<1> HIDE DEF set
<1>4. S = MembersIn(m, dest, n, set) \cup {n}
  <2>1. \A i : ((m[dest + i] \in set) # FALSE) <=> m[dest + i] \in set
    <3>1. ASSUME NEW c PROVE ((c \in set) # FALSE) <=> c \in set
      <4>1. CASE c \in set
        BY <4>1
      <4>2. CASE c \notin set
        <5>1. (c \in set) = FALSE
          BY <4>2, SMT
        <5> QED
          BY <4>2, <5>1, Zenon
      <4> QED
        BY <4>1, <4>2
    <3> QED
      BY <3>1, Zenon
  <2>2. \A i : i \in S <=> i \in 0..n /\ (i = n \/ m[dest + i] \in set)
    BY <2>1
  <2>3. \A i : i \in MembersIn(m, dest, n, set) <=> i \in 0..(n - 1) /\ m[dest + i] \in set
    BY DEF MembersIn
  <2>4. \A i : i \in 0..n <=> i \in 0..(n - 1) \/ i = n
    BY <1>2
  <2> HIDE DEF S
  <2> QED
    BY <2>2, <2>3, <2>4
<1> QED
  BY <1>1, <1>3, <1>4

(* A set that ends within slen is the same to the end of the memory. *)
LEMMA strpbrkFinds ==
    ASSUME NEW L, NEW m, Memory(m, L), NEW dest \in Nat, NEW dmax \in Nat, NEW src \in Nat, NEW slen \in Nat,
           src # 0 /\ slen <= RSIZE_MAX_STR => In(src, slen + 1, L), NEW r,
           r = safe_strpbrk(m, dest, dmax, src, slen), r.told = "EOK",
           NEW n, n = Length(m, dest, dmax), NEW k, k = Length(m, src, slen), m[src + k] = 0
    PROVE  r.out = FoundAt(dest, MembersIn(m, dest, n, Chars(m, src, k)))
<1> DEFINE places == MembersIn(m, dest, n, CharsOf(m, src, Max(DOMAIN m) - src))
<1>1. SearchError(dest, dmax, src, slen) = "EOK" /\ r.out = FoundAt(dest, places)
  BY DEF safe_strpbrk, NotFound, Refused, Returns, Result, FoundAt, MembersIn, NULL
<1>2. src # 0 /\ slen <= RSIZE_MAX_STR
  BY <1>1, SearchErrorIs
<1>3. src + slen <= L /\ L \in Nat /\ L >= 1
  BY <1>2 DEF In, Memory
<1>4. Max(DOMAIN m) = L
  BY <1>2, <1>3, LastCellIs
<1>5. PICK e \in Nat : e = L - src /\ slen <= e
  BY <1>3
<1>6. IsLength(m, src, slen, k)
  BY LengthIs
<1>7. IsLength(m, src, e, k)
  BY <1>5, <1>6 DEF IsLength
<1>8. Length(m, src, e) = k
  BY <1>7, LengthIs, OneLength
<1>9. CharsOf(m, src, Max(DOMAIN m) - src) = Chars(m, src, k)
  BY <1>4, <1>5, <1>8 DEF CharsOf, Chars
<1> QED
  BY <1>1, <1>9

(* The places at which a search comes to the end of src or of slen without *)
(* a difference, within dmax and before one of the strings ends.           *)
Compared(fn, m, dest, dmax, src, slen, n, places) ==
    \A i : i \in places <=>
        /\ i \in 0..(n - 1)
        /\ \E c \in 1..slen :
              /\ c <= dmax - i /\ (c = slen \/ m[src + c] = 0)
              /\ \A j \in 0..(c - 1) : /\ m[src + j] # 0 \/ m[dest + i + j] # 0
                                       /\ CharAt(fn, m, dest + i + j) = CharAt(fn, m, src + j)

(* The first place where a string is found. *)
LEMMA StringFound ==
    ASSUME NEW fn \in {"strstr", "strcasestr"}, NEW m, NEW dest \in Nat, NEW dmax \in Nat,
           NEW src \in Nat, NEW slen \in Nat, slen # 0,
           NEW n, IsLength(m, dest, dmax, n), NEW k, IsLength(m, src, slen, k), k # 0,
           NEW places, Compared(fn, m, dest, dmax, src, slen, n, places)
    PROVE  places = MatchesIn(fn, m, dest, src, n, k)
<1>1. n \in Nat /\ n <= dmax /\ k \in Nat /\ k <= slen
  BY DEF IsLength
<1>2. \A j \in 0..(n - 1) : CharAt(fn, m, dest + j) # 0
  BY CharZero DEF IsLength, Plain
<1>3. \A j \in 0..(k - 1) : CharAt(fn, m, src + j) # 0
  BY CharZero DEF IsLength, Plain
<1>4. \A j \in 0..(k - 1) : m[src + j] # 0
  BY DEF IsLength, Plain
<1>5. k = slen \/ m[src + k] = 0
  BY <1>1 DEF IsLength
<1>6. n < dmax => CharAt(fn, m, dest + n) = 0
  BY <1>1, CharZero DEF IsLength
<1>7. ASSUME NEW i \in places PROVE i \in MatchesIn(fn, m, dest, src, n, k)
  <2>1. i \in 0..(n - 1)
    BY DEF Compared
  <2>2. PICK c \in 1..slen :
                    /\ c <= dmax - i /\ (c = slen \/ m[src + c] = 0)
                    /\ \A j \in 0..(c - 1) : /\ m[src + j] # 0 \/ m[dest + i + j] # 0
                                             /\ CharAt(fn, m, dest + i + j) = CharAt(fn, m, src + j)
    BY <1>7 DEF Compared
  <2>3. \A j \in 0..(c - 1) : m[src + j] # 0
    <3> SUFFICES ASSUME NEW j \in 0..(c - 1), m[src + j] = 0 PROVE FALSE
      OBVIOUS
    <3>1. CharAt(fn, m, src + j) = 0 /\ m[dest + i + j] # 0
      BY <2>2, CharZero
    <3>2. CharAt(fn, m, dest + i + j) # 0
      BY <3>1, CharZero
    <3> QED
      BY <2>2, <3>1, <3>2
  <2>4. IsLength(m, src, slen, c)
    BY <2>2, <2>3 DEF IsLength, Plain
  <2>5. c = k
    BY <2>4, OneLength
  <2>6. i + k <= n
    <3> SUFFICES ASSUME n < i + k PROVE FALSE
      BY <1>1, <2>1
    <3>1. PICK j \in Int : j = n - i
      BY <1>1, <2>1
    <3>2. j \in 0..(c - 1) /\ n < dmax /\ j \in 0..(k - 1) /\ dest + i + j = dest + n
      BY <1>1, <2>1, <2>2, <2>5, <3>1
    <3>3. CharAt(fn, m, dest + i + j) = CharAt(fn, m, src + j)
      BY <2>2, <3>2
    <3>4. CharAt(fn, m, dest + i + j) = 0
      BY <1>6, <3>2
    <3> QED
      BY <1>3, <3>2, <3>3, <3>4
  <2>7. i \in 0..(n - k)
    BY <1>1, <2>1, <2>6
  <2> QED
    BY <2>2, <2>5, <2>7 DEF MatchesIn
<1>8. ASSUME NEW i \in MatchesIn(fn, m, dest, src, n, k) PROVE i \in places
  <2>1. i \in 0..(n - k) /\ \A j \in 0..(k - 1) : CharAt(fn, m, dest + i + j) = CharAt(fn, m, src + j)
    BY DEF MatchesIn
  <2>2. i \in 0..(n - 1) /\ k \in 1..slen /\ k <= dmax - i
    BY <1>1, <2>1
  <2>3. \A j \in 0..(k - 1) : /\ m[src + j] # 0 \/ m[dest + i + j] # 0
                              /\ CharAt(fn, m, dest + i + j) = CharAt(fn, m, src + j)
    BY <1>4, <2>1
  <2> QED
    BY <1>5, <2>2, <2>3 DEF Compared
<1> QED
  BY <1>7, <1>8

(* The length of a smaller limit. *)
LEMMA WithinBoth ==
    ASSUME NEW i \in Nat, NEW j \in Nat, NEW c
    PROVE  c \in 1..Min({i, j}) <=> c \in 1..j /\ c <= i
<1>1. PICK t : t = Min({i, j})
  OBVIOUS
<1>2. t = IF j < i THEN j ELSE i
  BY <1>1, MinOfTwo
<1>3. c \in 1..t <=> c \in 1..j /\ c <= i
  BY <1>2
<1> QED
  BY <1>1, <1>3

(* An empty string is found at the beginning. *)
LEMMA EmptyIsFound ==
    ASSUME NEW fn, NEW m, NEW dest \in Nat, NEW src \in Nat, NEW slen \in Nat, slen # 0, m[src] = 0,
           NEW n \in Nat, NEW k, IsLength(m, src, slen, k)
    PROVE  FoundAt(dest, MatchesIn(fn, m, dest, src, n, k)) = dest
<1>1. k = 0
  <2>1. 0 \in 0..(k - 1) => m[src + 0] # 0
    BY DEF IsLength, Plain
  <2>2. src + 0 = src /\ k \in 0..slen
    BY DEF IsLength
  <2> QED
    BY <2>1, <2>2
<1>2. PICK P : P = MatchesIn(fn, m, dest, src, n, k)
  OBVIOUS
<1>3. P = 0..n
  BY <1>1, <1>2 DEF MatchesIn
<1>4. P \in SUBSET Nat /\ P # {} /\ 0 \in P
  <2>1. 0 \in 0..n /\ 0..n \subseteq Nat
    OBVIOUS
  <2> QED
    BY <1>3, <2>1
<1>5. PICK t : t = Min(P)
  OBVIOUS
<1>6. t \in Nat /\ t <= 0
  BY <1>4, <1>5, MinMember
<1> QED
  BY <1>2, <1>4, <1>5, <1>6 DEF FoundAt

(* safe_strstr finds the first place where the string begins. *)
LEMMA strstrFinds ==
    ASSUME NEW m, NEW dest \in Nat, NEW dmax \in Nat, NEW src \in Nat, NEW slen \in Nat, NEW r,
           r = safe_strstr(m, dest, dmax, src, slen), r.told = "EOK", dest # src,
           NEW n, n = Length(m, dest, dmax), NEW k, k = Length(m, src, slen)
    PROVE  r.out = FoundAt(dest, MatchesIn("strstr", m, dest, src, n, k))
<1> DEFINE bad == FirstError(<<NullDest(dest), Zero(dmax), TooLong(dmax, RSIZE_MAX_STR),
                               NullSrc(src), Zero(slen), TooLong(slen, RSIZE_MAX_STR)>>)
           places == {i \in 0..(n - 1) : MatchesAt(m, dest + i, dmax - i, src, slen)}
<1>1. /\ bad = "EOK"
      /\ m[src] = 0 => r.out = dest
      /\ m[src] # 0 => r.out = FoundAt(dest, places)
  BY DEF safe_strstr, FindString, NotFound, Refused, Returns, Result, FoundAt, NULL
<1>2. slen # 0
  BY <1>1, FindErrorIs
<1>3. IsLength(m, dest, dmax, n) /\ IsLength(m, src, slen, k)
  BY LengthIs
<1>4. n \in Nat /\ n <= dmax
  BY <1>3 DEF IsLength
<1>5. CASE m[src] = 0
  BY <1>1, <1>2, <1>3, <1>4, <1>5, EmptyIsFound
<1>6. CASE m[src] # 0
  <2>1. k # 0
    BY <1>2, <1>3, <1>6 DEF IsLength
  <2>2. \A a : CharAt("strstr", m, a) = m[a]
    BY DEF CharAt
  <2>3. \A i : i \in places <=> i \in 0..(n - 1) /\ MatchesAt(m, dest + i, dmax - i, src, slen)
    OBVIOUS
  <2>4. PICK P : P = places
    OBVIOUS
  <2> HIDE DEF places
  <2>5. ASSUME NEW i \in 0..(n - 1)
        PROVE  MatchesAt(m, dest + i, dmax - i, src, slen) <=>
                 \E c \in 1..slen :
                    /\ c <= dmax - i /\ (c = slen \/ m[src + c] = 0)
                    /\ \A j \in 0..(c - 1) : /\ m[src + j] # 0 \/ m[dest + i + j] # 0
                                             /\ CharAt("strstr", m, dest + i + j) = CharAt("strstr", m, src + j)
    <3>1. PICK e \in Nat : e = dmax - i
      BY <1>4
    <3>2. \A c : c \in 1..Min({e, slen}) <=> c \in 1..slen /\ c <= e
      BY WithinBoth
    <3>3. \A c \in 1..slen :
              Agree(m, dest + i, src, c) <=>
                  \A j \in 0..(c - 1) : /\ m[src + j] # 0 \/ m[dest + i + j] # 0
                                        /\ CharAt("strstr", m, dest + i + j) = CharAt("strstr", m, src + j)
      BY <2>2 DEF Agree
    <3> QED
      BY <3>1, <3>2, <3>3 DEF MatchesAt
  <2>6. Compared("strstr", m, dest, dmax, src, slen, n, P)
    BY <2>3, <2>4, <2>5 DEF Compared
  <2>7. P = MatchesIn("strstr", m, dest, src, n, k)
    BY <1>2, <1>3, <2>1, <2>6, StringFound
  <2> QED
    BY <1>1, <1>6, <2>4, <2>7
<1> QED
  BY <1>5, <1>6

(* safe_strcasestr finds the first place where the string begins in upper  *)
(* case.                                                                   *)
LEMMA strcasestrFinds ==
    ASSUME NEW m, NEW dest \in Nat, NEW dmax \in Nat, NEW src \in Nat, NEW slen \in Nat, NEW r,
           r = safe_strcasestr(m, dest, dmax, src, slen), r.told = "EOK", dest # src,
           NEW n, n = Length(m, dest, dmax), NEW k, k = Length(m, src, slen)
    PROVE  r.out = FoundAt(dest, MatchesIn("strcasestr", m, dest, src, n, k))
<1> DEFINE bad == FirstError(<<NullDest(dest), Zero(dmax), TooLong(dmax, RSIZE_MAX_STR),
                               NullSrc(src), Zero(slen), TooLong(slen, RSIZE_MAX_STR)>>)
           places == {i \in 0..(n - 1) : MatchesAnyCase(m, dest + i, dmax - i, src, slen)}
<1>1. /\ bad = "EOK"
      /\ m[src] = 0 => r.out = dest
      /\ m[src] # 0 => r.out = FoundAt(dest, places)
  BY DEF safe_strcasestr, FindString, NotFound, Refused, Returns, Result, FoundAt, NULL
<1>2. slen # 0
  BY <1>1, FindErrorIs
<1>3. IsLength(m, dest, dmax, n) /\ IsLength(m, src, slen, k)
  BY LengthIs
<1>4. n \in Nat /\ n <= dmax
  BY <1>3 DEF IsLength
<1>5. CASE m[src] = 0
  BY <1>1, <1>2, <1>3, <1>4, <1>5, EmptyIsFound
<1>6. CASE m[src] # 0
  <2>1. k # 0
    BY <1>2, <1>3, <1>6 DEF IsLength
  <2>2. \A a : CharAt("strcasestr", m, a) = toupper(m[a])
    BY DEF CharAt
  <2>3. \A i : i \in places <=> i \in 0..(n - 1) /\ MatchesAnyCase(m, dest + i, dmax - i, src, slen)
    OBVIOUS
  <2>4. PICK P : P = places
    OBVIOUS
  <2> HIDE DEF places
  <2>5. ASSUME NEW i \in 0..(n - 1)
        PROVE  MatchesAnyCase(m, dest + i, dmax - i, src, slen) <=>
                 \E c \in 1..slen :
                    /\ c <= dmax - i /\ (c = slen \/ m[src + c] = 0)
                    /\ \A j \in 0..(c - 1) : /\ m[src + j] # 0 \/ m[dest + i + j] # 0
                                             /\ CharAt("strcasestr", m, dest + i + j) = CharAt("strcasestr", m, src + j)
    <3>1. PICK e \in Nat : e = dmax - i
      BY <1>4
    <3>2. \A c : c \in 1..Min({e, slen}) <=> c \in 1..slen /\ c <= e
      BY WithinBoth
    <3>3. \A c \in 1..slen :
              AgreeAnyCase(m, dest + i, src, c) <=>
                  \A j \in 0..(c - 1) : /\ m[src + j] # 0 \/ m[dest + i + j] # 0
                                        /\ CharAt("strcasestr", m, dest + i + j) = CharAt("strcasestr", m, src + j)
      <4>1. ASSUME NEW c \in 1..slen, NEW j \in 0..(c - 1)
            PROVE  m[dest + i + j] # 0 /\ toupper(m[dest + i + j]) = toupper(m[src + j]) <=>
                      /\ m[src + j] # 0 \/ m[dest + i + j] # 0
                      /\ CharAt("strcasestr", m, dest + i + j) = CharAt("strcasestr", m, src + j)
        <5>1. PICK x : x = m[dest + i + j]
          OBVIOUS
        <5>2. PICK y : y = m[src + j]
          OBVIOUS
        <5>3. x # 0 /\ toupper(x) = toupper(y) <=> (y # 0 \/ x # 0) /\ toupper(x) = toupper(y)
          BY UpperZero
        <5> QED
          BY <2>2, <5>1, <5>2, <5>3
      <4> QED
        BY <4>1 DEF AgreeAnyCase
    <3> QED
      BY <3>1, <3>2, <3>3 DEF MatchesAnyCase
  <2>6. Compared("strcasestr", m, dest, dmax, src, slen, n, P)
    BY <2>3, <2>4, <2>5 DEF Compared
  <2>7. P = MatchesIn("strcasestr", m, dest, src, n, k)
    BY <1>2, <1>3, <2>1, <2>6, StringFound
  <2> QED
    BY <1>1, <1>6, <2>4, <2>7
<1> QED
  BY <1>5, <1>6

(* A call of a search finds the first place, in the words of the property. *)
LEMMA CallSearches ==
    ASSUME LibInv, [Next]_vars, Calls(SearchFunctions), call'.heard = <<>>, call'.dest # call'.src,
           NEW n, n = Length(mem, call'.dest, call'.dmax), NEW k, k = Length(mem, call'.src, call'.slen)
    PROVE  /\ call'.fn \in {"strstr", "strcasestr"} =>
                call'.out = FoundAt(call'.dest, MatchesIn(call'.fn, mem, call'.dest, call'.src, n, k))
           /\ call'.fn = "strpbrk" /\ mem[call'.src + k] = 0 =>
                call'.out = FoundAt(call'.dest, MembersIn(mem, call'.dest, n, Chars(mem, call'.src, k)))
           /\ call'.fn = "strspn" =>
                call'.out = Min(((0..(n - 1)) \ MembersIn(mem, call'.dest, n, Chars(mem, call'.src, k)))
                                \cup {n})
           /\ call'.fn = "strcspn" =>
                call'.out = Min(MembersIn(mem, call'.dest, n, Chars(mem, call'.src, k)) \cup {n})
<1>1. PICK L : Left(L)
  BY StepLeaves
<1>2. call'.fn \in SearchFunctions /\ call' # call /\ call'.fn \in ReadFunctions /\ call'.fn # "strtok"
  BY DEF Calls, SearchFunctions, ReadFunctions
<1>3. SearchFunctions \cap CaseFunctions = {}
  BY DEF SearchFunctions, CaseFunctions
<1>4. ReadMade
  BY <1>1, <1>2, <1>3, NoFunctionTwice DEF Left, BlockMade, SetMade, StringMade, FieldMade, PaddedMade,
     EditMade, CaseMade, TokenMade
<1>5. PICK r : /\ call'.out = r.out /\ call'.heard = Heard(scene.library, r.told)
               /\ ReadDone(call'.fn, r, mem, call'.dest, call'.dmax, call'.src, call'.slen)
  BY <1>4 DEF ReadMade
<1>6. PICK fn, dest, dmax, src, slen :
          fn = call'.fn /\ dest = call'.dest /\ dmax = call'.dmax /\ src = call'.src /\ slen = call'.slen
  OBVIOUS
<1>7. ReadDone(fn, r, mem, dest, dmax, src, slen) /\ fn \in SearchFunctions /\ dest # src
      /\ n = Length(mem, dest, dmax) /\ k = Length(mem, src, slen)
  BY <1>2, <1>5, <1>6
<1>8. r.told = "EOK"
  <2>1. Heard(scene.library, r.told) = <<>>
    BY <1>5
  <2> QED
    BY <2>1, HeardNothing
<1>9. /\ dest \in scene.dests /\ dmax \in scene.sizes /\ src \in scene.sources /\ slen \in scene.lengths
      /\ "scan" \in scene.kinds
  BY <1>7 DEF ReadDone
<1>10. dest \in Nat /\ dmax \in Nat /\ src \in Nat /\ slen \in Nat
  BY <1>9 DEF LibInv, ArgumentsFit
<1>11. ASSUME fn \in {"strstr", "strcasestr"}
       PROVE  r.out = FoundAt(dest, MatchesIn(fn, mem, dest, src, n, k))
  <2>1. CASE fn = "strstr"
    BY <1>7, <1>8, <1>10, <2>1, strstrFinds DEF ReadDone
  <2>2. CASE fn = "strcasestr"
    BY <1>7, <1>8, <1>10, <2>2, strcasestrFinds DEF ReadDone
  <2> QED
    BY <1>11, <2>1, <2>2
<1>12. ASSUME fn = "strpbrk", mem[src + k] = 0
       PROVE  r.out = FoundAt(dest, MembersIn(mem, dest, n, Chars(mem, src, k)))
  <2>1. Memory(mem, L) /\ Room(L)
    BY <1>1, <1>9 DEF Left, InMemory, StringKinds
  <2>2. src # 0 /\ slen <= RSIZE_MAX_STR => In(src, slen + 1, L)
    BY <1>9, <2>1 DEF Room
  <2> QED
    BY <1>7, <1>8, <1>10, <1>12, <2>1, <2>2, strpbrkFinds DEF ReadDone
<1>13. fn = "strspn" => r.out = Min(((0..(n - 1)) \ MembersIn(mem, dest, n, Chars(mem, src, k))) \cup {n})
  BY <1>7, <1>8, <1>10, strspnFinds DEF ReadDone
<1>14. fn = "strcspn" => r.out = Min(MembersIn(mem, dest, n, Chars(mem, src, k)) \cup {n})
  BY <1>7, <1>8, <1>10, strcspnFinds DEF ReadDone
<1> QED
  BY <1>5, <1>6, <1>11, <1>12, <1>13, <1>14

(* A search finds the first place there is, and nothing only where there   *)
(* is none, for strings of every length; a span ends at the first          *)
(* character that does (safe_strstr.c, safe_strpbrk.c, safe_strspn.c).     *)
THEOREM LibraryFindsFirst == Spec => SearchFindsTheFirstPlace
<1> DEFINE FindsFirst ==
      Calls({"strstr", "strcasestr", "strpbrk", "strspn", "strcspn"})
        /\ call'.heard = <<>> /\ call'.dest # call'.src =>
          LET Cell(a) == IF call'.fn = "strcasestr" THEN toupper(mem[a]) ELSE mem[a]
              n == Length(mem, call'.dest, call'.dmax)
              k == Length(mem, call'.src, call'.slen)
              set == {mem[call'.src + j] : j \in 0..(k - 1)}
              terminated == mem[call'.src + k] = 0
              matches == {i \in 0..(n - k) :
                            \A j \in 0..(k - 1) : Cell(call'.dest + i + j) = Cell(call'.src + j)}
              members == {i \in 0..(n - 1) : mem[call'.dest + i] \in set}
              others == (0..(n - 1)) \ members
              Found(places) == IF places = {} THEN NULL ELSE call'.dest + Min(places)
          IN  CASE call'.fn \in {"strstr", "strcasestr"} -> call'.out = Found(matches)
                [] call'.fn = "strpbrk" -> terminated => call'.out = Found(members)
                [] call'.fn = "strspn"  -> call'.out = Min(others \cup {n})
                [] call'.fn = "strcspn" -> call'.out = Min(members \cup {n})
<1>1. LibInv /\ [Next]_vars => [FindsFirst]_vars
  <2> SUFFICES ASSUME LibInv, [Next]_vars, Calls(SearchFunctions), call'.heard = <<>>,
                      call'.dest # call'.src
               PROVE  FindsFirst
    BY Zenon DEF SearchFunctions
  <2> DEFINE C(a) == IF call'.fn = "strcasestr" THEN toupper(mem[a]) ELSE mem[a]
             n == Length(mem, call'.dest, call'.dmax)
             k == Length(mem, call'.src, call'.slen)
             set == {mem[call'.src + j] : j \in 0..(k - 1)}
             matches == {i \in 0..(n - k) :
                           \A j \in 0..(k - 1) : C(call'.dest + i + j) = C(call'.src + j)}
             members == {i \in 0..(n - 1) : mem[call'.dest + i] \in set}
             Found(places) == IF places = {} THEN NULL ELSE call'.dest + Min(places)
  <2>1. call'.fn \in SearchFunctions /\ call'.fn # "strcasecmp"
    BY DEF Calls, SearchFunctions
  <2>2. \A a : CharAt(call'.fn, mem, a) = C(a)
    BY <2>1 DEF CharAt
  <2>3. PICK N : N = n
    OBVIOUS
  <2>4. PICK K : K = k
    OBVIOUS
  <2>5. set = Chars(mem, call'.src, K)
    BY <2>4 DEF Chars
  <2>6. members = MembersIn(mem, call'.dest, N, Chars(mem, call'.src, K))
    BY <2>3, <2>5, Zenon DEF MembersIn
  <2>7. matches = MatchesIn(call'.fn, mem, call'.dest, call'.src, N, K)
    <3> HIDE DEF n, k, C
    <3> QED
      BY <2>2, <2>3, <2>4 DEF MatchesIn
  <2> HIDE DEF C, set, members, matches
  <2>8. call'.fn \in {"strstr", "strcasestr"} => call'.out = Found(matches)
    BY <2>3, <2>4, <2>7, CallSearches DEF FoundAt
  <2>9. call'.fn = "strpbrk" => (mem[call'.src + k] = 0 => call'.out = Found(members))
    BY <2>3, <2>4, <2>6, CallSearches DEF FoundAt
  <2>10. call'.fn = "strspn" => call'.out = Min(((0..(n - 1)) \ members) \cup {n})
    BY <2>3, <2>4, <2>6, CallSearches
  <2>11. call'.fn = "strcspn" => call'.out = Min(members \cup {n})
    BY <2>3, <2>4, <2>6, CallSearches
  <2>12. \/ call'.fn \in {"strstr", "strcasestr"} \/ call'.fn = "strpbrk"
         \/ call'.fn = "strspn" \/ call'.fn = "strcspn"
    BY <2>1 DEF SearchFunctions
  <2> QED
    BY <2>8, <2>9, <2>10, <2>11, <2>12, Zenon DEF C, set, members, matches
<1>2. [][FindsFirst]_vars => SearchFindsTheFirstPlace
  BY DEF SearchFindsTheFirstPlace
<1> HIDE DEF FindsFirst
<1> QED
  BY <1>1, <1>2, LibraryInvariant, PTL DEF Spec
-----------------------------------------------------------------------------

(* The delimiters at src. *)
DelimitersAt(m, src) == {StringAt(m, src)[i] : i \in DOMAIN StringAt(m, src)}

(* The delimiters are the characters from src up to the first null. *)
LEMMA DelimitersAre ==
    ASSUME NEW m, NEW L, NEW src \in Nat, Memory(m, L), src >= 1, src <= L,
           NEW n, n = Length(m, src, Max(DOMAIN m) - src)
    PROVE  n \in Nat /\ \A c : c \in DelimitersAt(m, src) <=> \E i \in 0..(n - 1) : c = m[src + i]
<1>1. n \in Nat
  BY LengthToTheEnd
<1>2. PICK s : s = StringAt(m, src)
  OBVIOUS
<1>3. s = [i \in 1..n |-> m[src + i - 1]]
  BY <1>2 DEF StringAt
<1>4. \A c : c \in DelimitersAt(m, src) <=> \E i \in 1..n : c = s[i]
  BY <1>2, <1>3 DEF DelimitersAt
<1>5. ASSUME NEW c, c \in DelimitersAt(m, src) PROVE \E i \in 0..(n - 1) : c = m[src + i]
  <2>1. PICK i \in 1..n : c = s[i]
    BY <1>4, <1>5
  <2>2. PICK j \in Int : j = i - 1
    OBVIOUS
  <2>3. j \in 0..(n - 1) /\ src + i - 1 = src + j
    BY <1>1, <2>2
  <2> QED
    BY <1>3, <2>1, <2>3
<1>6. ASSUME NEW c, NEW i \in 0..(n - 1), c = m[src + i] PROVE c \in DelimitersAt(m, src)
  <2>1. PICK j \in Int : j = i + 1
    OBVIOUS
  <2>2. j \in 1..n /\ src + j - 1 = src + i
    BY <1>1, <2>1
  <2>3. c = s[j]
    BY <1>3, <1>6, <2>2
  <2> QED
    BY <1>4, <2>2, <2>3
<1> QED
  BY <1>1, <1>5, <1>6

(* A character that is found to be one of a token shows that all the       *)
(* delimiters are compared.                                                *)
LEMMA KindIs ==
    ASSUME NEW m, NEW L, NEW src \in Nat, Memory(m, L), src >= 1, src <= L, NEW c
    PROVE  /\ Kind(m, c, src) = "delimiter" => c \in DelimitersAt(m, src)
           /\ Kind(m, c, src) = "nothing" => DelimitersAt(m, src) = {}
           /\ Kind(m, c, src) = "text" =>
                 /\ DelimitersAt(m, src) # {} /\ c \notin DelimitersAt(m, src)
                 /\ \A b : Kind(m, b, src) = "text" => b \notin DelimitersAt(m, src)
<1>1. PICK n : n = Length(m, src, Max(DOMAIN m) - src)
  OBVIOUS
<1>2. n \in Nat /\ \A b : b \in DelimitersAt(m, src) <=> \E i \in 0..(n - 1) : b = m[src + i]
  BY <1>1, DelimitersAre
<1>3. PICK k : k = Min({n, STRTOK_DELIM_MAX_LEN})
  OBVIOUS
<1>4. k = IF STRTOK_DELIM_MAX_LEN < n THEN STRTOK_DELIM_MAX_LEN ELSE n
  BY <1>2, <1>3, SafeTokAssumption, MinOfTwo
<1>5. STRTOK_DELIM_MAX_LEN \in Nat /\ STRTOK_DELIM_MAX_LEN # 0
  BY SafeTokAssumption
<1> DEFINE compared == {m[src + i] : i \in 0..(k - 1)}
<1>6. \A b : b \in compared <=> \E i \in 0..(k - 1) : b = m[src + i]
  OBVIOUS
<1>7. \A b : Kind(m, b, src) = IF b \in compared THEN "delimiter"
                               ELSE IF n > STRTOK_DELIM_MAX_LEN THEN "unterminated"
                               ELSE IF n = 0 THEN "nothing"
                               ELSE "text"
  BY <1>1, <1>3 DEF Kind
<1> HIDE DEF compared
<1>8. compared \subseteq DelimitersAt(m, src)
  BY <1>2, <1>4, <1>5, <1>6
<1>9. n <= STRTOK_DELIM_MAX_LEN => \A b : b \in DelimitersAt(m, src) => b \in compared
  BY <1>2, <1>4, <1>5, <1>6
<1>10. DelimitersAt(m, src) = {} <=> n = 0
  <2>1. n # 0 => 0 \in 0..(n - 1)
    BY <1>2
  <2>2. n # 0 => m[src + 0] \in DelimitersAt(m, src)
    BY <1>2, <2>1
  <2>3. n = 0 => \A b : b \notin DelimitersAt(m, src)
    BY <1>2
  <2> QED
    BY <2>2, <2>3
<1>11. Kind(m, c, src) = "delimiter" => c \in DelimitersAt(m, src)
  BY <1>7, <1>8
<1>12. Kind(m, c, src) = "nothing" => DelimitersAt(m, src) = {}
  BY <1>7, <1>10
<1>13. \A b : Kind(m, b, src) = "text" => b \notin DelimitersAt(m, src)
  <2> SUFFICES ASSUME NEW b, Kind(m, b, src) = "text" PROVE b \notin DelimitersAt(m, src)
    OBVIOUS
  <2>1. b \notin compared /\ ~(n > STRTOK_DELIM_MAX_LEN)
    BY <1>7
  <2> QED
    BY <1>2, <1>5, <1>9, <2>1
<1>14. Kind(m, c, src) = "text" => DelimitersAt(m, src) # {}
  BY <1>7, <1>10
<1> QED
  BY <1>11, <1>12, <1>13, <1>14

-----------------------------------------------------------------------------
(* The runs of a string. *)
IsText(s, len) == s \in Seq(Nat) /\ Len(s) = len

Run(s, len, D, x, y) ==
    /\ x \in 1..len /\ y \in x..len
    /\ \A k \in x..y : s[k] \notin D
    /\ x = 1 \/ s[x - 1] \in D
    /\ y = len \/ s[y + 1] \in D

(* The runs are the pairs of places that satisfy Run. *)
LEMMA RunsAre ==
    ASSUME NEW s, NEW len \in Nat, IsText(s, len), NEW D
    PROVE  /\ \A r : r \in Runs(s, D) => r = <<r[1], r[2]>> /\ Run(s, len, D, r[1], r[2])
           /\ \A x, y : Run(s, len, D, x, y) => <<x, y>> \in Runs(s, D)
<1>1. DOMAIN s = 1..len /\ Len(s) = len
  BY DEF IsText
<1>2. \A r : r \in Runs(s, D) <=>
                /\ r \in (1..len) \X (1..len)
                /\ r[1] <= r[2] /\ \A k \in r[1]..r[2] : s[k] \notin D
                /\ r[1] = 1 \/ s[r[1] - 1] \in D
                /\ r[2] = len \/ s[r[2] + 1] \in D
  BY <1>1 DEF Runs
<1>3. ASSUME NEW r, r \in Runs(s, D) PROVE r = <<r[1], r[2]>> /\ Run(s, len, D, r[1], r[2])
  <2>1. r \in (1..len) \X (1..len)
    BY <1>2, <1>3
  <2>2. r = <<r[1], r[2]>> /\ r[1] \in 1..len /\ r[2] \in 1..len
    BY <2>1
  <2> QED
    BY <1>1, <1>2, <1>3, <2>2 DEF Run
<1>4. ASSUME NEW x, NEW y, Run(s, len, D, x, y) PROVE <<x, y>> \in Runs(s, D)
  <2>1. x \in 1..len /\ y \in 1..len /\ x <= y
    BY <1>1, <1>4 DEF Run
  <2>2. PICK r : r = <<x, y>>
    OBVIOUS
  <2>3. r \in (1..len) \X (1..len) /\ r[1] = x /\ r[2] = y
    BY <2>1, <2>2
  <2> QED
    BY <1>2, <1>4, <2>1, <2>2, <2>3 DEF Run
<1> QED
  BY <1>3, <1>4

(* No two runs begin at the same place. *)
LEMMA OneRun ==
    ASSUME NEW s, NEW len \in Nat, IsText(s, len), NEW D, NEW x, NEW y, NEW z, Run(s, len, D, x, y), Run(s, len, D, x, z)
    PROVE  y = z
<1>1. x \in Int /\ y \in Int /\ z \in Int /\ x <= y /\ x <= z /\ y <= len /\ z <= len /\ len \in Nat
  BY DEF Run
<1>2. ASSUME y < z PROVE FALSE
  <2>1. y + 1 \in x..z /\ y # len
    BY <1>1, <1>2
  <2> QED
    BY <2>1 DEF Run
<1>3. ASSUME z < y PROVE FALSE
  <2>1. z + 1 \in x..y /\ z # len
    BY <1>1, <1>3
  <2> QED
    BY <2>1 DEF Run
<1> QED
  BY <1>1, <1>2, <1>3

(* The tokens are the runs that begin in front of b, in their order. *)
AreTaken(tokens, s, D, b, at) ==
    /\ at \in [DOMAIN tokens -> Runs(s, D)]
    /\ \A i \in DOMAIN tokens : tokens[i] = SubSeq(s, at[i][1], at[i][2]) /\ at[i][2] < b
    /\ \A i, j \in DOMAIN tokens : i < j => at[i][2] < at[j][1]
    /\ \A r \in Runs(s, D) : r[1] < b => \E i \in DOMAIN tokens : at[i] = r

TokensTaken(tokens, s, D, b) == \E at : AreTaken(tokens, s, D, b, at)

(* In front of the text lies no token. *)
LEMMA NoneTaken ==
    ASSUME NEW s, NEW len \in Nat, IsText(s, len), NEW D
    PROVE  TokensTaken(<<>>, s, D, 1)
<1>1. PICK tokens : tokens = <<>>
  OBVIOUS
<1>2. DOMAIN tokens = {}
  BY <1>1
<1>3. PICK at : at = [i \in {} |-> <<1, 1>>]
  OBVIOUS
<1>4. at \in [DOMAIN tokens -> Runs(s, D)]
  BY <1>2, <1>3
<1>5. \A r \in Runs(s, D) : ~(r[1] < 1)
  BY RunsAre DEF Run
<1> QED
  BY <1>1, <1>2, <1>4, <1>5 DEF AreTaken, TokensTaken

(* No run begins among delimiters. *)
LEMMA NoMoreTaken ==
    ASSUME NEW s, NEW len \in Nat, IsText(s, len), NEW D, NEW tokens, NEW b \in Int, NEW q \in Int,
           TokensTaken(tokens, s, D, b), b <= q, q <= len + 1, \A i \in b..(q - 1) : s[i] \in D
    PROVE  TokensTaken(tokens, s, D, q)
<1>1. PICK at : AreTaken(tokens, s, D, b, at)
  BY DEF TokensTaken
<1>2. ASSUME NEW r \in Runs(s, D), r[1] < q PROVE r[1] < b
  <2>1. r[1] \in Int /\ r[1] \in r[1]..r[2] /\ s[r[1]] \notin D
    BY RunsAre DEF Run
  <2> QED
    BY <1>2, <2>1
<1>3. ASSUME NEW i \in DOMAIN tokens PROVE at[i][2] < q
  <2>1. at[i] \in Runs(s, D) /\ at[i][2] < b
    BY <1>1 DEF AreTaken
  <2>2. at[i][2] \in Int
    BY <2>1, RunsAre DEF Run
  <2> QED
    BY <2>1, <2>2
<1> QED
  BY <1>1, <1>2, <1>3 DEF AreTaken, TokensTaken

Appended(new, tokens, n, t) ==
    /\ n \in Nat /\ DOMAIN tokens = 1..n /\ DOMAIN new = 1..(n + 1)
    /\ \A i \in 1..n : new[i] = tokens[i]
    /\ new[n + 1] = t

(* A token is added behind the others. *)
LEMMA AppendIs ==
    ASSUME NEW T, NEW tokens \in Seq(T), NEW t \in T
    PROVE  Appended(Append(tokens, t), tokens, Len(tokens), t)
  BY DEF Appended

(* The place behind a run that ends at y, and behind the delimiter there. *)
Behind(b, y, len) == (y < len => b = y + 2) /\ (y >= len => b = y + 1)

(* The token from q to y is one run more. *)
LEMMA OneMoreTaken ==
    ASSUME NEW s, NEW len \in Nat, IsText(s, len), NEW D, NEW tokens, NEW new, NEW n, NEW t,
           Appended(new, tokens, n, t), NEW q \in Int, NEW y \in Int, t = SubSeq(s, q, y),
           TokensTaken(tokens, s, D, q), Run(s, len, D, q, y), NEW b, Behind(b, y, len)
    PROVE  TokensTaken(new, s, D, b)
<1>1. PICK at : AreTaken(tokens, s, D, q, at)
  BY DEF TokensTaken
<1>2. n \in Nat /\ n + 1 \in Nat /\ DOMAIN tokens = 1..n /\ DOMAIN new = 1..(n + 1)
  BY DEF Appended
<1>3. q \in 1..len /\ y \in q..len
  BY DEF Run
<1>4. b \in Int /\ y < b /\ q < b /\ (y < len => b = y + 2) /\ (y >= len => b = y + 1)
  BY <1>3 DEF Behind
<1>5. PICK run : run = <<q, y>>
  OBVIOUS
<1>6. run \in Runs(s, D) /\ run[1] = q /\ run[2] = y
  BY <1>5, RunsAre
<1>7. PICK to : to = [i \in 1..(n + 1) |-> IF i <= n THEN at[i] ELSE run]
  OBVIOUS
<1>8. \A i \in 1..n : to[i] = at[i] /\ new[i] = tokens[i]
  BY <1>2, <1>7 DEF Appended
<1>9. to[n + 1] = run /\ new[n + 1] = t
  BY <1>2, <1>7 DEF Appended
<1>10. \A i \in 1..(n + 1) : i \in 1..n \/ i = n + 1
  BY <1>2
<1>11. \A i \in 1..n : /\ at[i] \in Runs(s, D) /\ at[i][2] < q /\ at[i][2] \in Int
                       /\ tokens[i] = SubSeq(s, at[i][1], at[i][2])
  <2> SUFFICES ASSUME NEW i \in 1..n
               PROVE  /\ at[i] \in Runs(s, D) /\ at[i][2] < q /\ at[i][2] \in Int
                      /\ tokens[i] = SubSeq(s, at[i][1], at[i][2])
    OBVIOUS
  <2>1. /\ at[i] \in Runs(s, D) /\ at[i][2] < q
        /\ tokens[i] = SubSeq(s, at[i][1], at[i][2])
    BY <1>1, <1>2 DEF AreTaken
  <2>2. at[i][2] \in Int
    BY <2>1, RunsAre DEF Run
  <2> QED
    BY <2>1, <2>2
<1>12. to \in [DOMAIN new -> Runs(s, D)]
  BY <1>2, <1>6, <1>7, <1>8, <1>9, <1>10, <1>11
<1>13. \A i \in DOMAIN new : new[i] = SubSeq(s, to[i][1], to[i][2]) /\ to[i][2] < b
  <2>1. \A i \in 1..n : new[i] = SubSeq(s, to[i][1], to[i][2]) /\ to[i][2] < b
    <3> SUFFICES ASSUME NEW i \in 1..n
                 PROVE  new[i] = SubSeq(s, to[i][1], to[i][2]) /\ to[i][2] < b
      OBVIOUS
    <3>1. to[i] = at[i] /\ new[i] = tokens[i]
      BY <1>8
    <3>2. tokens[i] = SubSeq(s, at[i][1], at[i][2]) /\ at[i][2] < q /\ at[i][2] \in Int
      BY <1>11
    <3> QED
      BY <1>4, <3>1, <3>2
  <2>2. new[n + 1] = SubSeq(s, to[n + 1][1], to[n + 1][2]) /\ to[n + 1][2] < b
    BY <1>4, <1>6, <1>9
  <2> QED
    BY <1>2, <1>10, <2>1, <2>2
<1>14. \A i, j \in DOMAIN new : i < j => to[i][2] < to[j][1]
  <2> SUFFICES ASSUME NEW i \in DOMAIN new, NEW j \in DOMAIN new, i < j PROVE to[i][2] < to[j][1]
    OBVIOUS
  <2>1. i \in 1..n
    BY <1>2
  <2>2. CASE j \in 1..n
    <3>1. at[i][2] < at[j][1]
      BY <1>1, <1>2, <2>1, <2>2 DEF AreTaken
    <3> QED
      BY <1>8, <2>1, <2>2, <3>1
  <2>3. CASE j = n + 1
    BY <1>6, <1>8, <1>9, <1>11, <2>1, <2>3
  <2> QED
    BY <1>2, <1>10, <2>2, <2>3
<1>15. \A r \in Runs(s, D) : r[1] < b => \E i \in DOMAIN new : to[i] = r
  <2> SUFFICES ASSUME NEW r \in Runs(s, D), r[1] < b PROVE \E i \in DOMAIN new : to[i] = r
    OBVIOUS
  <2>1. r = <<r[1], r[2]>> /\ Run(s, len, D, r[1], r[2]) /\ r[1] \in Int /\ r[1] <= len /\ s[r[1]] \notin D
    BY RunsAre DEF Run
  <2>2. CASE r[1] < q
    <3>1. PICK i \in 1..n : at[i] = r
      BY <1>1, <1>2, <2>2 DEF AreTaken
    <3>2. to[i] = r
      BY <1>8, <3>1
    <3>3. i \in DOMAIN new
      BY <1>2
    <3> QED
      BY <3>2, <3>3
  <2>3. CASE r[1] = q
    <3>1. r[2] = y
      BY <2>1, <2>3, OneRun
    <3>2. r = run
      BY <1>5, <2>1, <2>3, <3>1
    <3>3. to[n + 1] = r
      BY <1>9, <3>2
    <3>4. n + 1 \in DOMAIN new
      BY <1>2
    <3> QED
      BY <3>3, <3>4
  <2>4. CASE q < r[1] /\ r[1] <= y
    <3>1. r[1] # 1 /\ r[1] - 1 \in q..y
      BY <1>3, <2>1, <2>4
    <3>2. s[r[1] - 1] \notin D
      BY <3>1 DEF Run
    <3> QED
      BY <2>1, <3>1, <3>2 DEF Run
  <2>5. CASE y < r[1]
    <3>1. r[1] = y + 1 /\ y < len
      BY <1>3, <1>4, <2>1, <2>5
    <3>2. s[y + 1] \in D
      BY <1>3, <3>1 DEF Run
    <3> QED
      BY <2>1, <3>1, <3>2
  <2> QED
    BY <2>1, <2>2, <2>3, <2>4, <2>5
<1> QED
  BY <1>12, <1>13, <1>14, <1>15 DEF AreTaken, TokensTaken

-----------------------------------------------------------------------------
(* What has been cut when the text is left to be cut from p on. *)
Begun(m, s, tokens, D, p) ==
    /\ p = 1 \/ s[p - 1] \in D
    /\ \A i \in p..Len(s) : m[i] = s[i]
    /\ TokensTaken(tokens, s, D, p)

(* What a call of strtok leaves of the delimiters, and adds to the tokens. *)
CutOn(r, s, tokens, D, src, text) ==
    /\ DelimitersAt(r.mem, src) = D
    /\ r.token # NULL => r.told = "EOK" /\ StringAt(r.mem, r.token) \in Seq(Nat)
    /\ r.told = "EOK" /\ D = {} => r.token = NULL
    /\ r.told = "EOK" /\ D # {} =>
          LET new == IF r.token = NULL THEN tokens ELSE Append(tokens, StringAt(r.mem, r.token))
          IN  IF r.dmax = 0 \/ r.token = NULL THEN TokensTaken(new, s, D, text + 1)
              ELSE Begun(r.mem, s, new, D, r.ptr)

(* The delimiters lie behind the text. *)
LEMMA DelimitersStay ==
    ASSUME NEW m, NEW L, NEW src \in Nat, Memory(m, L), src >= 1, src <= L,
           NEW b, Memory(b, L), \A a \in src..L : b[a] = m[a]
    PROVE  DelimitersAt(b, src) = DelimitersAt(m, src)
<1>1. PICK n : n = Length(m, src, Max(DOMAIN m) - src)
  OBVIOUS
<1>2. PICK k : k = Length(b, src, Max(DOMAIN b) - src)
  OBVIOUS
<1>3. PICK d \in Nat : d = L - src
  BY DEF Memory
<1>4. IsLength(m, src, d, n) /\ IsLength(b, src, d, k)
  <2>1. IsLength(m, src, L - src, n)
    BY <1>1, LengthToTheEnd
  <2>2. IsLength(b, src, L - src, k)
    BY <1>2, LengthToTheEnd
  <2> QED
    BY <1>3, <2>1, <2>2
<1>5. \A i \in 0..d : m[src + i] = b[src + i]
  <2> SUFFICES ASSUME NEW i \in 0..d PROVE m[src + i] = b[src + i]
    OBVIOUS
  <2>1. src + i \in src..L
    BY <1>3 DEF Memory
  <2> QED
    BY <2>1
<1>6. IsLength(b, src, d, n)
  BY <1>3, <1>4, <1>5 DEF IsLength, Plain
<1>7. n = k
  BY <1>4, <1>6, OneLength
<1>8. n \in Nat /\ n <= d
  BY <1>4 DEF IsLength
<1>9. \A c : c \in DelimitersAt(m, src) <=> \E i \in 0..(n - 1) : c = m[src + i]
  BY <1>1, DelimitersAre
<1>10. \A c : c \in DelimitersAt(b, src) <=> \E i \in 0..(k - 1) : c = b[src + i]
  BY <1>2, DelimitersAre
<1>11. \A c : c \in DelimitersAt(b, src) <=> c \in DelimitersAt(m, src)
  BY <1>5, <1>7, <1>8, <1>9, <1>10
<1> QED
  BY <1>11

(* The characters from q to e, as a memory and a text have them. *)
Between(b, s, q, e) == \A i \in q..(e - 1) : b[i] = s[i] /\ b[i] # 0

(* The token as a part of the text. *)
LEMMA TokenIsPart ==
    ASSUME NEW b, NEW L, Memory(b, L), NEW s, NEW text \in Nat, IsText(s, text), text < L,
           NEW q \in Int, NEW e \in Int, q >= 1, q < e, e <= text + 1,
           Between(b, s, q, e), b[e] = 0
    PROVE  StringAt(b, q) = SubSeq(s, q, e - 1) /\ StringAt(b, q) \in Seq(Nat)
<1>1. PICK k \in Nat : k = e - q
  OBVIOUS
<1>2. q \in Nat /\ q + k = e /\ q + k <= L
  BY <1>1 DEF Memory
<1>3. Plain(b, q, k)
  BY <1>1, <1>2 DEF Plain, Between
<1>4. StringAt(b, q) = [i \in 1..k |-> b[q + i - 1]]
  <2>1. b[q + k] = 0
    BY <1>2
  <2>2. PICK p \in Nat : p = q
    BY <1>2
  <2>3. Plain(b, p, k) /\ p >= 1 /\ p + k <= L /\ b[p + k] = 0
    BY <1>2, <1>3, <2>1, <2>2
  <2>4. StringAt(b, p) = [i \in 1..k |-> b[p + i - 1]]
    BY <2>3, StringAtIs
  <2> QED
    BY <2>2, <2>4
<1>5. PICK x \in Nat, y \in Nat : x = q /\ y = e - 1
  BY <1>2
<1>6. s \in [1..text -> Nat]
  BY DEF IsText
<1>7. SubSeq(s, x, y) = [i \in 1..(y + 1 - x) |-> s[x + i - 1]]
  BY <1>5, <1>6, PartOfSequence
<1>8. y + 1 - x = k
  BY <1>1, <1>5
<1>9. \A i \in 1..k : s[x + i - 1] = b[q + i - 1] /\ s[x + i - 1] \in Nat
  <2> SUFFICES ASSUME NEW i \in 1..k
               PROVE  s[x + i - 1] = b[q + i - 1] /\ s[x + i - 1] \in Nat
    OBVIOUS
  <2>1. PICK j \in Int : j = q + i - 1
    OBVIOUS
  <2>2. j \in q..(e - 1) /\ j \in 1..text /\ x + i - 1 = j
    BY <1>1, <1>5, <2>1
  <2> QED
    BY <1>6, <2>1, <2>2 DEF Between
<1>10. SubSeq(s, x, y) = StringAt(b, q)
  <2>1. PICK part : part = SubSeq(s, x, y)
    OBVIOUS
  <2>2. part = [i \in 1..k |-> s[x + i - 1]]
    BY <1>7, <1>8, <2>1
  <2>3. [i \in 1..k |-> s[x + i - 1]] = [i \in 1..k |-> b[q + i - 1]]
    BY <1>9
  <2> QED
    BY <1>4, <2>1, <2>2, <2>3
<1>11. StringAt(b, q) \in Seq(Nat)
  <2>1. StringAt(b, q) \in [1..k -> Nat]
    BY <1>4, <1>9
  <2> QED
    BY <2>1
<1> QED
  BY <1>5, <1>10, <1>11

(* A text of which what lies in front of p has been cut at the delimiters  *)
(* at src.                                                                 *)
CutUpTo(m, L, s, text, src, tokens, D, p) ==
    /\ Memory(m, L) /\ text \in Nat /\ text < L /\ IsText(s, text)
    /\ src \in Nat /\ src > text + 1 /\ src <= L /\ D = DelimitersAt(m, src)
    /\ p \in Int /\ p >= 1 /\ p <= text + 1
    /\ (\A i \in p..text : m[i] # 0) /\ m[text + 1] = 0
    /\ tokens \in Seq(Seq(Nat)) /\ (D # {} => Begun(m, s, tokens, D, p))

(* What the first loop passes over are delimiters, so the tokens stay the  *)
(* runs in front of its end.                                               *)
LEMMA SkippedAreDelimiters ==
    ASSUME NEW m, NEW L, NEW s, NEW text, NEW src, NEW tokens, NEW D, NEW p,
           CutUpTo(m, L, s, text, src, tokens, D, p), D # {},
           NEW q \in Int, p <= q, q <= text + 1, Skips(m, src, p, q)
    PROVE  TokensTaken(tokens, s, D, q) /\ (q = 1 \/ s[q - 1] \in D)
<1>1. /\ Memory(m, L) /\ text \in Nat /\ IsText(s, text) /\ p \in Int /\ p >= 1
      /\ src \in Nat /\ src >= 1 /\ src <= L /\ D = DelimitersAt(m, src)
      /\ Begun(m, s, tokens, D, p)
  BY DEF CutUpTo
<1>2. \A i \in p..text : m[i] = s[i]
  BY <1>1 DEF Begun, IsText
<1>3. \A i \in p..(q - 1) : s[i] \in D
  <2> SUFFICES ASSUME NEW i \in p..(q - 1) PROVE s[i] \in D
    OBVIOUS
  <2>1. Kind(m, m[i], src) \in {"delimiter", "nothing"}
    BY DEF Skips
  <2>2. m[i] \in D
    BY <1>1, <2>1, KindIs
  <2>3. i \in p..text
    BY <1>1
  <2> QED
    BY <1>2, <2>2, <2>3
<1>4. TokensTaken(tokens, s, D, p) /\ (p = 1 \/ s[p - 1] \in D)
  BY <1>1 DEF Begun
<1>5. TokensTaken(tokens, s, D, q)
  BY <1>1, <1>3, <1>4, NoMoreTaken
<1>6. CASE q = p
  BY <1>4, <1>5, <1>6
<1>7. CASE p < q
  <2>1. q - 1 \in p..(q - 1)
    BY <1>1, <1>7
  <2> QED
    BY <1>3, <1>5, <2>1
<1> QED
  BY <1>1, <1>6, <1>7

(* The token that the second loop ends is the next run. *)
LEMMA TokenTaken ==
    ASSUME NEW m, NEW L, NEW s, NEW text, NEW src, NEW tokens, NEW D, NEW p,
           CutUpTo(m, L, s, text, src, tokens, D, p),
           NEW q \in p..text, NEW e \in Int, q < e, e <= text + 1,
           Skips(m, src, p, q), Kind(m, m[q], src) = "text", Keeps(m, src, q + 1, e),
           e <= text => Kind(m, m[e], src) = "delimiter",
           NEW b, Memory(b, L), \A i \in q..(e - 1) : b[i] = m[i], b[e] = 0,
           NEW to \in Int, e <= text => to = e + 1, e > text => to = e
    PROVE  /\ D # {} /\ StringAt(b, q) \in Seq(Nat)
           /\ TokensTaken(Append(tokens, StringAt(b, q)), s, D, to)
           /\ e <= text => s[e] \in D
<1>1. /\ Memory(m, L) /\ text \in Nat /\ text < L /\ IsText(s, text) /\ p \in Int /\ p >= 1
      /\ src \in Nat /\ src >= 1 /\ src <= L /\ D = DelimitersAt(m, src)
      /\ tokens \in Seq(Seq(Nat)) /\ (D # {} => Begun(m, s, tokens, D, p))
      /\ \A i \in p..text : m[i] # 0
  BY DEF CutUpTo
<1>2. D # {} /\ m[q] \notin D /\ \A c : Kind(m, c, src) = "text" => c \notin D
  BY <1>1, KindIs
<1>3. q \in Int /\ q >= 1 /\ q <= text + 1 /\ p <= q
  BY <1>1
<1>4. TokensTaken(tokens, s, D, q) /\ (q = 1 \/ s[q - 1] \in D)
  BY <1>2, <1>3, SkippedAreDelimiters
<1>5. \A i \in p..text : m[i] = s[i]
  BY <1>1, <1>2 DEF Begun, IsText
<1>6. \A i \in q..(e - 1) : m[i] \notin D /\ i \in p..text
  <2> SUFFICES ASSUME NEW i \in q..(e - 1) PROVE m[i] \notin D /\ i \in p..text
    OBVIOUS
  <2>1. i \in p..text
    BY <1>1, <1>3
  <2>2. CASE i = q
    BY <1>2, <2>1, <2>2
  <2>3. CASE i # q
    <3>1. i \in (q + 1)..(e - 1)
      BY <1>3, <2>3
    <3>2. Kind(m, m[i], src) \in {"text", "nothing"}
      BY <3>1 DEF Keeps
    <3>3. Kind(m, m[i], src) # "nothing"
      BY <1>1, <1>2, KindIs
    <3> QED
      BY <1>2, <2>1, <3>2, <3>3
  <2> QED
    BY <2>2, <2>3
<1>7. e <= text => s[e] \in D
  <2> SUFFICES ASSUME e <= text PROVE s[e] \in D
    OBVIOUS
  <2>1. m[e] \in D
    BY <1>1, KindIs
  <2>2. e \in p..text
    BY <1>1, <1>3
  <2> QED
    BY <1>5, <2>1, <2>2
<1>8. \A i \in q..(e - 1) : b[i] = s[i] /\ b[i] # 0 /\ s[i] \notin D
  BY <1>1, <1>5, <1>6
<1>9. Run(s, text, D, q, e - 1)
  <2>1. q \in 1..text /\ e - 1 \in q..text /\ e - 1 + 1 = e
    BY <1>1, <1>3
  <2>2. e - 1 = text \/ s[e - 1 + 1] \in D
    BY <1>1, <1>7, <2>1
  <2> QED
    BY <1>4, <1>8, <2>1, <2>2 DEF Run
<1>10. PICK t : t = StringAt(b, q)
  OBVIOUS
<1>11. t = SubSeq(s, q, e - 1) /\ t \in Seq(Nat)
  <2>1. Between(b, s, q, e)
    BY <1>8 DEF Between
  <2>2. Memory(b, L) /\ text \in Nat /\ text < L /\ IsText(s, text) /\ q >= 1
    BY <1>1, <1>3
  <2>3. StringAt(b, q) = SubSeq(s, q, e - 1) /\ StringAt(b, q) \in Seq(Nat)
    BY <1>3, <2>1, <2>2, TokenIsPart
  <2> QED
    BY <1>10, <2>3
<1>12. PICK new, n : new = Append(tokens, t) /\ n = Len(tokens)
  OBVIOUS
<1>13. Appended(new, tokens, n, t)
  BY <1>1, <1>11, <1>12, AppendIs
<1>14. TokensTaken(new, s, D, to)
  <2>1. PICK y \in Int : y = e - 1
    OBVIOUS
  <2>2. t = SubSeq(s, q, y) /\ Run(s, text, D, q, y)
    BY <1>9, <1>11, <2>1
  <2>3. Behind(to, y, text)
    BY <1>1, <2>1 DEF Behind
  <2> QED
    BY <1>1, <1>3, <1>4, <1>13, <2>2, <2>3, OneMoreTaken
<1> QED
  BY <1>2, <1>7, <1>10, <1>11, <1>12, <1>14

(* After a call of strtok the tokens are the runs in front of the place    *)
(* where the next call goes on.                                            *)
LEMMA CutGoesOn ==
    ASSUME NEW m, NEW L, NEW s, NEW text, NEW src, NEW tokens, NEW D, NEW p,
           CutUpTo(m, L, s, text, src, tokens, D, p),
           NEW dmax, NEW ptr, NEW r, TokenIs(r, m, text, p, dmax, ptr, src)
    PROVE  CutOn(r, s, tokens, D, src, text)
<1>1. /\ Memory(m, L) /\ text \in Nat /\ text < L /\ IsText(s, text) /\ p \in Int /\ p >= 1
      /\ p <= text + 1 /\ src \in Nat /\ src > text + 1 /\ src <= L /\ D = DelimitersAt(m, src)
      /\ (D # {} => Begun(m, s, tokens, D, p)) /\ L \in Nat /\ m[text + 1] = 0
  BY DEF CutUpTo, Memory
<1>2. CASE r.told # "EOK" /\ r.token = NULL /\ r.mem = m
  BY <1>1, <1>2 DEF CutOn
<1>3. CASE r = Token(m, NULL, ptr, 0, "EOK") /\ Skips(m, src, p, text + 1)
  <2>1. r.mem = m /\ r.token = NULL /\ r.told = "EOK" /\ r.dmax = 0
    BY <1>3 DEF Token
  <2>2. D # {} => TokensTaken(tokens, s, D, text + 1)
    <3>1. PICK q \in Int : q = text + 1
      BY <1>1
    <3>2. D # {} => TokensTaken(tokens, s, D, q)
      BY <1>1, <1>3, <3>1, SkippedAreDelimiters
    <3> QED
      BY <3>1, <3>2
  <2> QED
    BY <1>1, <2>1, <2>2 DEF CutOn
<1>4. ASSUME NEW q \in p..text, NEW e \in Int, q < e, e <= text + 1,
             Skips(m, src, p, q), Kind(m, m[q], src) = "text", Keeps(m, src, q + 1, e),
             e = text + 1 /\ r = Token(m, q, ptr, 0, "EOK") /\ m[e] = 0
      PROVE  CutOn(r, s, tokens, D, src, text)
  <2>1. r.mem = m /\ r.token = q /\ r.told = "EOK" /\ r.dmax = 0
    BY <1>4 DEF Token
  <2>2. /\ D # {} /\ StringAt(m, q) \in Seq(Nat)
        /\ TokensTaken(Append(tokens, StringAt(m, q)), s, D, e)
    <3>1. ~(e <= text) /\ \A i \in q..(e - 1) : m[i] = m[i]
      BY <1>1, <1>4
    <3> QED
      BY <1>1, <1>4, <3>1, TokenTaken
  <2>3. q # NULL
    BY <1>1 DEF NULL
  <2> QED
    BY <1>1, <1>4, <2>1, <2>2, <2>3 DEF CutOn
<1>5. ASSUME NEW q \in p..text, NEW e \in Int, q < e, e <= text,
             Skips(m, src, p, q), Kind(m, m[q], src) = "text", Keeps(m, src, q + 1, e),
             Kind(m, m[e], src) = "delimiter" /\ r = Cut(m, q, e, text + 1 - e)
      PROVE  CutOn(r, s, tokens, D, src, text)
  <2>1. /\ r.mem = Put(m, e, 0) /\ r.token = q /\ r.told = "EOK" /\ r.ptr = e + 1
        /\ r.dmax = text + 1 - e - 1
    BY <1>1, <1>5 DEF Cut, Token
  <2>2. r.dmax = 0 <=> e = text
    BY <1>1, <2>1
  <2>3. PICK b : b = Put(m, e, 0)
    OBVIOUS
  <2>4. Memory(b, L)
    BY <1>1, <2>3, ZeroPutType
  <2>5. \A a \in 1..L : b[a] = IF a = e THEN 0 ELSE m[a]
    BY <1>1, <2>3 DEF Put, Memory
  <2>6. (\A i \in q..(e - 1) : b[i] = m[i]) /\ b[e] = 0
    <3>1. e \in 1..L /\ \A i \in q..(e - 1) : i \in 1..L /\ i # e
      BY <1>1, <1>5
    <3> QED
      BY <2>5, <3>1
  <2>7. PICK to \in Int : to = e + 1
    OBVIOUS
  <2>8. (e <= text => to = e + 1) /\ (e > text => to = e) /\ e <= text + 1
    BY <1>1, <1>5, <2>7
  <2>9. /\ D # {} /\ StringAt(b, q) \in Seq(Nat)
        /\ TokensTaken(Append(tokens, StringAt(b, q)), s, D, to)
        /\ s[e] \in D
    BY <1>5, <2>4, <2>6, <2>8, TokenTaken
  <2>10. DelimitersAt(b, src) = D
    <3>1. src >= 1 /\ \A a \in src..L : b[a] = m[a]
      <4>1. \A a \in src..L : a \in 1..L /\ a # e
        BY <1>1, <1>5
      <4> QED
        BY <1>1, <2>5, <4>1
    <3> QED
      BY <1>1, <2>4, <3>1, DelimitersStay
  <2>11. q # NULL
    BY <1>1 DEF NULL
  <2>12. CASE e = text
    <3>1. to = text + 1
      BY <2>7, <2>12
    <3> QED
      BY <2>1, <2>2, <2>3, <2>9, <2>10, <2>11, <2>12, <3>1 DEF CutOn
  <2>13. CASE e # text
    <3>1. PICK new : new = Append(tokens, StringAt(b, q))
      OBVIOUS
    <3>2. Len(s) = text /\ to - 1 = e /\ Begun(m, s, tokens, D, p)
      BY <1>1, <2>7, <2>9 DEF IsText
    <3>3. \A i \in to..Len(s) : b[i] = s[i]
      <4> SUFFICES ASSUME NEW i \in to..Len(s) PROVE b[i] = s[i]
        OBVIOUS
      <4>1. i \in p..Len(s) /\ i \in 1..L /\ i # e
        BY <1>1, <1>5, <2>7, <3>2
      <4> QED
        BY <2>5, <3>2, <4>1 DEF Begun
    <3>4. Begun(b, s, new, D, to)
      BY <2>9, <3>1, <3>2, <3>3 DEF Begun
    <3> QED
      BY <2>1, <2>2, <2>3, <2>7, <2>9, <2>10, <2>11, <2>13, <3>1, <3>4 DEF CutOn
  <2> QED
    BY <2>12, <2>13
<1>6. CASE /\ r.told # "EOK"
           /\ r = Token(m, NULL, ptr, dmax, r.told) \/ r = Token(m, NULL, NULL, dmax, r.told)
  <2>1. r.mem = m /\ r.token = NULL
    BY <1>6 DEF Token
  <2> QED
    BY <1>2, <1>6, <2>1
<1>7. CASE \E q \in p..text, e \in Int :
          /\ q < e /\ e <= text + 1
          /\ Skips(m, src, p, q) /\ Kind(m, m[q], src) = "text" /\ Keeps(m, src, q + 1, e)
          /\ \/ e = text + 1 /\ r = Token(m, q, ptr, 0, "EOK")
             \/ e <= text /\ Kind(m, m[e], src) = "delimiter" /\ r = Cut(m, q, e, text + 1 - e)
  <2>1. PICK q \in p..text, e \in Int :
          /\ q < e /\ e <= text + 1
          /\ Skips(m, src, p, q) /\ Kind(m, m[q], src) = "text" /\ Keeps(m, src, q + 1, e)
          /\ \/ e = text + 1 /\ r = Token(m, q, ptr, 0, "EOK")
             \/ e <= text /\ Kind(m, m[e], src) = "delimiter" /\ r = Cut(m, q, e, text + 1 - e)
    BY <1>7
  <2>2. e = text + 1 => m[e] = 0
    BY <1>1
  <2> QED
    BY <1>4, <1>5, <2>1, <2>2
<1> QED
  BY <1>3, <1>6, <1>7 DEF TokenIs
-----------------------------------------------------------------------------

(* What the program keeps while it cuts a text: the text as it was, the    *)
(* delimiters behind it, and as tokens the runs that begin in front of the *)
(* place the next call goes on from.                                       *)
TextFit ==
    /\ IsText(tok.string, scene.text) /\ "string" \in DOMAIN tok
    /\ tok.tokens \in Seq(Seq(Nat))
    /\ \A p \in scene.sources : p > scene.text + 1 /\ p \in DOMAIN mem

CutSoFar(D) ==
    /\ D = {} => tok.tokens = <<>>
    /\ D # {} => IF tok.dmax = 0 \/ call.out = NULL
                 THEN TokensTaken(tok.tokens, tok.string, D, scene.text + 1)
                 ELSE Begun(mem, tok.string, tok.tokens, D, tok.ptr)

CutKept ==
    /\ call = NoCall =>
          tok.tokens = <<>> /\ \A i \in 1..scene.text : mem[i] = tok.string[i]
    /\ call # NoCall =>
          /\ call.fn = "strtok" /\ call.src \in scene.sources
          /\ call.out # NULL => call.heard = <<>>
          /\ call.heard = <<>> => CutSoFar(DelimitersAt(mem, call.src))

TokInv ==
    /\ call # NoCall /\ call.fn = "strtok" => "tokens" \in scene.kinds
    /\ "tokens" \in scene.kinds => TextFit /\ CutKept

(* Before the first call there is no token, and the memory holds the text. *)
LEMMA TokInvInit == Init => TokInv
<1> SUFFICES ASSUME Init PROVE TokInv
  OBVIOUS
<1>0. PICK s \in Scenes : \E m \in s.mems : /\ scene = [s EXCEPT !.mems = {}] /\ mem = m
                                            /\ tok = [string |-> [i \in 1..s.text |-> m[i]], ptr |-> NULL,
                                                      dmax |-> s.text, tokens |-> <<>>]
  BY DEF Init
<1>1. PICK m \in s.mems : /\ scene = [s EXCEPT !.mems = {}] /\ mem = m
                          /\ tok = [string |-> [i \in 1..s.text |-> m[i]], ptr |-> NULL,
                                    dmax |-> s.text, tokens |-> <<>>]
  BY <1>0
<1>2. scene.kinds = s.kinds /\ scene.sources = s.sources /\ scene.text = s.text
  BY <1>1, ScenesAssumption
<1>3. call = NoCall /\ tok.tokens = <<>> /\ tok.string = [i \in 1..s.text |-> m[i]]
  BY <1>1 DEF Init
<1>4. s.text \in Nat /\ m \in Seq(Nat)
  BY ScenesAssumption
<1>5. ASSUME "tokens" \in s.kinds PROVE TextFit /\ CutKept
  <2>1. s.text < Len(m) /\ s.sources \subseteq (s.text + 2)..Len(m)
    BY <1>5, ScenesAssumption
  <2>2. tok.string \in [1..s.text -> Nat]
    BY <1>3, <1>4, <2>1
  <2>3. PICK n \in Nat : n = s.text
    BY <1>4
  <2>4. tok.string \in [1..n -> Nat]
    BY <2>2, <2>3
  <2>5. tok.string \in Seq(Nat) /\ Len(tok.string) = n
    BY <2>4
  <2>6. IsText(tok.string, scene.text)
    BY <1>2, <2>3, <2>5 DEF IsText
  <2>7. DOMAIN tok = {"string", "ptr", "dmax", "tokens"}
    BY <1>1
  <2>8. \A p \in s.sources : p > s.text + 1 /\ p \in DOMAIN m
    BY <1>4, <2>1
  <2>9. <<>> \in Seq(Seq(Nat))
    OBVIOUS
  <2>10. TextFit
    BY <1>1, <1>2, <1>3, <2>6, <2>7, <2>8, <2>9 DEF TextFit
  <2>11. CutKept
    BY <1>1, <1>2, <1>3 DEF CutKept
  <2> QED
    BY <2>10, <2>11
<1> QED
  BY <1>2, <1>3, <1>5 DEF TokInv

(* A call of another function. *)
LEMMA OtherCallIs ==
    ASSUME LibInv, NEW L, InMemory(mem, L), CallMade(L), "tokens" \notin scene.kinds
    PROVE  scene' = scene /\ call'.fn # "strtok"
<1>1. CASE BlockCall(L)
  <2>1. scene' = scene
    BY <1>1 DEF BlockCall, Call
  <2> QED
    BY <1>1, <2>1, BlockIsMade, NoFunctionTwice DEF BlockMade
<1>2. CASE SetCall(L)
  <2>1. scene' = scene
    BY <1>2 DEF SetCall, Call
  <2> QED
    BY <1>2, <2>1, SetIsMade, NoFunctionTwice DEF SetMade
<1>3. CASE StringCall(L)
  <2>1. scene' = scene
    BY <1>3 DEF StringCall, Call
  <2> QED
    BY <1>3, <2>1, StringIsMade, NoFunctionTwice DEF StringMade
<1>4. CASE FieldCall(L)
  <2>1. scene' = scene
    BY <1>4 DEF FieldCall, Call
  <2> QED
    BY <1>4, <2>1, FieldIsMade, NoFunctionTwice DEF FieldMade
<1>5. CASE PaddedCall(L)
  <2>1. scene' = scene
    BY <1>5 DEF PaddedCall, Call
  <2> QED
    BY <1>5, <2>1, PaddedIsMade DEF PaddedMade
<1>6. CASE EditCall(L)
  <2>1. scene' = scene
    BY <1>6 DEF EditCall, Call
  <2> QED
    BY <1>6, <2>1, EditIsMade, NoFunctionTwice DEF EditMade
<1>7. CASE CaseCall(L)
  <2>1. scene' = scene
    BY <1>7 DEF CaseCall, Call
  <2> QED
    BY <1>7, <2>1, CaseIsMade DEF CaseMade, CaseFunctions
<1>8. CASE ReadCall
  <2>1. scene' = scene
    BY <1>8 DEF ReadCall, Call
  <2> QED
    BY <1>8, <2>1, ReadIsMade DEF ReadMade, ReadFunctions
<1> QED
  BY <1>1, <1>2, <1>3, <1>4, <1>5, <1>6, <1>7, <1>8 DEF CallMade
-----------------------------------------------------------------------------

(* A call of strtok keeps what the program knows of its tokens. *)
LEMMA CutTokenKeeps ==
    ASSUME LibInv, TokInv, NEW L, InMemory(mem, L), Calls_tokens,
           NEW dest \in Nat, NEW src \in scene.sources, CutToken(dest, src),
           NEW p, p = (IF dest = NULL THEN tok.ptr ELSE dest), Uncut(mem, scene.text, p, tok.dmax),
           NEW D, D = DelimitersAt(mem, src), D = {} => tok.tokens = <<>>,
           D # {} => Begun(mem, tok.string, tok.tokens, D, p)
    PROVE  TokInv'
<1>0. TokenCall(L) /\ "tokens" \in scene.kinds
  BY Made_tokens
<1>1. TextFit /\ Cutting(mem, L) /\ Memory(mem, L) /\ TokFit /\ scene.text \in Nat /\ src \in Nat
  BY <1>0 DEF TokInv, LibInv, InMemory, ArgumentsFit
<1>2. Memory(mem', L)
  BY <1>0, TokenCallKeeps
<1>3. PICK r : r = safe_strtok(mem, dest, tok.dmax, src, tok.ptr)
  OBVIOUS
<1>4. PICK tokens, text, string : tokens = tok.tokens /\ text = scene.text /\ string = tok.string
  OBVIOUS
<1>5. PICK new : new = IF r.token = NULL THEN tokens ELSE Append(tokens, StringAt(r.mem, r.token))
  OBVIOUS
<1>6. /\ mem' = r.mem /\ scene' = scene
      /\ call'.fn = "strtok" /\ call'.src = src /\ call'.out = r.token /\ call' # NoCall
      /\ call'.heard = Heard("str", r.told)
  BY <1>3 DEF CutToken, NoCall
<1>7. tok'.ptr = r.ptr /\ tok'.dmax = r.dmax /\ tok'.tokens = new /\ tok'.string = string
      /\ DOMAIN tok' = DOMAIN tok
  <2>1. tok' = [tok EXCEPT !.ptr = r.ptr, !.dmax = r.dmax, !.tokens = IF r.token = NULL THEN @
                                 ELSE Append(@, StringAt(r.mem, r.token))]
    BY <1>3 DEF CutToken
  <2>2. {"string", "ptr", "dmax", "tokens"} \subseteq DOMAIN tok
    BY <1>1 DEF TextFit, TokFit
  <2>3. tok' = [tok EXCEPT !.ptr = r.ptr, !.dmax = r.dmax, !.tokens = new]
    BY <1>4, <1>5, <2>1
  <2> QED
    BY <1>4, <2>2, <2>3
<1>8. TokenIs(r, mem, text, p, tok.dmax, tok.ptr, src)
  BY <1>1, <1>3, <1>4, strtokFinds DEF TokFit
<1>9. CutUpTo(mem, L, string, text, src, tokens, D, p)
  <2>1. text < L /\ mem[text + 1] = 0
    BY <1>1, <1>4 DEF Cutting
  <2>2. IsText(string, text) /\ src > text + 1 /\ src <= L /\ tokens \in Seq(Seq(Nat))
    BY <1>1, <1>4 DEF TextFit, Memory
  <2>3. p \in Int /\ p >= 1 /\ p <= text + 1 /\ \A i \in p..text : mem[i] # 0
    BY <1>1, <1>4 DEF Uncut, TokFit
  <2> QED
    BY <1>1, <1>4, <2>1, <2>2, <2>3 DEF CutUpTo
<1>10. CutOn(r, string, tokens, D, src, text)
  BY <1>8, <1>9, CutGoesOn
<1>11. new \in Seq(Seq(Nat))
  <2>1. tokens \in Seq(Seq(Nat))
    BY <1>1, <1>4 DEF TextFit
  <2>2. r.token # NULL => StringAt(r.mem, r.token) \in Seq(Nat)
    BY <1>10 DEF CutOn
  <2> QED
    BY <1>5, <2>1, <2>2
<1>12. TextFit'
  <2>1. DOMAIN mem' = DOMAIN mem
    BY <1>1, <1>2 DEF Memory
  <2>2. IsText(tok.string, scene.text)'
    BY <1>1, <1>4, <1>6, <1>7 DEF TextFit, IsText
  <2> QED
    BY <1>1, <1>6, <1>7, <1>11, <2>1, <2>2 DEF TextFit
<1>13. r.told = "EOK" => CutSoFar(D)'
  <2> SUFFICES ASSUME r.told = "EOK" PROVE CutSoFar(D)'
    OBVIOUS
  <2>1. D = {} => new = <<>>
    BY <1>4, <1>5, <1>10 DEF CutOn
  <2>2. D # {} => IF r.dmax = 0 \/ r.token = NULL THEN TokensTaken(new, string, D, text + 1)
                  ELSE Begun(r.mem, string, new, D, r.ptr)
    BY <1>5, <1>10 DEF CutOn
  <2> QED
    BY <1>4, <1>6, <1>7, <2>1, <2>2 DEF CutSoFar, TokensTaken, AreTaken, Begun
<1>14. CutKept'
  <2>1. DelimitersAt(r.mem, src) = D
    BY <1>10 DEF CutOn
  <2>2. r.token # NULL => call'.heard = <<>>
    BY <1>6, <1>10 DEF CutOn, Heard
  <2>3. call'.heard = <<>> => r.told = "EOK"
    BY <1>6, HeardNothing
  <2>4. call'.heard = <<>> => CutSoFar(DelimitersAt(mem, call.src))'
    BY <1>6, <1>13, <2>1, <2>3 DEF DelimitersAt
  <2> QED
    BY <1>6, <2>2, <2>4 DEF CutKept
<1> QED
  BY <1>0, <1>6, <1>12, <1>14 DEF TokInv

(* So does every step, as a program that cuts a text calls nothing else. *)
LEMMA TokInvStep == LibInv /\ TokInv /\ [Next]_vars => TokInv'
<1> SUFFICES ASSUME LibInv, TokInv, [Next]_vars PROVE TokInv'
  OBVIOUS
<1>1. PICK L : InMemory(mem, L)
  BY DEF LibInv
<1>2. CallMade(L) \/ HandlersSet
  BY <1>1, StepIs
<1>3. CASE HandlersSet
  <2>1. UNCHANGED <<scene, mem, call, tok>>
    BY <1>3 DEF HandlersSet
  <2>2. (TextFit => TextFit') /\ (CutKept => CutKept')
    BY <2>1 DEF TextFit, CutKept, CutSoFar
  <2> QED
    BY <2>1, <2>2 DEF TokInv
<1>4. CASE CallMade(L) /\ "tokens" \notin scene.kinds
  <2>1. scene' = scene /\ call'.fn # "strtok"
    BY <1>1, <1>4, OtherCallIs
  <2> QED
    BY <1>4, <2>1 DEF TokInv
<1>5. CASE CallMade(L) /\ "tokens" \in scene.kinds
  <2>1. Calls_tokens
    BY <1>5 DEF CallMade, LibInv, UnitsFit
  <2>2. TextFit /\ CutKept
    BY <1>5 DEF TokInv
  <2>3. Cutting(mem, L) /\ Memory(mem, L) /\ scene.text \in Nat /\ scene.sources \subseteq Nat
        /\ tok.dmax \in 0..scene.text /\ tok.ptr \in 0..(scene.text + 1)
    BY <1>1, <1>5 DEF LibInv, InMemory, ArgumentsFit, TokFit
  <2>4. ASSUME NEW p \in Int, Rest(mem, p, tok.dmax) PROVE Uncut(mem, scene.text, p, tok.dmax)
    BY <2>3, <2>4 DEF Rest, Uncut, Cutting
  <2>5. CASE strtok_first
    <3>1. PICK src \in scene.sources : call = NoCall /\ CutToken(1, src)
      BY <2>5 DEF strtok_first
    <3>2. PICK D : D = DelimitersAt(mem, src)
      OBVIOUS
    <3>3. PICK len, string : len = scene.text /\ string = tok.string
      OBVIOUS
    <3>4. len \in Nat /\ IsText(string, len) /\ tok.tokens = <<>> /\ \A i \in 1..len : mem[i] = string[i]
      BY <2>2, <2>3, <3>1, <3>3 DEF TextFit, CutKept
    <3>5. TokensTaken(<<>>, string, D, 1)
      BY <3>4, NoneTaken
    <3>6. Begun(mem, string, tok.tokens, D, 1)
      BY <3>4, <3>5 DEF Begun, IsText
    <3>7. Uncut(mem, scene.text, 1, tok.dmax)
      BY <2>3, <2>4, <3>1 DEF Cutting
    <3>8. 1 \in Nat /\ 1 # NULL
      BY DEF NULL
    <3>9. PICK p : p = IF 1 = NULL THEN tok.ptr ELSE 1
      OBVIOUS
    <3>10. p = 1
      BY <3>8, <3>9
    <3> QED
      BY <1>1, <2>1, <3>1, <3>2, <3>3, <3>4, <3>6, <3>7, <3>8, <3>9, <3>10, CutTokenKeeps
  <2>6. CASE strtok_next
    <3>1. call # NoCall /\ call.out # NULL /\ tok.dmax > 0 /\ CutToken(NULL, call.src)
      BY <2>6 DEF strtok_next
    <3>2. PICK D : D = DelimitersAt(mem, call.src)
      OBVIOUS
    <3>3. call.src \in scene.sources /\ CutSoFar(D)
      BY <2>2, <3>1, <3>2 DEF CutKept
    <3>4. D = {} => tok.tokens = <<>>
      BY <3>3 DEF CutSoFar
    <3>5. D # {} => Begun(mem, tok.string, tok.tokens, D, tok.ptr)
      BY <2>3, <3>1, <3>3 DEF CutSoFar
    <3>6. Uncut(mem, scene.text, tok.ptr, tok.dmax)
      BY <2>3, <2>4, <3>1 DEF Cutting
    <3>7. NULL \in Nat
      BY DEF NULL
    <3>8. PICK p : p = IF NULL = NULL THEN tok.ptr ELSE NULL
      OBVIOUS
    <3> QED
      BY <1>1, <2>1, <3>1, <3>2, <3>3, <3>4, <3>5, <3>6, <3>7, <3>8, CutTokenKeeps
  <2> QED
    BY <2>1, <2>5, <2>6 DEF Calls_tokens
<1> QED
  BY <1>2, <1>3, <1>4, <1>5

(* Whatever the text and the delimiters, the tokens that a program cuts    *)
(* with a call after the other are the runs of the text between its        *)
(* delimiters, in their order: none is left out on the way, and at the end *)
(* of the text they are all of them; without delimiters there is none      *)
(* (safe_strtok.c).                                                        *)
THEOREM LibraryCutsRuns == Spec => []TokensAreTheRuns
<1>1. LibInv /\ TokInv => TokensAreTheRuns
  <2> SUFFICES ASSUME LibInv, TokInv, call.fn = "strtok", call.heard = <<>>
               PROVE  LET runs == Runs(tok.string, Delimiters)
                          ended == tok.dmax = 0 \/ call.out = NULL
                      IN  IF Delimiters = {} THEN tok.tokens = <<>>
                          ELSE \E at \in [DOMAIN tok.tokens -> runs] :
                    /\ \A i \in DOMAIN at : tok.tokens[i] = SubSeq(tok.string, at[i][1], at[i][2])
                    /\ \A i, j \in DOMAIN at : i < j => at[i][2] < at[j][1]
                    /\ \A r \in runs :
                          ended \/ (\E i \in DOMAIN at : r[1] < at[i][1]) =>
                              \E i \in DOMAIN at : at[i] = r
    BY DEF TokensAreTheRuns
  <2>1. call # NoCall /\ "tokens" \in scene.kinds
    BY DEF TokInv, NoCall
  <2>2. TextFit /\ CutSoFar(Delimiters) /\ scene.text \in Nat /\ tok.ptr \in Int
    BY <2>1 DEF TokInv, CutKept, Delimiters, DelimitersAt, LibInv, ArgumentsFit, TokFit
  <2>3. PICK D, tokens, string, len :
            D = Delimiters /\ tokens = tok.tokens /\ string = tok.string /\ len = scene.text
    OBVIOUS
  <2>4. IsText(string, len) /\ len \in Nat
    BY <2>2, <2>3 DEF TextFit
  <2>5. PICK ended \in BOOLEAN : ended <=> tok.dmax = 0 \/ call.out = NULL
    OBVIOUS
  <2>6. CASE D = {}
    BY <2>2, <2>3, <2>6 DEF CutSoFar
  <2>7. CASE D # {}
    <3>1. PICK b \in Int : b = IF ended THEN len + 1 ELSE tok.ptr
      BY <2>2, <2>4
    <3>2. TokensTaken(tokens, string, D, b)
      BY <2>2, <2>3, <2>5, <2>7, <3>1 DEF CutSoFar, Begun
    <3>3. PICK at : AreTaken(tokens, string, D, b, at)
      BY <3>2 DEF TokensTaken
    <3>4. at \in [DOMAIN tokens -> Runs(string, D)]
      BY <3>3 DEF AreTaken
    <3>5. ASSUME NEW r \in Runs(string, D), ended \/ (\E i \in DOMAIN at : r[1] < at[i][1])
          PROVE  \E i \in DOMAIN at : at[i] = r
      <4>1. r[1] \in Int /\ r[1] <= len
        BY <2>4, RunsAre DEF Run
      <4>2. CASE ended
        <5>1. r[1] < b
          BY <2>4, <3>1, <4>1, <4>2
        <5> QED
          BY <3>3, <3>4, <5>1 DEF AreTaken
      <4>3. CASE \E i \in DOMAIN at : r[1] < at[i][1]
        <5>1. PICK i \in DOMAIN tokens : r[1] < at[i][1]
          BY <3>4, <4>3
        <5>2. at[i] \in Runs(string, D) /\ at[i][2] < b
          BY <3>3, <3>4 DEF AreTaken
        <5>3. at[i][1] \in Int /\ at[i][2] \in Int /\ at[i][1] <= at[i][2]
          BY <2>4, <5>2, RunsAre DEF Run
        <5>4. r[1] < b
          BY <4>1, <5>1, <5>2, <5>3
        <5> QED
          BY <3>3, <3>4, <5>4 DEF AreTaken
      <4> QED
        BY <3>5, <4>2, <4>3
    <3>6. /\ \A i \in DOMAIN at : tokens[i] = SubSeq(string, at[i][1], at[i][2])
          /\ \A i, j \in DOMAIN at : i < j => at[i][2] < at[j][1]
      BY <3>3, <3>4 DEF AreTaken
    <3> QED
      BY <2>3, <2>5, <2>7, <3>4, <3>5, <3>6
  <2> QED
    BY <2>6, <2>7
<1>2. Spec => []TokInv
  BY LibraryInvariant, TokInvInit, TokInvStep, PTL DEF Spec
<1> QED
  BY LibraryInvariant, <1>1, <1>2, PTL
=============================================================================
