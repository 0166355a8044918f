----------------------------- MODULE LibCalls ------------------------------
(***************************************************************************)
(* A program that calls the bounded string library.  It starts with any    *)
(* memory of a scene and makes one call of one function with any arguments *)
(* of the scene; as a scene holds every memory a call can leave behind,    *)
(* one call stands for each call of a longer history.  Cutting a string    *)
(* into tokens takes a call for every token, and a program that sets       *)
(* constraint handlers goes on calling.                                    *)
(***************************************************************************)
EXTENDS SafeMem, SafeStr, SafeScan, SafeTok

CONSTANTS Scenes,        \* what a program may start with
          UserHandler,   \* a constraint handler of the program
          NoHandler      \* a null pointer to a handler

VARIABLES scene,       \* the arguments in use
          mem,         \* the memory of the program
          call,        \* the last call: its arguments and what it returned
          handlers,    \* str_handler and mem_handler
          tok          \* what the program keeps between calls of strtok

vars == <<scene, mem, call, handlers, tok>>

MemoryKinds == {"bytes", "units16", "units32"}
StringKinds == {"copy", "edit", "scan"}

(* A scene: the kinds of functions called, their library, the size of a    *)
(* unit of memory in cells, the first memories, the arguments, and the     *)
(* length of the text to be cut into tokens.  The functions of a scene are *)
(* of one kind, as its units have one size, and it may set handlers.  What *)
(* a pointer and a length name lies in the memory, as the library cannot   *)
(* check, the memory goes on behind a string, and below a string to be     *)
(* edited lies a character that ends the search for blanks.  A text to be  *)
(* cut is as long as it is said to be, the delimiters lie behind it.       *)
ASSUME ScenesAssumption ==
    \A s \in Scenes :
        /\ {"kinds", "library", "unit", "mems", "dests", "sources", "sizes", "lengths",
            "values", "text"} = DOMAIN s
        /\ s.library \in {"str", "mem"}
        /\ \A k, l \in s.kinds \ {"handlers"} : k = l
        /\ s.unit \in Nat \ {0}
        /\ s.kinds \cap {"units16", "units32"} = {} => s.unit = 1
        /\ "units16" \in s.kinds => s.unit = 2
        /\ "units32" \in s.kinds => s.unit = 4 /\ WCHAR_SIZE = 4
        /\ s.dests \cup s.sources \cup s.sizes \cup s.lengths \cup s.values \subseteq Nat
        /\ s.text \in Nat
        /\ s.mems \subseteq Seq(Nat)
        /\ \A m \in s.mems :
              /\ s.dests \subseteq {NULL} \cup (1..Len(m))
              /\ s.kinds \cap MemoryKinds # {} =>
                     \A p \in s.sources \ {NULL}, n \in s.lengths :
                         p + n * s.unit <= Len(m) + 1
              /\ "compare" \in s.kinds =>
                     /\ \A p \in (s.dests \cup s.sources) \ {NULL}, n \in s.sizes :
                           n <= RSIZE_MAX_MEM => p + n <= Len(m) + 1
                     /\ \A a \in 1..Len(m) : m[a] < UINT32_SIZE
              /\ s.kinds \cap StringKinds # {} =>
                     \A p \in (s.dests \cup s.sources) \ {NULL}, n \in s.sizes \cup s.lengths :
                         n <= RSIZE_MAX_STR => p + n <= Len(m)
              /\ "edit" \in s.kinds =>
                     \E a \in 1..Len(m) : m[a] \notin Blanks /\ \A p \in s.dests \ {NULL} : a < p
              /\ "tokens" \in s.kinds =>
                     /\ s.text < Len(m) /\ m[s.text + 1] = 0
                     /\ \A i \in 1..s.text : m[i] # 0
                     /\ s.sources \subseteq (s.text + 2)..Len(m)

NoCall == [fn |-> "none"]
DefaultHandler == "safe_ignore_handler"

(* The string to be cut lies at address 1, and its length is passed as     *)
(* *dmax, as the callers in the file tools do.                             *)
Init ==
    \E s \in Scenes : \E m \in s.mems :
        /\ scene = [s EXCEPT !.mems = {}]
        /\ mem = m
        /\ call = NoCall
        /\ handlers = [str |-> NoHandler, mem |-> NoHandler]
        /\ tok = [string |-> [i \in 1..s.text |-> m[i]], ptr |-> NULL, dmax |-> s.text,
                  tokens |-> <<>>]

(* An error is told to the handler that was set, or to the default. *)
Heard(library, e) ==
    IF e = "EOK" THEN <<>>
    ELSE <<IF handlers[library] = NoHandler THEN DefaultHandler ELSE handlers[library], e>>

SetHandler(library) ==
    /\ "handlers" \in scene.kinds
    /\ \E handler \in {NoHandler, UserHandler} :
           handlers' = [handlers EXCEPT
                          ![library] = IF handler = NoHandler THEN DefaultHandler ELSE handler]
    /\ UNCHANGED <<scene, mem, call, tok>>

set_str_constraint_handler_s == SetHandler("str")
set_safe_mem_constraint_handler == SetHandler("mem")

(* One call, by the arguments the function takes. *)
Ready(kind) ==
    /\ kind \in scene.kinds
    /\ call = NoCall \/ "handlers" \in scene.kinds

Call(fn, dest, dmax, src, slen, r) ==
    /\ mem' = r.mem
    /\ call' = [fn |-> fn, dest |-> dest, dmax |-> dmax, src |-> src, slen |-> slen,
                err |-> r.err, heard |-> Heard(scene.library, r.told), out |-> r.out]
    /\ UNCHANGED <<scene, handlers, tok>>

OnDest(kind, fn, F(_, _, _)) ==
    /\ Ready(kind)
    /\ \E dest \in scene.dests, dmax \in scene.sizes :
           Call(fn, dest, dmax, NULL, 0, F(mem, dest, dmax))

OnDestAndValue(kind, fn, F(_, _, _, _)) ==
    /\ Ready(kind)
    /\ \E dest \in scene.dests, dmax \in scene.sizes, value \in scene.values :
           Call(fn, dest, dmax, value, 0, F(mem, dest, dmax, value))

OnStrings(kind, fn, F(_, _, _, _)) ==
    /\ Ready(kind)
    /\ \E dest \in scene.dests, dmax \in scene.sizes, src \in scene.sources :
           Call(fn, dest, dmax, src, NoLimit, F(mem, dest, dmax, src))

OnBlocks(kind, fn, F(_, _, _, _, _)) ==
    /\ Ready(kind)
    /\ \E dest \in scene.dests, dmax \in scene.sizes,
          src \in scene.sources, slen \in scene.lengths :
           Call(fn, dest, dmax, src, slen, F(mem, dest, dmax, src, slen))

(* The memory functions; a scene fixes the size and alignment of a unit. *)
memcpy == OnBlocks("bytes", "memcpy", safe_memcpy)
memmove == OnBlocks("bytes", "memmove", safe_memmove)
memset == OnDestAndValue("bytes", "memset", safe_memset)
memzero == OnDest("bytes", "memzero", safe_memzero)
memcpy16 == OnBlocks("units16", "memcpy16", safe_memcpy16)
memmove16 == OnBlocks("units16", "memmove16", safe_memmove16)
memset16 == OnDestAndValue("units16", "memset16", safe_memset16)
memzero16 == OnDest("units16", "memzero16", safe_memzero16)
memcpy32 == OnBlocks("units32", "memcpy32", safe_memcpy32)
memmove32 == OnBlocks("units32", "memmove32", safe_memmove32)
memset32 == OnDestAndValue("units32", "memset32", safe_memset32)
memzero32 == OnDest("units32", "memzero32", safe_memzero32)
wmemcpy == OnBlocks("units32", "wmemcpy", safe_wmemcpy)
wmemmove == OnBlocks("units32", "wmemmove", safe_wmemmove)
wmemset ==
    LET Set(m, dest, len, value) == safe_wmemset(m, dest, value, len)
    IN  OnDestAndValue("units32", "wmemset", Set)
memcmp == OnBlocks("compare", "memcmp", safe_memcmp)
memcmp16 == OnBlocks("compare", "memcmp16", safe_memcmp16)
memcmp32 == OnBlocks("compare", "memcmp32", safe_memcmp32)
wmemcmp == OnBlocks("compare", "wmemcmp", safe_wmemcmp)

(* Copying and appending *)
strcpy == OnStrings("copy", "strcpy", safe_strcpy)
wcscpy == OnStrings("copy", "wcscpy", safe_wcscpy)
stpcpy == OnStrings("copy", "stpcpy", safe_stpcpy)
wcpcpy == OnStrings("copy", "wcpcpy", safe_wcpcpy)
strncpy == OnBlocks("copy", "strncpy", safe_strncpy)
wcsncpy == OnBlocks("copy", "wcsncpy", safe_wcsncpy)
strcat == OnStrings("copy", "strcat", safe_strcat)
wcscat == OnStrings("copy", "wcscat", safe_wcscat)
strncat == OnBlocks("copy", "strncat", safe_strncat)
wcsncat == OnBlocks("copy", "wcsncat", safe_wcsncat)
strcpyfld == OnBlocks("copy", "strcpyfld", safe_strcpyfld)
strcpyfldin == OnBlocks("copy", "strcpyfldin", safe_strcpyfldin)
strcpyfldout == OnBlocks("copy", "strcpyfldout", safe_strcpyfldout)

(* With a length of 0 and dest = src its count of characters wraps around. *)
stpncpy ==
    /\ OnBlocks("copy", "stpncpy", safe_stpncpy)
    /\ call'.slen = 0 => call'.dest # call'.src

(* Editing in place *)
strzero == OnDest("edit", "strzero", safe_strzero)
strnlen == OnDest("edit", "strnlen", safe_strnlen)
wcsnlen == OnDest("edit", "wcsnlen", safe_wcsnlen)
strnterminate == OnDest("edit", "strnterminate", safe_strnterminate)
strtolowercase == OnDest("edit", "strtolowercase", safe_strtolowercase)
strtouppercase == OnDest("edit", "strtouppercase", safe_strtouppercase)
strljustify == OnDest("edit", "strljustify", safe_strljustify)
strremovews == OnDest("edit", "strremovews", safe_strremovews)

(* Comparing and searching *)
strcmp == OnStrings("scan", "strcmp", safe_strcmp)
strcasecmp == OnStrings("scan", "strcasecmp", safe_strcasecmp)
strcmpfld == OnStrings("scan", "strcmpfld", safe_strcmpfld)
strfirstdiff == OnStrings("scan", "strfirstdiff", safe_strfirstdiff)
strfirstsame == OnStrings("scan", "strfirstsame", safe_strfirstsame)
strlastdiff == OnStrings("scan", "strlastdiff", safe_strlastdiff)
strlastsame == OnStrings("scan", "strlastsame", safe_strlastsame)
strprefix == OnStrings("scan", "strprefix", safe_strprefix)
strfirstchar == OnDestAndValue("scan", "strfirstchar", safe_strfirstchar)
strlastchar == OnDestAndValue("scan", "strlastchar", safe_strlastchar)
strspn == OnBlocks("scan", "strspn", safe_strspn)
strcspn == OnBlocks("scan", "strcspn", safe_strcspn)
strpbrk == OnBlocks("scan", "strpbrk", safe_strpbrk)
strstr == OnBlocks("scan", "strstr", safe_strstr)
strcasestr == OnBlocks("scan", "strcasestr", safe_strcasestr)

(* Classifying *)
strisalphanumeric == OnDest("edit", "strisalphanumeric", safe_strisalphanumeric)
strisascii == OnDest("edit", "strisascii", safe_strisascii)
strisdigit == OnDest("edit", "strisdigit", safe_strisdigit)
strishex == OnDest("edit", "strishex", safe_strishex)
strislowercase == OnDest("edit", "strislowercase", safe_strislowercase)
strismixedcase == OnDest("edit", "strismixedcase", safe_strismixedcase)
strisuppercase == OnDest("edit", "strisuppercase", safe_strisuppercase)
strispassword == OnDest("password", "strispassword", safe_strispassword)

(* The first call names the string, the others continue where the last one *)
(* stopped; the caller ends with the string or with the first NULL.        *)
StringAt(m, p) == [i \in 1..Length(m, p, Max(DOMAIN m) - p) |-> m[p + i - 1]]

CutToken(dest, src) ==
    LET r == safe_strtok(mem, dest, tok.dmax, src, tok.ptr)
    IN  /\ mem' = r.mem
        /\ tok' = [tok EXCEPT !.ptr = r.ptr, !.dmax = r.dmax,
                      !.tokens = IF r.token = NULL THEN @
                                 ELSE Append(@, StringAt(r.mem, r.token))]
        /\ call' = [fn |-> "strtok", dest |-> dest, dmax |-> tok.dmax, src |-> src,
                    slen |-> NoLimit, err |-> "EOK", heard |-> Heard("str", r.told),
                    out |-> r.token]
        /\ UNCHANGED <<scene, handlers>>

strtok_first ==
    /\ "tokens" \in scene.kinds
    /\ call = NoCall
    /\ \E src \in scene.sources : CutToken(1, src)

strtok_next ==
    /\ "tokens" \in scene.kinds
    /\ call # NoCall
    /\ call.out # NULL
    /\ tok.dmax > 0
    /\ CutToken(NULL, call.src)

Next ==
    \/ set_str_constraint_handler_s \/ set_safe_mem_constraint_handler
    \/ memcpy \/ memmove \/ memset \/ memzero
    \/ memcpy16 \/ memmove16 \/ memset16 \/ memzero16
    \/ memcpy32 \/ memmove32 \/ memset32 \/ memzero32 \/ wmemcpy \/ wmemmove \/ wmemset
    \/ memcmp \/ memcmp16 \/ memcmp32 \/ wmemcmp
    \/ strcpy \/ wcscpy \/ stpcpy \/ wcpcpy \/ strncpy \/ wcsncpy \/ stpncpy
    \/ strcat \/ wcscat \/ strncat \/ wcsncat \/ strcpyfld \/ strcpyfldin \/ strcpyfldout
    \/ strzero \/ strnlen \/ wcsnlen \/ strnterminate \/ strtolowercase \/ strtouppercase
    \/ strljustify \/ strremovews
    \/ strcmp \/ strcasecmp \/ strcmpfld \/ strfirstdiff \/ strfirstsame \/ strlastdiff
    \/ strlastsame \/ strprefix \/ strfirstchar \/ strlastchar
    \/ strspn \/ strcspn \/ strpbrk \/ strstr \/ strcasestr
    \/ strisalphanumeric \/ strisascii \/ strisdigit \/ strishex \/ strislowercase
    \/ strismixedcase \/ strisuppercase \/ strispassword
    \/ strtok_first \/ strtok_next

Spec == Init /\ [][Next]_vars
=============================================================================
