------------------------------ MODULE SafeMem ------------------------------
(***************************************************************************)
(* The memory functions of the library, over memory by bytes.  The         *)
(* functions for units of two and four bytes and for wide characters share *)
(* the operators of the ones for bytes, with the size of a unit; their     *)
(* pointers are aligned to it.                                             *)
(***************************************************************************)
EXTENDS SafeLib

CONSTANT UINT32_SIZE    \* how many values a uint32_t has, an even number

ASSUME SafeMemAssumption == UINT32_SIZE \in Nat \ {0} /\ UINT32_SIZE % 2 = 0

WSIZE == 4     \* the primitives work by words of four bytes

(* Units one after the other downwards, from the ends of the regions.      *)
CopyDown(m, dp, sp, n, u) ==
    LET after[k \in 0..n] ==
            IF k = 0 THEN m ELSE CopyUnit(after[k - 1], dp - k * u, sp - k * u, u)
    IN  after[n]

(* Bytes up to the first word boundary, whole words, the bytes left. *)
safe_mem_prim_set(m, dest, len, value) ==
    LET lead == Min({len, (WSIZE - (dest % WSIZE)) % WSIZE})
        words == (len - lead) \div WSIZE
        tail == (len - lead) % WSIZE
        lp == dest + lead
    IN  Fill(Fill(Fill(m, dest, lead, value), lp, words * WSIZE, value),
             lp + words * WSIZE, tail, value)

safe_mem_prim_set16(m, dp, len, value) == Fill(m, dp, 2 * len, value)
safe_mem_prim_set32(m, dp, len, value) == Fill(m, dp, 4 * len, value)

Misaligned(dp, sp) == dp % WSIZE # 0 \/ sp % WSIZE # 0
NeverAligned(dp, sp) == dp % WSIZE # sp % WSIZE

(* Upwards when the destination lies below the source, else downwards from *)
(* the ends.  Bytes up to a boundary both pointers share, words, bytes.    *)
MoveUp(m, dp, sp, len) ==
    LET lead == IF ~Misaligned(dp, sp) THEN 0
                ELSE IF NeverAligned(dp, sp) \/ len < WSIZE THEN len
                ELSE WSIZE - (sp % WSIZE)
        words == (len - lead) \div WSIZE
        at == lead + words * WSIZE
        m1 == CopyUp(m, dp, sp, lead, 1)
        m2 == CopyUp(m1, dp + lead, sp + lead, words, WSIZE)
    IN  CopyUp(m2, dp + at, sp + at, (len - lead) % WSIZE, 1)

MoveDown(m, dp, sp, len) ==
    LET lead == IF ~Misaligned(dp, sp) THEN 0
                ELSE IF NeverAligned(dp, sp) \/ len <= WSIZE THEN len
                ELSE sp % WSIZE
        words == (len - lead) \div WSIZE
        at == lead + words * WSIZE
        m1 == CopyDown(m, dp, sp, lead, 1)
        m2 == CopyDown(m1, dp - lead, sp - lead, words, WSIZE)
    IN  CopyDown(m2, dp - at, sp - at, (len - lead) % WSIZE, 1)

(* Always upwards. *)
MoveMutant(m, dest, src, len) == MoveUp(m, dest, src, len)

safe_mem_prim_move(m, dest, src, len) ==
    IF dest < src THEN MoveUp(m, dest, src, len)
    ELSE MoveDown(m, dest + len, src + len, len)

MoveUnits(m, dp, sp, len, u) ==
    IF dp < sp THEN CopyUp(m, dp, sp, len, u)
    ELSE CopyDown(m, dp + len * u, sp + len * u, len, u)

safe_mem_prim_move8(m, dp, sp, len) == MoveUnits(m, dp, sp, len, 1)
safe_mem_prim_move16(m, dp, sp, len) == MoveUnits(m, dp, sp, len, 2)
safe_mem_prim_move32(m, dp, sp, len) == MoveUnits(m, dp, sp, len, 4)

(* The primitives by bytes, called with a number of wide characters. *)
SetWide(m, dp, len, value) == safe_mem_prim_set(m, dp, len * WCHAR_SIZE, value)
MoveWide(m, dp, sp, len) == safe_mem_prim_move(m, dp, sp, len * WCHAR_SIZE)

(* The source starts inside the room of the destination, or the            *)
(* destination inside the source.                                          *)
Overlap(dp, dmax, sp, smax, u) ==
    \/ dp > sp /\ dp < sp + smax * u
    \/ sp > dp /\ sp < dp + dmax * u

(* Check, clear the destination when the source is at fault, or move. *)
Transfer(m, dest, dmax, src, smax, max, apart, Set(_, _, _, _), Move(_, _, _, _)) ==
    LET bad == FirstError(<<NullDest(dest), Zero(dmax), TooLong(dmax, max)>>)
        badSrc == FirstError(<<Zero(smax), TooLong(smax, dmax), NullSrc(src),
                               <<~apart, "ESOVRLP">>>>)
    IN  IF bad # "EOK" THEN Failed(m, bad)
        ELSE IF badSrc # "EOK" THEN Failed(Set(m, dest, dmax, 0), badSrc)
        ELSE Done(Move(m, dest, src, smax))

safe_memcpy(m, dest, dmax, src, smax) ==
    Transfer(m, dest, dmax, src, smax, RSIZE_MAX_MEM,
             ~Overlap(dest, dmax, src, smax, 1), safe_mem_prim_set, safe_mem_prim_move)

safe_memcpy16(m, dest, dmax, src, smax) ==
    Transfer(m, dest, dmax, src, smax, RSIZE_MAX_MEM \div 2,
             ~Overlap(dest, dmax, src, smax, 2), safe_mem_prim_set16, safe_mem_prim_move16)

safe_memcpy32(m, dest, dmax, src, smax) ==
    Transfer(m, dest, dmax, src, smax, RSIZE_MAX_MEM \div 4,
             ~Overlap(dest, dmax, src, smax, 4), safe_mem_prim_set32, safe_mem_prim_move32)

(* The only function for units that compares their number, not their size, *)
(* with the limit in bytes.                                                *)
safe_wmemcpy(m, dest, dmax, src, smax) ==
    Transfer(m, dest, dmax, src, smax, RSIZE_MAX_MEM,
             ~Overlap(dest, dmax, src, smax, WCHAR_SIZE), SetWide, MoveWide)

safe_memmove(m, dest, dmax, src, smax) ==
    Transfer(m, dest, dmax, src, smax, RSIZE_MAX_MEM, TRUE,
             safe_mem_prim_set, safe_mem_prim_move)

safe_memmove16(m, dest, dmax, src, smax) ==
    Transfer(m, dest, dmax, src, smax, RSIZE_MAX_MEM \div 2, TRUE,
             safe_mem_prim_set16, safe_mem_prim_move16)

safe_memmove32(m, dest, dmax, src, smax) ==
    Transfer(m, dest, dmax, src, smax, RSIZE_MAX_MEM \div 4, TRUE,
             safe_mem_prim_set32, safe_mem_prim_move32)

safe_wmemmove(m, dest, dmax, src, smax) ==
    Transfer(m, dest, dmax, src, smax, RSIZE_MAX_MEM \div WCHAR_SIZE, TRUE,
             SetWide, MoveWide)

SetAll(m, dest, len, value, max, Set(_, _, _, _)) ==
    LET bad == FirstError(<<NullDest(dest), Zero(len), TooLong(len, max)>>)
    IN  IF bad # "EOK" THEN Failed(m, bad) ELSE Done(Set(m, dest, len, value))

safe_memset(m, dest, len, value) ==
    SetAll(m, dest, len, value, RSIZE_MAX_MEM, safe_mem_prim_set)
safe_memset16(m, dest, len, value) ==
    SetAll(m, dest, len, value, RSIZE_MAX_MEM \div 2, safe_mem_prim_set16)
safe_memset32(m, dest, len, value) ==
    SetAll(m, dest, len, value, RSIZE_MAX_MEM \div 4, safe_mem_prim_set32)
safe_wmemset(m, dest, value, len) ==
    SetAll(m, dest, len, value, RSIZE_MAX_MEM \div WCHAR_SIZE, safe_mem_prim_set32)
safe_memzero(m, dest, len) ==
    SetAll(m, dest, len, 0, RSIZE_MAX_MEM, safe_mem_prim_set)
safe_memzero16(m, dest, len) ==
    SetAll(m, dest, len, 0, RSIZE_MAX_MEM \div 2, safe_mem_prim_set16)
safe_memzero32(m, dest, len) ==
    SetAll(m, dest, len, 0, RSIZE_MAX_MEM \div 4, safe_mem_prim_set32)

(* Comparing; here a cell of the memory is a unit of either size.  The     *)
(* result stays -1 when the arguments are refused.                         *)
Compare(m, dest, dmax, src, smax, max, Diff(_, _)) ==
    LET bad == FirstError(<<NullDest(dest), NullSrc(src), Zero(dmax), TooLong(dmax, max),
                            Zero(smax), TooLong(smax, dmax)>>)
        differ == {i \in 0..(smax - 1) : m[dest + i] # m[src + i]}
    IN  IF bad # "EOK" THEN Result(m, bad, bad, -1)
        ELSE IF dest = src \/ differ = {} THEN Returns(m, 0)
        ELSE Returns(m, Diff(m[dest + Min(differ)], m[src + Min(differ)]))

(* The difference the other way round. *)
MinusMutant(x, y) == y - x

(* A difference of two unsigned numbers, taken as an int. *)
Minus(x, y) == x - y

WrappedMinus(x, y) ==
    ((x - y + UINT32_SIZE \div 2) % UINT32_SIZE) - UINT32_SIZE \div 2

Sign(x, y) == IF x < y THEN -1 ELSE 1

safe_memcmp(m, dest, dmax, src, smax) ==
    Compare(m, dest, dmax, src, smax, RSIZE_MAX_MEM, Sign)
safe_memcmp16(m, dest, dmax, src, smax) ==
    Compare(m, dest, dmax, src, smax, RSIZE_MAX_MEM \div 2, Minus)
safe_memcmp32(m, dest, dmax, src, smax) ==
    Compare(m, dest, dmax, src, smax, RSIZE_MAX_MEM \div 4, WrappedMinus)
safe_wmemcmp(m, dest, dmax, src, smax) ==
    Compare(m, dest, dmax, src, smax, RSIZE_MAX_MEM \div 4, Minus)
=============================================================================
