------------------------------ MODULE SafeLib ------------------------------
(***************************************************************************)
(* What the functions of the bounded string library share: memory, the     *)
(* order of the checks of their arguments, and how they fail.              *)
(*                                                                         *)
(* Memory is a function from addresses to cells.  A pointer is an address, *)
(* NULL is 0, and a character is its code, with 0 for the terminator.  A   *)
(* function of the library is an operator from memory and arguments to a   *)
(* result: the memory it leaves, the error it returns, the error it told   *)
(* the constraint handler, and the value it returns or writes through its  *)
(* last pointer.                                                           *)
(***************************************************************************)
EXTENDS Integers, Sequences, FiniteSetsExt

CONSTANTS RSIZE_MAX_STR,    \* the longest string, in characters
          RSIZE_MAX_MEM,    \* the largest memory block, in bytes
          WCHAR_SIZE        \* sizeof(wchar_t)

ASSUME SafeLibAssumption ==
    /\ RSIZE_MAX_STR \in Nat \ {0}
    /\ RSIZE_MAX_MEM \in Nat \ {0}
    /\ WCHAR_SIZE \in Nat \ {0}

NULL == 0
RSIZE_MIN_STR == 1

(* Memory *)
Put(m, p, c) == [m EXCEPT ![p] = c]
Fill(m, p, n, c) == [a \in DOMAIN m |-> IF a \in p..(p + n - 1) THEN c ELSE m[a]]

(* n units of u cells one after the other, upwards; each is read whole     *)
(* before it is written.                                                   *)
CopyUnit(m, dp, sp, u) ==
    [a \in DOMAIN m |-> IF a \in dp..(dp + u - 1) THEN m[sp + (a - dp)] ELSE m[a]]

CopyUp(m, dp, sp, n, u) ==
    LET after[k \in 0..n] ==
            IF k = 0 THEN m ELSE CopyUnit(after[k - 1], dp + (k - 1) * u, sp + (k - 1) * u, u)
    IN  after[n]

(* Characters *)
Blanks == {9, 32}
Digits == 48..57
Uppers == 65..90
Lowers == 97..122
toupper(c) == IF c \in Lowers THEN c - 32 ELSE c

(* The number of characters before the terminator, at most n. *)
Length(m, p, n) == Min({k \in 0..n : k = n \/ m[p + k] = 0})

(* Results *)
Result(m, e, told, out) == [mem |-> m, err |-> e, told |-> told, out |-> out]
Done(m) == Result(m, "EOK", "EOK", NULL)
Returns(m, out) == Result(m, "EOK", "EOK", out)
Failed(m, e) == Result(m, e, e, NULL)

(* safe_handle_error: the destination becomes empty, the handler is told. *)
Nulled(m, dest, e) == Failed(Put(m, dest, 0), e)

(* The functions test their arguments one after the other and return at   *)
(* the first that fails.                                                   *)
FirstError(checks) ==
    LET bad == {i \in DOMAIN checks : checks[i][1]}
    IN  IF bad = {} THEN "EOK" ELSE checks[Min(bad)][2]

(* The checks that open nearly every function on strings. *)
NullDest(dest) == <<dest = NULL, "ESNULLP">>
NullSrc(src) == <<src = NULL, "ESNULLP">>
Zero(n) == <<n = 0, "ESZEROL">>
TooLong(n, max) == <<n > max, "ESLEMAX">>
DestError(dest, dmax, size) ==
    FirstError(<<NullDest(dest), Zero(dmax), TooLong(dmax * size, RSIZE_MAX_STR)>>)
=============================================================================
