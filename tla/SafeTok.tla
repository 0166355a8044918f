------------------------------ MODULE SafeTok ------------------------------
(***************************************************************************)
(* safe_strtok: one call finds one token, and the caller hands the         *)
(* position and the remaining length from each call to the next.           *)
(***************************************************************************)
EXTENDS SafeLib

CONSTANT STRTOK_DELIM_MAX_LEN    \* how many delimiters a character is compared with

ASSUME SafeTokAssumption == STRTOK_DELIM_MAX_LEN \in Nat \ {0}

(* How a character compares with the delimiters at src: the list is given  *)
(* up as unterminated when it goes on behind the last one compared.        *)
Kind(m, c, src) ==
    LET n == Length(m, src, Max(DOMAIN m) - src)
        compared == {m[src + i] : i \in 0..(Min({n, STRTOK_DELIM_MAX_LEN}) - 1)}
    IN  IF c \in compared THEN "delimiter"
        ELSE IF n > STRTOK_DELIM_MAX_LEN THEN "unterminated"
        ELSE IF n = 0 THEN "nothing"
        ELSE "text"

(* What a call gives back: a token or NULL, and *ptr and *dmax. *)
Token(m, token, ptr, dmax, told) ==
    [mem |-> m, token |-> token, ptr |-> ptr, dmax |-> dmax, told |-> told]

(* The first loop skips delimiters; without any delimiters it skips all. *)
SkipDelimiters(m, dest, dlen, src) ==
    LET KindAt(k) == Kind(m, m[dest + k], src)
        n == Min({k \in 0..dlen :
                    k = dlen \/ m[dest + k] = 0 \/ KindAt(k) \in {"text", "unterminated"}})
    IN  IF m[dest + n] = 0 THEN [found |-> "end", dlen |-> dlen - n]
        ELSE IF n = dlen THEN [found |-> "unterminated"]
        ELSE [found |-> KindAt(n), dest |-> dest + n, dlen |-> dlen - n - 1]

(* A token ends at a delimiter, which becomes a null and is passed over in *)
(* *ptr and in *dmax; or *dmax counts it twice, or *ptr does not.          *)
CountedTwice(m, token, dest, dlen) == Token(Put(m, dest, 0), token, dest + 1, dlen - 2, "EOK")
StaysBehind(m, token, dest, dlen) == Token(Put(m, dest, 0), token, dest, dlen - 1, "EOK")
Cut(m, token, dest, dlen) == Token(Put(m, dest, 0), token, dest + 1, dlen - 1, "EOK")

(* The second loop ends the token at the next delimiter; at the end of the *)
(* string *ptr keeps its value.                                            *)
EndToken(m, token, dest, dlen, src, ptr) ==
    LET KindAt(k) == Kind(m, m[dest + k], src)
        n == Min({k \in 0..dlen :
                    k = dlen \/ m[dest + k] = 0 \/ KindAt(k) \in {"delimiter", "unterminated"}})
    IN  IF m[dest + n] = 0 THEN Token(m, token, ptr, dlen - n, "EOK")
        ELSE IF n = dlen \/ KindAt(n) = "unterminated" THEN [unterminated |-> TRUE]
        ELSE Cut(m, token, dest + n, dlen - n)

safe_strtok(m, dest0, dmax, src, ptr) ==
    LET bad == FirstError(<<Zero(dmax), TooLong(dmax, RSIZE_MAX_STR), NullSrc(src)>>)
        dest == IF dest0 = NULL THEN ptr ELSE dest0
        first == SkipDelimiters(m, dest, dmax, src)
        rest == EndToken(m, first.dest, first.dest + 1, first.dlen, src, ptr)
        Unterminated == Token(m, NULL, NULL, dmax, "ESUNTERM")
    IN  IF bad # "EOK" THEN Token(m, NULL, ptr, dmax, bad)
        ELSE IF first.found = "unterminated" THEN Unterminated
        ELSE IF first.found = "end" THEN Token(m, NULL, ptr, first.dlen, "EOK")
        ELSE IF "unterminated" \in DOMAIN rest THEN Unterminated
        ELSE rest
=============================================================================
