------------------------------- MODULE WalLog -------------------------------
(***************************************************************************)
(* What the write-ahead log promises its readers: an append-only text of    *)
(* which a window lo .. hi-1 can be read.  What is inside the window never   *)
(* changes; the window moves forward; only a reset starts a new text.       *)
(***************************************************************************)
EXTENDS Integers

CONSTANTS Byte, MaxOffset

VARIABLES lo, hi, text     \* text: the readable part, a function on lo .. hi-1

logVars == <<lo, hi, text>>

Window == lo .. hi - 1

LogInit == lo = hi /\ hi \in 0 .. MaxOffset /\ text = [o \in Window |-> CHOOSE b \in Byte : TRUE]

\* The text grows at its end; the window may lose its oldest part.
Grow ==
    /\ hi' \in hi + 1 .. MaxOffset
    /\ lo' \in lo .. hi'
    /\ text' \in [Window' -> Byte]
    /\ \A o \in Window \cap Window' : text'[o] = text[o]

\* The oldest part of the window becomes unreadable.
Forget ==
    /\ lo' \in lo + 1 .. hi
    /\ hi' = hi
    /\ text' = [o \in Window' |-> text[o]]

\* A new text starts at some offset.
Restart ==
    /\ hi' \in 0 .. MaxOffset
    /\ lo' = hi'
    /\ text' = [o \in Window' |-> CHOOSE b \in Byte : TRUE]

LogNext == Grow \/ Forget \/ Restart

LogSpec == LogInit /\ [][LogNext]_logVars
=============================================================================
