----------------------------- MODULE StockRules -----------------------------
(***************************************************************************)
(* The buffer-stock rule every agent applies before it writes a channel:   *)
(* the point of sale (eposnow) shows the actual stock, every other channel *)
(* shows the actual stock minus the product's buffer, never below zero.    *)
(***************************************************************************)
EXTENDS Integers

\* Mutant of CalculateOnlineStock: the clamp is forgotten.
MutUnclamped(actual, buffer) == actual - buffer

\* calculateOnlineStock: Math.max(0, actualStock - bufferStock).
CalculateOnlineStock(actual, buffer) ==
    IF actual > buffer THEN actual - buffer ELSE 0

\* isOnlineChannel: every type but the point of sale.
IsOnlineChannel(type) == type # "eposnow"

\* The expression repeated wherever the code writes or checks a channel:
\* isOnlineChannel(type) ? calculateOnlineStock(actual, buffer) : actual.
ExpectedStock(type, actual, buffer) ==
    IF IsOnlineChannel(type) THEN CalculateOnlineStock(actual, buffer) ELSE actual

=============================================================================
