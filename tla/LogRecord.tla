----------------------------- MODULE LogRecord -----------------------------
(***************************************************************************)
(* The log record that handle_task of asgn2/httpserver.c writes for a      *)
(* request that succeeded: a first line, the bytes of the file in hex,     *)
(* twenty to a line, and a line of '='.  The extent of the record in the   *)
(* log file is computed and reserved before the record is built, by an     *)
(* expression that has to agree with what the loop of snprintf calls       *)
(* produces.                                                               *)
(***************************************************************************)
EXTENDS LogFormat

CONSTANTS
    Lengths,        \* the values of original_length
    LineLengths     \* the lengths of "METHOD name length N\n"

ASSUME LengthsAssumption == Lengths \subseteq Nat /\ LineLengths \subseteq Nat

VARIABLES
    original_length, line, method,  \* of the request
    i,                              \* of the for loop
    lcount,                         \* bytes in log_string
    pc

vars == << original_length, line, method, i, lcount, pc >>

Init ==
    /\ original_length \in Lengths
    /\ line \in LineLengths
    /\ method \in {"GET", "PUT", "HEAD"}
    /\ i = 0
    /\ lcount = line
    /\ pc = IF method = "HEAD" THEN "end" ELSE "bytes"

\* "\n" except before the first line, and "%08d", at every twentieth byte.
LineStart == IF i % 20 # 0 THEN 0 ELSE IF i = 0 THEN 8 ELSE 9

\* One round of the loop: " %02x".
Byte ==
    /\ pc = "bytes" /\ i < original_length
    /\ lcount' = lcount + LineStart + 3
    /\ i' = i + 1
    /\ UNCHANGED << original_length, line, method, pc >>

\* The "\n" after the loop.
LastByte ==
    /\ pc = "bytes" /\ i = original_length
    /\ lcount' = lcount + 1
    /\ pc' = "end"
    /\ UNCHANGED << original_length, line, method, i >>

\* The line of eight '='.
End ==
    /\ pc = "end"
    /\ lcount' = lcount + 9
    /\ pc' = "done"
    /\ UNCHANGED << original_length, line, method, i >>

Next == Byte \/ LastByte \/ End

Spec == Init /\ [][Next]_vars

-----------------------------------------------------------------------------
\* The counters are numbers, and i stays within the file.
TypeOK ==
    /\ original_length \in Lengths /\ line \in LineLengths
    /\ method \in {"GET", "PUT", "HEAD"}
    /\ i \in 0 .. original_length
    /\ lcount \in Nat
    /\ pc \in {"bytes", "end", "done"}

\* The record never outgrows the extent reserved for it, or it would overwrite
\* the record of another request.
FitsReserved == lcount <= ReservedLen(line, original_length)

\* The module Requests takes the length of a record from WrittenLen.
WrittenIsWrittenLen ==
    pc = "done" => lcount = WrittenLen(line, method, original_length)
=============================================================================
