----------------------------- MODULE LogFormat -----------------------------
(***************************************************************************)
(* Lengths of the records that handle_task of asgn2/httpserver.c writes to *)
(* its log, for a request that succeeded on a file of n bytes.             *)
(***************************************************************************)
EXTENDS Integers

\* Mutant: the last line is counted without the eight digits at its start.
ReservedLenShort(line, n) == line + (n \div 20) * 69 + (n % 20) * 3 + 10

\* totallen, the extent that is reserved.
ReservedLen(line, n) == line + (n \div 20) * 69 + (n % 20) * 3 + 18

\* What the loop adds up to, for GET and PUT and for HEAD.
WrittenLen(line, method, n) ==
    line + 9 + IF method = "HEAD" THEN 0
               ELSE IF n = 0 THEN 1
               ELSE 3 * n + 9 * ((n + 19) \div 20)
=============================================================================
