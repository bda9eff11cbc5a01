----------------------------- MODULE Thresholds -----------------------------
(***************************************************************************)
(* What the page daemons compute: the limits of each of the three versions *)
(* from the size of memory, per domain in version 12 and for the machine   *)
(* before, and the integer square root of the laundry thread.              *)
(***************************************************************************)
EXTENDS Integers, Sequences, SequencesExt

CONSTANT UintDigits     \* base-four digits of a u_int: 16

ASSUME UintDigitsAssumption == UintDigits \in Nat \ {0}

MAXBSIZE  == 65536
PAGE_SIZE == 4096
interrupt_free_min == 2

\* The longest run of pages that is paged out at once, for a machine of so
\* many pages.
vm_pageout_page_count(pages) == IF pages < 2000 THEN 8 ELSE 32

\* What they have in common, for so many pages of which so many are free, on
\* a machine of so many.
Basic(machine, pages, free) ==
    LET min      == IF pages > 1024 THEN 4 + (pages - 1024) \div 200 ELSE 4
        pageout  == (2 * MAXBSIZE) \div PAGE_SIZE + interrupt_free_min
        reserved == vm_pageout_page_count(machine) + pageout + pages \div 768
        target   == 4 * min + reserved
    IN  [free_severe |-> min \div 2 + reserved,
         free_min |-> min + reserved,
         free_target |-> target,
         inactive_target |-> IF (3 * target) \div 2 > free \div 3 THEN free \div 3
                             ELSE (3 * target) \div 2]

\* How much the laundry thread moves in the background.
LaunderTarget(b) == (b.free_target - b.free_min) \div 10

Limits12(machine, pages, free) ==
    LET b == Basic(machine, pages, free) IN
    [basic |-> b, wakeup_thresh |-> (b.free_target \div 10) * 9,
     background_launder_target |-> LaunderTarget(b)]

Limits11(pages, free) ==
    LET b == Basic(pages, pages, free) IN
    [basic |-> b, wakeup_thresh |-> (b.free_min \div 10) * 11,
     background_launder_target |-> LaunderTarget(b)]

\* There is no laundry yet.
Limits10(pages, free) ==
    LET b == Basic(pages, pages, free) IN
    [basic |-> b, wakeup_thresh |-> (b.free_min \div 10) * 11,
     background_launder_target |-> 0]

-----------------------------------------------------------------------------
\* The integer square root, digit by digit in base four from the highest one
\* of a u_int.

\* The values of bit, after the loop that skips those above num.
Bits(num) ==
    SelectSeq([i \in 1 .. UintDigits |-> 4 ^ (UintDigits - i)], LAMBDA b : b <= num)

isqrt(num) ==
    FoldLeft(LAMBDA a, bit :
                IF a.num >= a.root + bit
                THEN [num |-> a.num - (a.root + bit), root |-> (a.root \div 2) + bit]
                ELSE [a EXCEPT !.root = @ \div 2],
             [num |-> num, root |-> 0], Bits(num)).root
=============================================================================
