---------------------------- MODULE PageReclaim -----------------------------
(***************************************************************************)
(* What a page daemon promises to the owners of memory: it takes a page    *)
(* away only when nobody has pinned it and its contents are in the backing *)
(* store; contents reach the store only from a page that is kept busy; and *)
(* contents are given up only with a dead object, or when the pager has    *)
(* refused the page they were in.                                          *)
(***************************************************************************)
CONSTANT Page

VARIABLES
    resident,       \* the pages that hold somebody's data
    unsaved,        \* those whose data the backing store does not have yet
    refused,        \* those whose data it will never have: the pager refused it
    pinned,         \* those held, wired or busy
    dead            \* those whose object is being destroyed

vars == << resident, unsaved, refused, pinned, dead >>

Init ==
    /\ unsaved \subseteq resident /\ refused = {} /\ pinned = {} /\ dead = {}
    /\ resident \subseteq Page

\* Contents that the store has.
Reclaim(p) ==
    /\ p \in resident \ (unsaved \cup refused \cup pinned)
    /\ resident' = resident \ {p} /\ dead' = dead \ {p}
    /\ UNCHANGED << unsaved, refused, pinned >>

\* Contents that are given up.
Discard(p) ==
    /\ p \in (resident \cap (dead \cup refused)) \ pinned
    /\ resident' = resident \ {p} /\ dead' = dead \ {p}
    /\ unsaved' = unsaved \ {p} /\ refused' = refused \ {p}
    /\ UNCHANGED pinned

Fill(p) ==
    /\ p \notin resident
    /\ resident' = resident \cup {p}
    /\ UNCHANGED << unsaved, refused, pinned, dead >>

\* What is written to a refused page may be saved with all of the page later.
Modify(p) ==
    /\ p \in resident
    /\ unsaved' = unsaved \cup {p} /\ refused' = refused \ {p}
    /\ UNCHANGED << resident, pinned, dead >>

Pin(P) ==
    /\ P \subseteq resident
    /\ pinned' = pinned \cup P
    /\ UNCHANGED << resident, unsaved, refused, dead >>

\* Some of the pinned pages are saved, some refused, some unpinned, or several
\* of these at once; the last such step may end an object as well.
Finish(S, R, U, D) ==
    /\ S \subseteq pinned /\ R \subseteq S \cap unsaved
    /\ unsaved' = unsaved \ S /\ refused' = refused \cup R /\ pinned' = pinned \ U
    /\ D \subseteq resident /\ dead' = dead \cup D
    /\ UNCHANGED resident

Next ==
    \/ \E p \in Page : Reclaim(p) \/ Discard(p) \/ Fill(p) \/ Modify(p)
    \/ \E P \in SUBSET Page : Pin(P)
    \/ \E S, R, U, D \in SUBSET Page : Finish(S, R, U, D)

Spec == Init /\ [][Next]_vars
=============================================================================
