--------------------------- MODULE MCPageDaemons ----------------------------
(* Two neighbouring pages of one object: active or inactive and mapped, or *)
(* modified, unmapped and waiting to be laundered.                         *)
EXTENDS PageDaemons

MCStart(q, m, d) ==
    [FreePage EXCEPT !.object = "o", !.queue = q, !.enqueued = TRUE, !.valid = TRUE,
         !.mapped = m, !.dirty = d, !.store = IF d THEN "older" ELSE "same"]
MCActiveDirty == MCStart("ACTIVE", "rw", TRUE)
MCInactive == MCStart("INACTIVE", "rw", FALSE)
MCWritten == [MCInactive EXCEPT !.pmod = TRUE, !.store = "older"]
MCModified == MCStart("LAUNDRY", "no", TRUE)
MCReferenced == [MCStart("INACTIVE", "no", FALSE) EXCEPT !.referenced = TRUE]
MCInvalid == [MCStart("INACTIVE", "no", FALSE) EXCEPT !.valid = FALSE]
MCObject(type, users) ==
    [type |-> type, users |-> users, dead |-> FALSE, vnode |-> type = "VNODE"]
MCVnode  == MCObject("VNODE", TRUE)
MCSwap   == MCObject("SWAP", TRUE)
MCUnused == MCObject("VNODE", FALSE)
MCScene(versions, objects, first, second) ==
    [versions |-> versions, objects |-> objects, pages |-> << first, second >>]

\* The daemons of versions 10 and 12 launder two pages for files only, and with
\* swap space one beside a page that was just written.
MCScenes ==
    {MCScene(10 .. 12, {MCVnode, MCSwap, MCUnused}, MCInactive, MCActiveDirty),
     MCScene(10 .. 12, {MCVnode, MCSwap, MCUnused}, MCReferenced, MCInvalid),
     MCScene(10 .. 12, {MCVnode, MCSwap}, MCReferenced, MCWritten),
     MCScene(11 .. 12, {MCVnode, MCSwap}, MCModified, MCWritten),
     MCScene(10 .. 12, {MCVnode}, MCModified, MCModified),
     MCScene({11}, {MCSwap}, MCModified, MCModified)}
=============================================================================
