----------------------------- MODULE FileStore -----------------------------
(***************************************************************************)
(* What an HTTP server of this repository promises about its files: a PUT  *)
(* replaces the file it names, and no other, by the body that was sent; a  *)
(* GET returns the file it names as a whole, with the length that its      *)
(* header announced.  Of a request that is cut, one whose body comes short *)
(* or for which a read or a write fails, it promises less.                 *)
(***************************************************************************)
EXTENDS Integers

CONSTANTS Worker, File, Content, Mixture

VARIABLES
    store,      \* the content of each file
    got,        \* per worker: length and body of the last GET
    asked,      \* input, per worker: method, name and body of its request
    cut         \* input: the workers whose request has been cut

vars == << store, got >>

Init ==
    /\ store \in [File -> Content]
    /\ got \in [Worker -> {<< v.len, v >> : v \in Content}]

Replace(w, v) ==
    /\ asked[w].method = "PUT" /\ asked[w].name \in File
    /\ store' = [store EXCEPT ![asked[w].name] = v]
    /\ UNCHANGED got

Put(w) == w \notin cut' /\ Replace(w, asked[w].body)

\* The file is lost: it is not longer than what was announced, and nobody's.
CutPut(w) ==
    /\ w \in cut'
    /\ \E v \in Content :
          /\ v.data \in {0, Mixture} /\ v.len \in 0 .. asked[w].body.len
          /\ Replace(w, v)

Get(w) ==
    LET f == asked[w].name IN
    /\ w \notin cut' /\ asked[w].method = "GET" /\ f \in File
    /\ got' = [got EXCEPT ![w] = << store[f].len, store[f] >>]
    /\ UNCHANGED store

\* As many bytes as were announced, which are nobody's.
CutGet(w) ==
    /\ w \in cut' /\ asked[w].method = "GET"
    /\ \E v \in Content : /\ v.data = Mixture
                          /\ got' = [got EXCEPT ![w] = << v.len, v >>]
    /\ UNCHANGED store

Next == \E w \in Worker : Put(w) \/ CutPut(w) \/ Get(w) \/ CutGet(w)

Spec == Init /\ [][Next]_vars
=============================================================================
