----------------------------- MODULE MCRequests -----------------------------
(***************************************************************************)
(* Instances of Requests for TLC.                                          *)
(***************************************************************************)
EXTENDS Requests, TLC

CONSTANTS plain, dir, secret

Req(m, x, l) == [method |-> m, name |-> x, len |-> l]

\* plain is a file, dir a directory, secret a name that may not be used.
Kinds == [x \in File |-> IF x = dir THEN "directory" ELSE IF x = secret THEN "denied" ELSE "plain"]

\* PUTs of a line of the log and a byte, and without Content-Length, readers,
\* healthchecks, and requests that fail at every stage.
AllRequests ==
    {Req("PUT", plain, 21), Req("PUT", plain, NoLength), Req("GET", plain, NoLength),
     Req("HEAD", plain, NoLength), Req("GET", healthcheck, NoLength),
     Req("PUT", healthcheck, 20), Req("BAD", plain, NoLength),
     Req("GET", secret, NoLength), Req("PUT", dir, 20)}

PutAndGet == {Req("PUT", plain, 21), Req("GET", plain, NoLength)}

Symmetric == Permutations(Worker)
=============================================================================
