------------------------------ MODULE Servers ------------------------------
(***************************************************************************)
(* The two single-threaded HTTP servers: "c" is CSE130-v2/asgn1's          *)
(* httpserver.c, the ancestor of the server of Requests, and "cpp" is      *)
(* CSE130-v1/asgn3's httpserver.cpp.  Both serve one connection after the  *)
(* other; what they keep in between is an httpObject, and errno.           *)
(*                                                                         *)
(* Bodies and files are sequences of units, the k-th unit of the body of   *)
(* connection i being << i, k >>; a buffer of asgn1 holds Buffer of them.  *)
(* A recv or read returns as much as has arrived.  The head of a request   *)
(* may bring the first units of its body along, which both servers drop.   *)
(***************************************************************************)
EXTENDS Integers, Sequences, FiniteSets

CONSTANTS
    File, kind,     \* names, each "plain", "denied", "orphan" (in a directory
                    \*   that does not exist), "directory" or "short" (a name
                    \*   that has not the length cpp asks for)
    Request,        \* records of a method, a name and a length, 0 for none;
                    \*   the method "BAD" is what asgn1 answers with 400
    Nothing,        \* a client that connects and closes
    MaxConn,        \* bound on the connections
    FdLimit,        \* descriptors left to cpp beside that of a connection
    Buffer          \* BUFFER_SIZE of asgn1

Failing == {400, 403, 404, 500}

Absent    == [len |-> -1, data |-> << >>]
Empty     == [len |-> 0, data |-> << >>]
Directory == [len |-> 3, data |-> << >>]
Junk      == << 0, 0 >>     \* whatever was in the buffer before
Filled(data) == [len |-> Len(data), data |-> data]
Length(q) == IF q = Nothing THEN 0 ELSE q.len
Units(i, from, to) == [k \in 1 .. to - from + 1 |-> << i, from + k - 1 >>]

VARIABLES
    which,          \* "c" or "cpp", fixed
    files,          \* the content of each file
    message,        \* request, status and content_length
    errno,          \* of the last call that failed
    pc,
    conn,           \* number and request of the connection, units received,
                    \*   whether all arrived apart from the head and in time
                    \*   for the reads, and whether the server was spoilt
                    \*   when it was accepted
    answer,         \* status and length in the header sent, and the body
    before,         \* the files when the connection was accepted
    broken,         \* asgn1 has met an error it answers with 500
    leaked,         \* descriptors of files that cpp never closes
    running         \* the process has not crashed

conns == << conn, before >>
vars == << which, files, message, errno, pc, conns, answer, broken, leaked, running >>

NoAnswer == [status |-> -1, len |-> 0, body |-> << >>]

Init ==
    /\ which \in {"c", "cpp"}
    /\ files \in [File -> {Absent, Directory}]
    /\ \A f \in File : files[f] = Directory <=> kind[f] = "directory"
    /\ \E s \in {0, 500} :       \* asgn1's message is not initialized
          /\ s = 500 => which = "c"
          /\ message = [req |-> Nothing, status |-> s, content_length |-> 0]
          /\ broken = (s = 500)
    /\ errno = "other" /\ pc = "accept"
    /\ conn = [id |-> 0, req |-> Nothing, in |-> 0, clean |-> TRUE, spoilt |-> FALSE]
    /\ answer = NoAnswer /\ before = files
    /\ leaked = 0 /\ running = TRUE

Goto(l) == pc' = l
r == message.req

-----------------------------------------------------------------------------
\* Both.

\* From now on no request is served: asgn1's status is 500, or cpp can open no
\* file (it still accepts, since it closes the connections).
Spoilt == IF which = "c" THEN broken ELSE leaked = FdLimit

Accept ==
    /\ pc = "accept" /\ conn.id < MaxConn
    /\ \E q \in Request \cup {Nothing} :
          conn' = [id |-> conn.id + 1, req |-> q, in |-> 0, clean |-> TRUE,
                   spoilt |-> Spoilt]
    /\ before' = files /\ answer' = NoAnswer
    /\ Goto("read")
    /\ UNCHANGED << which, files, message, errno, broken, running >>

\* errno of open; cpp opens for reading and writing unless it is for a GET.
Errno(q) ==
    IF kind[q.name] = "denied" THEN "EACCES"
    ELSE IF kind[q.name] = "orphan" THEN "ENOENT"
    ELSE IF q.method = "PUT" THEN IF kind[q.name] = "directory" THEN "EISDIR" ELSE "none"
    ELSE IF files[q.name] = Absent THEN "ENOENT" ELSE "none"

\* Both map two errors to statuses of their own.
StatusOf(e, other) == CASE e = "EACCES" -> 403 [] e = "ENOENT" -> 404 [] OTHER -> other

Close ==
    /\ pc = "close"
    /\ Goto("accept")
    /\ UNCHANGED << which, files, message, errno, conns, answer, broken, running >>

\* The n units that a read returns, at most: of those sent, and if the client
\* has not sent them all, at least one.
Arriving(n) ==
    LET left == Length(conn.req) - conn.in
        most == IF left < n THEN left ELSE n
    IN  IF n = 0 THEN {0} ELSE 1 .. most

-----------------------------------------------------------------------------
\* asgn1: read_http_response, process_request, construct_http_response.

\* Mutant: the status of the request before is kept.
ReadKeepsStatus ==
    /\ pc = "read" /\ which = "c" /\ message.status # 500 /\ conn.req # Nothing
    /\ \E early \in 0 .. Length(conn.req) :
          conn' = [conn EXCEPT !.in = early, !.clean = early = 0]
    /\ message' = [message EXCEPT
            !.req = conn.req, !.content_length = Length(conn.req),
            !.status = IF conn.req.method = "BAD" THEN 400 ELSE @]
    /\ Goto("process")
    /\ UNCHANGED << which, files, errno, before, answer, broken, running >>

\* Once 500, always 500.
ReadSkipped ==
    /\ pc = "read" /\ which = "c" /\ message.status = 500
    /\ Goto("head")
    /\ UNCHANGED << which, files, message, errno, conns, answer, broken, running >>

Read ==
    /\ pc = "read" /\ which = "c" /\ message.status # 500 /\ conn.req # Nothing
    /\ \E early \in 0 .. Length(conn.req) :
          conn' = [conn EXCEPT !.in = early, !.clean = early = 0]
    /\ message' = [req |-> conn.req, content_length |-> Length(conn.req),
                   status |-> IF conn.req.method = "BAD" THEN 400 ELSE 0]
    /\ Goto("process")
    /\ UNCHANGED << which, files, errno, before, answer, broken, running >>

\* Nothing was received: the strings that are examined are not initialized,
\* or still those of the request before.
ReadNothing ==
    /\ pc = "read" /\ which = "c" /\ message.status # 500 /\ conn.req = Nothing
    /\ \E s \in {0, 400} :
          /\ s = 0 => r # Nothing
          /\ message' = [message EXCEPT !.status = s, !.content_length = 0]
    /\ conn' = [conn EXCEPT !.clean = FALSE]
    /\ Goto("process")
    /\ UNCHANGED << which, files, errno, before, answer, broken, running >>

Refuse ==
    /\ pc = "process" /\ message.status = 400
    /\ Goto("head")
    /\ UNCHANGED << which, files, message, errno, conns, answer, broken, running >>

\* Another error than the two leaves the status at 0.
OpenFails ==
    /\ pc = "process" /\ message.status # 400 /\ Errno(r) # "none"
    /\ errno' = Errno(r)
    /\ message' = [message EXCEPT !.status = StatusOf(Errno(r), @)]
    /\ Goto("head")
    /\ UNCHANGED << which, files, conns, answer, broken, running >>

OpenForReading ==
    /\ pc = "process" /\ message.status # 400 /\ Errno(r) = "none" /\ r.method # "PUT"
    /\ message' = [message EXCEPT !.status = 200, !.content_length = files[r.name].len]
    /\ Goto("head")
    /\ UNCHANGED << which, files, errno, conns, answer, broken, running >>

OpenForWriting ==
    /\ pc = "process" /\ message.status # 400 /\ Errno(r) = "none" /\ r.method = "PUT"
    /\ files' = [files EXCEPT ![r.name] = Empty]
    /\ message' = [message EXCEPT !.status = 201]
    /\ Goto("body")
    /\ UNCHANGED << which, errno, conns, answer, broken, running >>

\* A round of the loop, while more than a buffer is left, and the read and
\* write after it: write as much as was asked for, however much was read.  A
\* read of what never comes waits until the client closes and returns nothing;
\* read and write may also fail.
Wanted == IF message.content_length > Buffer THEN Buffer ELSE message.content_length

\* Mutant: the last write is of a whole buffer.
PutBodyPads ==
    /\ pc = "body"
    /\ \E n \in Arriving(Wanted) \cup {0} :
          /\ conn' = [conn EXCEPT !.in = @ + n, !.clean = @ /\ n = Wanted]
          /\ files' = [files EXCEPT ![r.name] =
                Filled(@.data \o Units(conn.id, conn.in + 1, conn.in + n)
                         \o [k \in 1 .. Buffer - n |-> Junk])]
    /\ message' = [message EXCEPT !.content_length = @ - Wanted]
    /\ Goto(IF message.content_length > Buffer THEN "body" ELSE "head")
    /\ UNCHANGED << which, errno, before, answer, broken, running >>

PutBody ==
    /\ pc = "body"
    /\ \E n \in Arriving(Wanted) \cup {0} :
          /\ conn' = [conn EXCEPT !.in = @ + n, !.clean = @ /\ n = Wanted]
          /\ files' = [files EXCEPT ![r.name] =
                Filled(@.data \o Units(conn.id, conn.in + 1, conn.in + n)
                         \o [k \in 1 .. Wanted - n |-> Junk])]
    /\ message' = [message EXCEPT !.content_length = @ - Wanted]
    /\ Goto(IF message.content_length > Buffer THEN "body" ELSE "head")
    /\ UNCHANGED << which, errno, before, answer, broken, running >>

\* The read fails, and junk is written, or the write does; the loop goes on.
PutFails ==
    /\ pc = "body"
    /\ \E junk \in {0, Wanted} :
          files' = [files EXCEPT ![r.name] = Filled(@.data \o [k \in 1 .. junk |-> Junk])]
    /\ message' = [message EXCEPT !.status = 500, !.content_length = @ - Wanted]
    /\ conn' = [conn EXCEPT !.clean = FALSE]
    /\ broken' = TRUE
    /\ Goto(IF message.content_length > Buffer THEN "body" ELSE "head")
    /\ UNCHANGED << which, errno, before, answer, running >>

\* construct_http_response: the header, and for a GET the body.
SendHead ==
    /\ pc = "head"
    /\ answer' = [status |-> message.status, len |-> message.content_length, body |-> << >>]
    /\ Goto(IF message.status \notin Failing /\ r.method = "GET" THEN "send" ELSE "close")
    /\ UNCHANGED << which, files, message, errno, conns, broken, running >>

SendBody ==
    /\ pc = "send" /\ kind[r.name] # "directory"
    /\ LET sent == answer.body \o SubSeq(files[r.name].data, Len(answer.body) + 1,
                                         Len(answer.body) + Wanted)
           last == message.content_length <= Buffer
       IN  /\ answer' = [answer EXCEPT !.body = sent]
           /\ Goto(IF last THEN "close" ELSE "send")
    /\ message' = [message EXCEPT !.content_length = IF @ > Buffer THEN @ - Wanted ELSE @]
    /\ UNCHANGED << which, files, errno, conns, broken, running >>

\* read fails, as it does on a directory, or write does; the rounds that are
\* left send what there is.
SendFails ==
    /\ pc = "send"
    /\ message' = [message EXCEPT !.status = 500]
    /\ broken' = TRUE
    /\ Goto("close")
    /\ UNCHANGED << which, files, errno, conns, answer, running >>

\* accept fails.
AcceptFails ==
    /\ pc = "accept" /\ which = "c" /\ conn.id < MaxConn
    /\ message' = [message EXCEPT !.status = 500]
    /\ broken' = TRUE
    /\ UNCHANGED << which, files, errno, pc, conns, answer, running >>

Httpserver1 ==
    \/ ReadSkipped \/ Read \/ ReadNothing \/ Refuse \/ OpenFails \/ OpenForReading
    \/ OpenForWriting \/ PutBody \/ PutFails \/ SendHead \/ SendBody \/ SendFails \/ AcceptFails

-----------------------------------------------------------------------------
\* cpp: the body of main's loop.

\* Without a word the last one, which is shortened, does not exist.
Crash ==
    /\ pc = "read" /\ which = "cpp" /\ conn.req = Nothing
    /\ running' = FALSE
    /\ UNCHANGED << which, files, message, errno, pc, conns, answer, broken >>

\* recv, access and open: anything that is not a GET is a PUT.  access of a
\* file that is not there sets errno, as does an open that fails.
Method(q) == IF q.method = "GET" THEN "GET" ELSE "PUT"
OpenCpp ==
    /\ pc = "read" /\ which = "cpp" /\ conn.req # Nothing
    /\ LET q == [conn.req EXCEPT !.method = Method(conn.req)]
           e == IF leaked = FdLimit THEN "EMFILE" ELSE Errno(q)
           missed == IF q.method = "PUT" /\ files[q.name] = Absent THEN "ENOENT" ELSE errno
       IN  /\ errno' = IF e # "none" THEN e ELSE missed
           /\ files' = IF e = "none" /\ q.method = "PUT" THEN [files EXCEPT ![q.name] = Empty]
                       ELSE files
           /\ message' = [message EXCEPT !.req = q]
           /\ Goto(IF e # "none" \/ kind[q.name] = "short" THEN "refuse" ELSE "serve")
    /\ \E early \in 0 .. Length(conn.req) :
          conn' = [conn EXCEPT !.in = early, !.clean = early = 0]
    /\ UNCHANGED << which, before, answer, broken, running >>

\* The status is that of errno, whichever call has set it.  If the name is all
\* that was wrong the file is open, and stays open.
RefuseCpp ==
    /\ pc = "refuse"
    /\ leaked' = IF leaked < FdLimit /\ Errno(r) = "none" THEN leaked + 1 ELSE leaked
    /\ answer' = [status |-> StatusOf(errno, 400), len |-> 0, body |-> << >>]
    /\ Goto("close")
    /\ UNCHANGED << which, files, message, errno, conns, broken, running >>

\* The header, and byte by byte what can be read.
GetCpp ==
    /\ pc = "serve" /\ r.method = "GET"
    /\ answer' = [status |-> 200, len |-> files[r.name].len, body |-> files[r.name].data]
    /\ errno' = IF kind[r.name] = "directory" THEN "EISDIR" ELSE errno
    /\ Goto("close")
    /\ UNCHANGED << which, files, message, conns, broken, running >>

\* The header, and then all that is received until the client closes.
PutHeadCpp ==
    /\ pc = "serve" /\ r.method = "PUT" /\ answer = NoAnswer
    /\ answer' = [status |-> 201, len |-> 0, body |-> << >>]
    /\ UNCHANGED << which, files, message, errno, pc, conns, broken, running >>
PutCpp ==
    /\ pc = "serve" /\ r.method = "PUT" /\ answer # NoAnswer
    /\ IF conn.in = Length(conn.req)
       THEN Goto("close") /\ UNCHANGED << files, conn >>
       ELSE \E n \in 1 .. Length(conn.req) - conn.in :
              /\ files' = [files EXCEPT ![r.name] =
                              Filled(@.data \o Units(conn.id, conn.in + 1, conn.in + n))]
              /\ conn' = [conn EXCEPT !.in = @ + n]
              /\ UNCHANGED pc
    /\ UNCHANGED << which, message, errno, before, answer, broken, running >>

HttpserverCpp ==
    \/ RefuseCpp
    \/ (Crash \/ OpenCpp \/ GetCpp \/ PutHeadCpp \/ PutCpp) /\ UNCHANGED leaked

-----------------------------------------------------------------------------
Next ==
    /\ running
    /\ \/ (Accept \/ Close \/ Httpserver1) /\ UNCHANGED leaked
       \/ HttpserverCpp

Spec == Init /\ [][Next]_vars

\* Requests of either server that find it in order: no error 500 before, for
\* cpp a name of the right length and a descriptor, and a request at all.
InOrder == /\ conn.req # Nothing /\ ~broken /\ ~conn.spoilt
           /\ which = "cpp" => kind[conn.req.name] # "short"

\* The status a request deserves for itself.
Deserved ==
    LET q == IF which = "cpp" THEN [conn.req EXCEPT !.method = Method(conn.req)] ELSE conn.req
    IN  IF q.method = "BAD" THEN 400
        ELSE IF kind[q.name] = "denied" THEN 403
        ELSE IF kind[q.name] = "orphan" THEN 404
        ELSE IF q.method = "PUT"
        THEN IF kind[q.name] # "directory" THEN 201 ELSE IF which = "c" THEN 0 ELSE 400
        ELSE IF before[q.name] = Absent THEN 404 ELSE 200

\* Whatever the requests before it were, a request suffers from them in one
\* way only: asgn1 once it has failed, and cpp once it has run out of
\* descriptors, refuse it and leave the files alone.  Otherwise it gets the
\* status it deserves, or 500 because the server fails on it, and if it is
\* refused no file has changed.
AnsweredForItself ==
    pc = "close" /\ conn.req # Nothing =>
        IF conn.spoilt
        THEN answer.status = (IF which = "c" THEN 500 ELSE 400) /\ files = before
        ELSE (which = "cpp" => kind[conn.req.name] # "short") =>
             /\ answer.status = Deserved \/ (answer.status = 500 /\ broken)
             /\ answer.status \in {0, 400, 403, 404} => files = before

\* A PUT whose body arrived after its head and in time for the reads has
\* stored exactly that body, and a GET that finds nothing wrong returns the
\* file as it is on disk and announces its length, with any number of buffers.
BodiesWhole ==
    pc = "close" /\ InOrder =>
        /\ conn.clean /\ answer.status = 201 =>
              files[conn.req.name].data = Units(conn.id, 1, Length(conn.req))
        /\ /\ answer.status = 200 /\ conn.req.method = "GET"
           /\ kind[conn.req.name] # "directory"
           => Filled(answer.body) = before[conn.req.name] /\ answer.len = Len(answer.body)
=============================================================================
