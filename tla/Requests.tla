------------------------------ MODULE Requests ------------------------------
(***************************************************************************)
(* What a worker of asgn2/httpserver.c does with a connection:             *)
(* read_http_response, then process_request and construct_http_response    *)
(* under the lock that all workers share, then the log record.  A worker   *)
(* keeps its httpObject from one connection to the next.                   *)
(*                                                                         *)
(* A thread may close or write a descriptor that is closed already and     *)
(* whose number has been given to another file or connection (lines 116,   *)
(* 117 and 242).  The module follows the program up to the first such      *)
(* stroke: its direct effect, that calls of the other thread fail, is one  *)
(* of the outcomes that PutBody and SendBody have anyhow, but when the     *)
(* number is used again after it, any file can be hit.                     *)
(***************************************************************************)
EXTENDS LogFormat, FiniteSets

CONSTANTS
    Worker,         \* the threads
    NoWorker,       \* the lock is free
    File,           \* names of files other than healthcheck
    healthcheck,
    kind,           \* "plain", "denied" (EACCES), "orphan" (in a directory
                    \*   that does not exist) or "directory", of each file
    Request,        \* what clients send, see RequestType
    Nothing,        \* a client that connects and closes
    MaxRequests,    \* bound on the connections
    FdLimit,        \* descriptors that may leak before open fails
    lf              \* log file given (-l)

\* Method "BAD" stands for what the parser answers with 400.  A length is the
\* Content-Length, NoLength if there is none.
NoLength == -99
RequestType == [method : {"GET", "PUT", "HEAD", "BAD"},
                name : File \cup {healthcheck}, len : Nat \cup {NoLength}]

ASSUME RequestAssumption ==
    /\ Request \subseteq RequestType /\ healthcheck \notin File
    /\ Nothing \notin Request /\ NoWorker \notin Worker
    /\ MaxRequests \in Nat /\ FdLimit \in Nat /\ lf \in BOOLEAN
    /\ kind \in [File -> {"plain", "denied", "orphan", "directory"}]

Failing == {400, 403, 404, 500}
Status == {0, 200, 201} \cup Failing

\* A file: the connection whose body it is (0: nobody's; Mixture: bytes that
\* were read and bytes that were in the buffer before) and its length.
Mixture == -1
Absent == [data |-> 0, len |-> -1]
Empty == [data |-> 0, len |-> 0]
Directory == [data |-> Mixture, len |-> 4096]
HcLen == 3      \* length of the two counters
Line == 20      \* length of the first line of a log record

NoConn == [id |-> 0, sent |-> Nothing]
NoLocals == [off |-> 0, total |-> 0, failure |-> 0]

VARIABLES
    files,          \* the content of each file
    hc,             \* the file healthcheck: << >> or << failures, total >>
    hcfd,           \* the worker whose descriptor of healthcheck is in hcfd
    opened,         \* workers whose descriptor of healthcheck is open
    message,        \* per worker: httpObject
    pc,             \* per worker
    todo,           \* per worker: counters still to be read or incremented
    local,          \* per worker: offset and counters read
    lock,           \* the worker that holds the lock
    totalCount, failureCount,
    offset,         \* next free offset of the log
    log,            \* the records written
    leaked,         \* descriptors that will never be closed
    struck,         \* a thread has closed or written a descriptor of another
    conn,           \* per worker: number of its connection, what was sent on it
    begun,          \* connections so far
    answers,        \* responses by status code
    old,            \* content before the PUT that is under way
    got,            \* per worker: length and body of the last GET
    cut             \* the workers whose request came short, or for which a
                    \*   read or a write has failed

server == << files, hc, hcfd, opened, struck, totalCount, failureCount, offset, log,
             leaked, lock >>
hcvars == << hc, hcfd, opened, struck >>
worker == << message, pc, todo, local >>
history == << conn, begun, answers, old, got, cut >>
vars == << server, worker, history >>

\* The stack that holds the httpObjects is taken to be zero.
Init ==
    /\ files \in [File -> {Absent, Directory}]
    /\ \A f \in File : files[f] = Directory <=> kind[f] = "directory"
    /\ hc = << >> /\ hcfd = NoWorker /\ opened = {} /\ struck = FALSE
    /\ message = [w \in Worker |->
                    [req |-> [method |-> "BAD", name |-> healthcheck, len |-> NoLength],
                     status |-> 0, content_length |-> 0, original_length |-> 0]]
    /\ pc = [w \in Worker |-> "idle"]
    /\ todo = [w \in Worker |-> {}]
    /\ local = [w \in Worker |-> NoLocals]
    /\ lock = NoWorker
    /\ totalCount = 0 /\ failureCount = 0 /\ offset = 0 /\ log = {} /\ leaked = 0
    /\ conn = [w \in Worker |-> NoConn]
    /\ begun = 0
    /\ answers = [s \in Status |-> 0]
    /\ old = [w \in Worker |-> Empty]
    /\ got = [w \in Worker |-> << 0, Empty >>]
    /\ cut = {}

Goto(w, l) == pc' = [pc EXCEPT ![w] = l]
Set(w, m) == message' = [message EXCEPT ![w] = m]

\* The dispatcher hands a connection to the worker.
Begin(w) ==
    /\ pc[w] = "idle" /\ begun < MaxRequests
    /\ \E r \in Request \cup {Nothing} :
          conn' = [conn EXCEPT ![w] = [id |-> begun + 1, sent |-> r]]
    /\ begun' = begun + 1
    /\ cut' = cut \ {w}
    /\ Goto(w, "read")
    /\ UNCHANGED << server, message, todo, local, answers, old, got >>

-----------------------------------------------------------------------------
\* read_http_response

\* Status of a request after the checks, 0 if it passes.
ParseStatus(r) ==
    IF r.method = "BAD" THEN 400
    ELSE IF r.name # healthcheck THEN 0
    ELSE IF r.method # "GET" THEN 403
    ELSE IF ~lf THEN 404 ELSE 0

\* A worker that has failed once with 500 does not read any more.
ReadSkipped(w) ==
    /\ pc[w] = "read" /\ message[w].status = 500
    /\ Goto(w, "lock")
    /\ UNCHANGED << server, message, todo, local, history >>

\* recv and the scan of the buffer.  With nothing received the scan changes
\* nothing: the method and the name are those of the request before.
Read(w) ==
    /\ pc[w] = "read" /\ message[w].status # 500
    /\ LET r == IF conn[w].sent # Nothing THEN conn[w].sent
                ELSE [message[w].req EXCEPT !.len = NoLength]
           s == ParseStatus(r)
           parsed == s = 0 /\ r.len # NoLength
       IN  /\ Set(w, [req |-> r, status |-> s,
                      content_length |-> IF parsed THEN r.len ELSE 0,
                      original_length |-> IF parsed THEN r.len
                                          ELSE message[w].original_length])
           /\ Goto(w, IF s = 0 /\ r.name = healthcheck THEN "hcopen" ELSE "lock")
    /\ UNCHANGED << server, todo, local, history >>

\* hcfd = open("healthcheck", O_TRUNC), outside the lock; all workers share
\* hcfd.  If it fails, what is written goes nowhere.
HcOpen(w) ==
    /\ pc[w] = "hcopen"
    /\ IF leaked < FdLimit
       THEN /\ hc' = << >> /\ hcfd' = w /\ opened' = opened \cup {w}
            /\ todo' = [todo EXCEPT ![w] = {"total", "failure"}]
            /\ Goto(w, "hcread")
       ELSE /\ hcfd' = NoWorker /\ UNCHANGED << hc, opened, todo >>
            /\ Goto(w, "hcclose")
    /\ UNCHANGED << files, struck, totalCount, failureCount, offset, log, leaked, lock,
                    message, local, history >>

\* The two counters are read, in any order, outside the lock.
HcRead(w) ==
    /\ pc[w] = "hcread"
    /\ \E x \in todo[w] :
          /\ todo' = [todo EXCEPT ![w] = @ \ {x}]
          /\ local' = [local EXCEPT ![w][x] = IF x = "total" THEN totalCount
                                              ELSE failureCount]
    /\ UNCHANGED << server, message, pc, history >>

\* dprintf to the descriptor that open returned, which -O2 keeps in a register.
\* If another worker has closed it, it fails, or writes to whatever has the
\* number now.
HcWrite(w) ==
    /\ pc[w] = "hcread" /\ todo[w] = {}
    /\ IF w \in opened
       THEN hc' = << local[w].failure, local[w].total >> /\ UNCHANGED struck
       ELSE struck' \in BOOLEAN /\ UNCHANGED hc
    /\ Goto(w, "hcclose")
    /\ UNCHANGED << files, hcfd, opened, totalCount, failureCount, offset, log,
                    leaked, lock, message, todo, local, history >>

\* close(hcfd), which may be the descriptor of another worker by now: then
\* nobody will close this one, and the other will close its own again, or
\* whatever has the number then.
HcClose(w) ==
    /\ pc[w] = "hcclose"
    /\ opened' = opened \ {w, hcfd}
    /\ IF hcfd \in opened \cup {NoWorker} THEN UNCHANGED struck ELSE struck' \in BOOLEAN
    /\ leaked' = leaked + (IF w \in opened /\ hcfd # w THEN 1 ELSE 0)
    /\ Goto(w, "lock")
    /\ UNCHANGED << files, hc, hcfd, totalCount, failureCount, offset, log, lock,
                    message, todo, local, history >>

-----------------------------------------------------------------------------
\* process_request

\* Mutant: the lock is not waited for.
LockBlindly(w) ==
    /\ pc[w] = "lock"
    /\ lock' = w
    /\ Goto(w, "process")
    /\ UNCHANGED << files, hcvars, totalCount, failureCount, offset, log, leaked,
                    message, todo, local, history >>

Lock(w) ==
    /\ pc[w] = "lock" /\ lock = NoWorker
    /\ lock' = w
    /\ Goto(w, "process")
    /\ UNCHANGED << files, hcvars, totalCount, failureCount, offset, log, leaked,
                    message, todo, local, history >>

\* errno of open on the file of a request.
Errno(r) ==
    IF leaked >= FdLimit THEN "EMFILE"
    ELSE IF r.name = healthcheck THEN "none"
    ELSE IF kind[r.name] = "denied" THEN "EACCES"
    ELSE IF r.method = "PUT" THEN
        IF kind[r.name] = "orphan" THEN "ENOENT"
        ELSE IF kind[r.name] = "directory" THEN "EISDIR" ELSE "none"
    ELSE IF files[r.name] = Absent THEN "ENOENT" ELSE "none"

\* The counters that the switch of construct_http_response increments.
Counters(s) ==
    IF s \in Failing THEN {"total", "failure"}
    ELSE IF s = 0 THEN {} ELSE {"total"}

\* process_request returns, and construct_http_response starts.
Respond(w, m) ==
    /\ Set(w, m)
    /\ todo' = [todo EXCEPT ![w] = Counters(m.status)]
    /\ Goto(w, "count")

\* The status was set while reading.
ProcessSkipped(w) ==
    /\ pc[w] = "process" /\ message[w].status \in Failing
    /\ Respond(w, message[w])
    /\ UNCHANGED << server, local, history >>

\* Mutant: the length of an absent file is asked for.
OpenForReadingUnchecked(w) ==
    LET m == message[w]
        size == IF m.req.name # healthcheck THEN files[m.req.name].len
                ELSE IF hc = << >> THEN 0 ELSE HcLen
    IN
    /\ pc[w] = "process" /\ m.status \notin Failing
    /\ m.req.method # "PUT"
    /\ Respond(w, [m EXCEPT !.status = 200, !.content_length = size,
                            !.original_length = size])
    /\ UNCHANGED << server, local, history >>

\* open fails; other errors than these two leave the status at 0.
OpenFails(w) ==
    LET m == message[w] IN
    /\ pc[w] = "process" /\ m.status \notin Failing
    /\ Errno(m.req) # "none"
    /\ Respond(w, [m EXCEPT !.status = IF Errno(m.req) = "EACCES" THEN 403
                                       ELSE IF Errno(m.req) = "ENOENT" THEN 404
                                       ELSE @])
    /\ UNCHANGED << server, local, history >>

\* GET and HEAD: open and fstat.
OpenForReading(w) ==
    LET m == message[w]
        size == IF m.req.name # healthcheck THEN files[m.req.name].len
                ELSE IF hc = << >> THEN 0 ELSE HcLen
    IN
    /\ pc[w] = "process" /\ m.status \notin Failing
    /\ Errno(m.req) = "none" /\ m.req.method # "PUT"
    /\ Respond(w, [m EXCEPT !.status = 200, !.content_length = size,
                            !.original_length = size])
    /\ UNCHANGED << server, local, history >>

\* PUT: open(O_TRUNC).
OpenForWriting(w) ==
    LET m == message[w] IN
    /\ pc[w] = "process" /\ m.status \notin Failing
    /\ Errno(m.req) = "none" /\ m.req.method = "PUT"
    /\ files' = [files EXCEPT ![m.req.name] = Empty]
    /\ old' = [old EXCEPT ![w] = files[m.req.name]]
    /\ Set(w, [m EXCEPT !.status = 201])
    /\ Goto(w, "body")
    /\ UNCHANGED << hcvars, totalCount, failureCount, offset, log, leaked, lock, todo,
                    local, conn, begun, answers, got, cut >>

\* PUT: read from the socket and write content_length bytes of the buffer,
\* however many were read, and close.  A body longer than the buffer takes
\* several rounds: when a write fails, the others leave a shorter file.
PutBody(w) ==
    LET m == message[w]
        n == m.content_length
        Written(d, k) == [files EXCEPT ![m.req.name] = [data |-> d, len |-> k]]
    IN
    /\ pc[w] = "body"
    /\ \E read \in {"all", "some", "error"}, write \in {"done", "error"} :
          /\ n = 0 => read # "some"
          /\ \/ n = 0 /\ files' = files
             \/ n # 0 /\ write = "done"
                /\ files' = Written(IF read = "all" THEN conn[w].id ELSE Mixture, n)
             \/ n # 0 /\ write = "error" /\ files' \in {files, Written(Mixture, n \div 2)}
          /\ Set(w, [m EXCEPT !.content_length = 0,
                       !.status = IF "error" \in {read, write} THEN 500 ELSE @])
          /\ cut' = IF read = "all" /\ write = "done" THEN cut ELSE cut \cup {w}
    /\ old' = [old EXCEPT ![w] = Empty]
    /\ Goto(w, "reclose")
    /\ UNCHANGED << hcvars, totalCount, failureCount, offset, log, leaked, lock,
                    todo, local, conn, begun, answers, got >>

\* PUT: the descriptor is closed again, or whatever has its number by now.
CloseAgain(w) ==
    /\ pc[w] = "reclose"
    /\ struck' \in BOOLEAN
    /\ Respond(w, message[w])
    /\ UNCHANGED << files, hc, hcfd, opened, totalCount, failureCount, offset, log,
                    leaked, lock, local, history >>

-----------------------------------------------------------------------------
\* construct_http_response

\* Mutant: a failure is not counted if it is a 404.
CountSkips404(w) ==
    /\ pc[w] = "count"
    /\ \E x \in todo[w] :
          /\ todo' = [todo EXCEPT ![w] = @ \ {x}]
          /\ totalCount' = totalCount + (IF x = "total" THEN 1 ELSE 0)
          /\ failureCount' = failureCount +
                (IF x = "failure" /\ message[w].status # 404 THEN 1 ELSE 0)
    /\ UNCHANGED << files, hcvars, offset, log, leaked, lock, message, pc, local, history >>

\* totalCount++ and failureCount++, which a healthcheck reads meanwhile.
Count(w) ==
    /\ pc[w] = "count"
    /\ \E x \in todo[w] :
          /\ todo' = [todo EXCEPT ![w] = @ \ {x}]
          /\ totalCount' = totalCount + (IF x = "total" THEN 1 ELSE 0)
          /\ failureCount' = failureCount + (IF x = "failure" THEN 1 ELSE 0)
    /\ UNCHANGED << files, hcvars, offset, log, leaked, lock, message, pc, local, history >>

\* The status line and Content-Length are sent.
SendHeader(w) ==
    LET m == message[w] IN
    /\ pc[w] = "count" /\ todo[w] = {}
    /\ answers' = [answers EXCEPT ![m.status] = @ + 1]
    /\ Goto(w, IF m.status \notin Failing /\ m.req.method = "GET" THEN "send" ELSE "unlock")
    /\ UNCHANGED << server, message, todo, local, conn, begun, old, got, cut >>

\* The file is opened again, read and sent.  When open or read fails (on a
\* directory it does), what is sent instead, content_length bytes, is zeros or
\* what the buffer held; when write fails, the client does not get it all.
SendBody(w) ==
    LET m == message[w]
        n == m.req.name
        Send(v) == IF n = healthcheck THEN UNCHANGED got
                   ELSE got' = [got EXCEPT ![w] = << m.content_length, v >>]
    IN
    /\ pc[w] = "send"
    /\ \/ /\ Errno(m.req) = "none" /\ (n # healthcheck => kind[n] # "directory")
          /\ Send(files[n])
          /\ UNCHANGED << message, cut >>
       \/ /\ Set(w, [m EXCEPT !.status = 500])
          /\ cut' = cut \cup {w}
          /\ UNCHANGED got \/ Send([data |-> Mixture, len |-> m.content_length])
    /\ Goto(w, "unlock")
    /\ UNCHANGED << server, todo, local, conn, begun, answers, old >>

\* Mutant: an early return for errors forgets the lock.
UnlockOnSuccess(w) ==
    /\ pc[w] = "unlock"
    /\ lock' = IF message[w].status \in Failing THEN lock ELSE NoWorker
    /\ Goto(w, IF lf THEN "reserve" ELSE "close")
    /\ UNCHANGED << files, hcvars, totalCount, failureCount, offset, log, leaked,
                    message, todo, local, history >>

Unlock(w) ==
    /\ pc[w] = "unlock"
    /\ lock' = NoWorker
    /\ Goto(w, IF lf THEN "reserve" ELSE "close")
    /\ UNCHANGED << files, hcvars, totalCount, failureCount, offset, log, leaked,
                    message, todo, local, history >>

-----------------------------------------------------------------------------
\* The log record of handle_task

Succeeded(m) == m.status \in {200, 201}

\* Bytes of the log that the record of a message reserves, and that it has.
RecordExtent(m) == IF Succeeded(m) THEN ReservedLen(Line, m.original_length) ELSE Line
RecordLen(m) ==
    IF Succeeded(m) THEN WrittenLen(Line, m.req.method, m.original_length) ELSE Line

\* Mutant: the offset is read without the lock.
ReserveUnlocked(w) ==
    /\ pc[w] = "reserve"
    /\ local' = [local EXCEPT ![w].off = offset]
    /\ Goto(w, "advance")
    /\ UNCHANGED << server, message, todo, history >>

\* The lock is taken again and the offset read.
Reserve(w) ==
    /\ pc[w] = "reserve" /\ lock = NoWorker
    /\ lock' = w
    /\ local' = [local EXCEPT ![w].off = offset]
    /\ Goto(w, "advance")
    /\ UNCHANGED << files, hcvars, totalCount, failureCount, offset, log, leaked,
                    message, todo, history >>

\* The offset is advanced by the extent of the record, and the lock released.
Advance(w) ==
    LET m == message[w] IN
    /\ pc[w] = "advance"
    /\ offset' = offset + RecordExtent(m)
    /\ lock' = NoWorker
    /\ Goto(w, IF Succeeded(m) /\ m.req.method = "PUT" THEN "dump" ELSE "write")
    /\ UNCHANGED << files, hcvars, totalCount, failureCount, log, leaked, message,
                    todo, local, history >>

\* PUT: the file is opened again to dump it into the record, without the
\* lock, and never closed.
Dump(w) ==
    /\ pc[w] = "dump"
    /\ leaked' = IF leaked < FdLimit THEN leaked + 1 ELSE leaked
    /\ Goto(w, "write")
    /\ UNCHANGED << files, hcvars, totalCount, failureCount, offset, log, lock,
                    message, todo, local, history >>

\* pwrite at the reserved offset.
WriteRecord(w) ==
    /\ pc[w] = "write"
    /\ log' = log \cup
          {[id |-> conn[w].id, off |-> local[w].off, len |-> RecordLen(message[w])]}
    /\ Goto(w, "close")
    /\ UNCHANGED << files, hcvars, totalCount, failureCount, offset, leaked, lock,
                    message, todo, local, history >>

\* close(client_sockd).
Close(w) ==
    /\ pc[w] = "close"
    /\ Goto(w, "idle")
    /\ local' = [local EXCEPT ![w] = NoLocals]
    /\ conn' = [conn EXCEPT ![w] = NoConn]
    /\ UNCHANGED << server, message, todo, begun, answers, old, got, cut >>

-----------------------------------------------------------------------------
Step(w) ==
    \/ ReadSkipped(w) \/ Read(w) \/ HcOpen(w) \/ HcRead(w) \/ HcWrite(w)
    \/ HcClose(w)
    \/ Lock(w) \/ ProcessSkipped(w) \/ OpenFails(w) \/ OpenForReading(w)
    \/ OpenForWriting(w) \/ CloseAgain(w)
    \/ Count(w) \/ SendHeader(w) \/ SendBody(w) \/ Unlock(w)
    \/ Reserve(w) \/ Advance(w) \/ Dump(w) \/ WriteRecord(w) \/ Close(w)

\* A step of worker w, as long as no stray close or write has hit anything.
WorkerStep(w) == ~struck /\ Step(w)
ClientStep(w) == ~struck /\ PutBody(w)

Next == \E w \in Worker : ~struck /\ (Begin(w) \/ Step(w) \/ PutBody(w))

Spec == Init /\ [][Next]_vars

\* Threads run; a client may stop in the middle of a PUT.
FairSpec == Spec /\ \A w \in Worker : WF_vars(WorkerStep(w))

\* And clients send their bodies or close the connection.
FairSpecBodies == FairSpec /\ \A w \in Worker : WF_vars(ClientStep(w))

-----------------------------------------------------------------------------
Content == [data : Mixture .. MaxRequests,
            len : {-1, 0, 4096} \cup {r.len : r \in Request}
                    \cup {r.len \div 2 : r \in Request}]

FileType == [data : Int, len : Nat] \cup {Absent}
HcType == {<< >>} \cup (Nat \X Nat)
MessageType == [req : RequestType, status : Status,
                content_length : Nat, original_length : Nat]
LocalType == [off : Nat, total : Nat, failure : Nat]
Label == {"idle", "read", "hcopen", "hcread", "hcclose", "lock", "process", "body",
          "reclose", "count",
          "send", "unlock", "reserve", "advance", "dump", "write", "close"}

\* Every variable has its type; a file that is not absent has a length.
TypeOK ==
    /\ files \in [File -> FileType]
    /\ hc \in HcType /\ hcfd \in Worker \cup {NoWorker} /\ opened \subseteq Worker
    /\ struck \in BOOLEAN /\ cut \subseteq Worker
    /\ message \in [Worker -> MessageType]
    /\ pc \in [Worker -> Label]
    /\ todo \in [Worker -> SUBSET {"total", "failure"}]
    /\ local \in [Worker -> LocalType]
    /\ lock \in Worker \cup {NoWorker}
    /\ {totalCount, failureCount, offset, leaked, begun} \subseteq Nat
    /\ log \subseteq [id : Nat, off : Nat, len : Nat]
    /\ conn \in [Worker -> [id : Nat, sent : Request \cup {Nothing}]]
    /\ answers \in [Status -> Nat]

\* Records of different connections never overlap in the log, although they
\* are written without the lock and in any order.
LogDisjoint ==
    \A a, b \in log :
        a.id # b.id => a.off + a.len <= b.off \/ b.off + b.len <= a.off

\* Whenever no response is under construction the counters agree with the
\* responses sent, errors found at any stage included.
CountersMatch ==
    lock = NoWorker =>
        /\ totalCount = answers[200] + answers[201] + answers[400] + answers[403]
                           + answers[404] + answers[500]
        /\ failureCount = answers[400] + answers[403] + answers[404] + answers[500]

\* The files as a client sees them: a PUT takes effect when its body has been
\* written.
Store ==
    [f \in File |->
        IF \E w \in Worker : pc[w] = "body" /\ message[w].req.name = f
        THEN old[CHOOSE w \in Worker : pc[w] = "body" /\ message[w].req.name = f]
        ELSE files[f]]

\* The request of a worker.  A client that sends none has the one before
\* repeated, without a body.
Asked(w) == IF conn[w].sent # Nothing THEN conn[w].sent ELSE message[w].req
AskedBody(w) ==
    IF Asked(w).len \in {0, NoLength} THEN Empty
    ELSE [data |-> conn[w].id, len |-> Asked(w).len]

Inputs == [w \in Worker |-> [method |-> Asked(w).method, name |-> Asked(w).name,
                             body |-> AskedBody(w)]]

FS == INSTANCE FileStore WITH store <- Store, asked <- Inputs

\* A PUT whose body arrives and is written replaces the file it names by that
\* body and no other file by anything, and a GET returns the file it names as a
\* whole, with the length that the header announced; if a body comes short or
\* a call fails, the file is lost, or zeros are sent under the announced length.
\* So it is until a stray close or write (lines 116, 117, 242) has hit something.
ImplementsFileStore == FS!Spec

\* If clients send their bodies, every connection is answered and closed, unless
\* a descriptor is closed under its owner.
EveryConnectionClosed == \A w \in Worker : pc[w] = "read" ~> (pc[w] = "idle" \/ struck)

\* "Want to process the message we just recieved": a file is only truncated
\* for a client that asked for it.
TruncatesOnRequest ==
    \A w \in Worker : pc[w] = "body" =>
        conn[w].sent # Nothing /\ conn[w].sent.method = "PUT"
=============================================================================
