--------------------------- MODULE RequestsProofs ---------------------------
(***************************************************************************)
(* The shared log, the counters and the files of the server, for any       *)
(* number of workers and any requests.                                     *)
(***************************************************************************)
EXTENDS Requests, FiniteSetTheorems, SequenceTheorems, TLAPS

-----------------------------------------------------------------------------
(* Facts about numbers. *)

\* Quotient and remainder of a division by twenty.
LEMMA DivTwenty ==
    ASSUME NEW n \in Nat
    PROVE  /\ n \div 20 \in Nat /\ n % 20 \in 0 .. 19
           /\ n = 20 * (n \div 20) + (n % 20)
OBVIOUS

\* The number of lines of the dump.
LEMMA LinesOf ==
    ASSUME NEW n \in Nat
    PROVE  /\ (n + 19) \div 20 \in Nat
           /\ (n + 19) \div 20 = n \div 20 + (IF n % 20 = 0 THEN 0 ELSE 1)
<1> DEFINE q == n \div 20
           r == n % 20
           p == (n + 19) \div 20
           s == (n + 19) % 20
<1>1. q \in Nat /\ r \in 0 .. 19 /\ n = 20 * q + r
  BY DivTwenty
<1>2. p \in Nat /\ s \in 0 .. 19 /\ n + 19 = 20 * p + s
  <2>1. n + 19 \in Nat
    OBVIOUS
  <2> QED BY <2>1, DivTwenty
<1> HIDE DEF q, r, p, s
<1>3. p = q + (IF r = 0 THEN 0 ELSE 1)
  BY <1>1, <1>2
<1> QED BY <1>2, <1>3 DEF q, r, p

-----------------------------------------------------------------------------
\* What is written is at most what is reserved.
LEMMA WrittenFits ==
    ASSUME NEW n \in Nat, NEW k \in Nat, NEW m
    PROVE  /\ WrittenLen(k, m, n) \in Nat
           /\ WrittenLen(k, m, n) <= ReservedLen(k, n)
<1> DEFINE q == n \div 20
           r == n % 20
           p == (n + 19) \div 20
<1>1. q \in Nat /\ r \in 0 .. 19 /\ n = 20 * q + r
  BY DivTwenty
<1>2. p \in Nat /\ p = q + (IF r = 0 THEN 0 ELSE 1)
  BY LinesOf
<1>3. ReservedLen(k, n) = k + q * 69 + r * 3 + 18
  BY DEF ReservedLen
<1>4. WrittenLen(k, m, n) = k + 9 + (IF m = "HEAD" THEN 0 ELSE
                               IF n = 0 THEN 1 ELSE 3 * n + 9 * p)
  BY DEF WrittenLen
<1> HIDE DEF q, r, p
<1> QED BY <1>1, <1>2, <1>3, <1>4

\* The parts of handle_task between pthread_mutex_lock and _unlock.
Critical == {"process", "body", "reclose", "count", "send", "unlock", "advance"}

\* The lock has one owner.
Mutex == \A w \in Worker : pc[w] \in Critical => lock = w

\* A PUT that gets as far as a file has the name of one.
PutsFiles ==
    \A w \in Worker :
        /\ message[w].req.method = "PUT" /\ message[w].req.name = healthcheck
              => message[w].status \in Failing
        /\ pc[w] = "body" => message[w].req.method = "PUT" /\ message[w].status = 201
        /\ pc[w] = "reclose" => message[w].req.method = "PUT"
        /\ pc[w] = "dump" => message[w].req.method = "PUT" /\ Succeeded(message[w])

\* Two extents of the log do not overlap.
Apart(o, n, p, m) == o + n <= p \/ p + m <= o

\* Worker w has reserved an extent and not written it yet.
Writing(w) == pc[w] \in {"dump", "write"}

\* Everything reserved or written is below the offset, and apart.
Extents ==
    /\ \A w \in Worker : pc[w] = "advance" => local[w].off = offset
    /\ \A w \in Worker : Writing(w) => local[w].off + RecordLen(message[w]) <= offset
    /\ \A a \in log : a.off + a.len <= offset
    /\ \A v, w \in Worker : v # w /\ Writing(v) /\ Writing(w) =>
          Apart(local[v].off, RecordLen(message[v]), local[w].off, RecordLen(message[w]))
    /\ \A w \in Worker, a \in log : Writing(w) =>
          Apart(local[w].off, RecordLen(message[w]), a.off, a.len)
    /\ LogDisjoint

\* Responses that the counters have to agree with.
Known == answers[200] + answers[201] + answers[400] + answers[403] + answers[404]
            + answers[500]
Failures == answers[400] + answers[403] + answers[404] + answers[500]

\* 1 if the worker has already counted the response it is going to send.
Ahead(w, x) == IF x \in Counters(message[w].status) \ todo[w] THEN 1 ELSE 0

\* The counters, while a worker is between counting and sending.
Counting ==
    /\ (\A w \in Worker : pc[w] # "count")
          => totalCount = Known /\ failureCount = Failures
    /\ \A w \in Worker : pc[w] = "count" =>
          /\ totalCount = Known + Ahead(w, "total")
          /\ failureCount = Failures + Ahead(w, "failure")
          /\ todo[w] \subseteq Counters(message[w].status)

IInv == TypeOK /\ Mutex /\ PutsFiles /\ Extents /\ Counting

\* What a worker writes to the log fits into what it has reserved.
LEMMA RecordFacts ==
    ASSUME NEW m, m.original_length \in Nat
    PROVE  /\ RecordLen(m) \in Nat /\ RecordExtent(m) \in Nat
           /\ RecordLen(m) <= RecordExtent(m)
<1>1. Line \in Nat
  BY DEF Line
<1>2. /\ WrittenLen(Line, m.req.method, m.original_length) \in Nat
      /\ WrittenLen(Line, m.req.method, m.original_length)
            <= ReservedLen(Line, m.original_length)
  BY <1>1, WrittenFits
<1>3. ReservedLen(Line, m.original_length) \in Int
  BY <1>1 DEF ReservedLen
<1>4. ReservedLen(Line, m.original_length) \in Nat
  BY <1>2, <1>3
<1> QED BY <1>1, <1>2, <1>4 DEF RecordLen, RecordExtent

\* A step of worker w leaves the locals of the others alone.
Others(w) ==
    \A v \in Worker : v # w =>
        /\ pc'[v] = pc[v] /\ message'[v] = message[v]
        /\ todo'[v] = todo[v] /\ local'[v] = local[v]

\* A step of worker w.
WStep(w) == Begin(w) \/ Step(w) \/ PutBody(w)

\* A worker only changes its own part of the four variables.
LEMMA StepKeepsOthers ==
    ASSUME TypeOK, NEW w \in Worker, WStep(w) PROVE Others(w)
<1>1. CASE Begin(w)
  BY <1>1 DEF Begin, Goto, server, TypeOK, Others
<1>2. CASE ReadSkipped(w)
  BY <1>2 DEF ReadSkipped, Goto, server, history, TypeOK, Others
<1>3. CASE Read(w)
  BY <1>3 DEF Read, Goto, Set, ParseStatus, server, history, TypeOK, Others
<1>4. CASE HcOpen(w)
  BY <1>4 DEF HcOpen, Goto, history, TypeOK, Others
<1>5. CASE HcRead(w)
  BY <1>5 DEF HcRead, server, history, TypeOK, Others
<1>6. CASE HcWrite(w)
  BY <1>6 DEF HcWrite, Goto, history, TypeOK, Others
<1>7. CASE HcClose(w)
  BY <1>7 DEF HcClose, Goto, history, TypeOK, Others
<1>8. CASE Lock(w)
  BY <1>8 DEF Lock, Goto, history, hcvars, TypeOK, Others
<1>9. CASE ProcessSkipped(w)
  BY <1>9 DEF ProcessSkipped, Goto, Respond, Set, server, history, TypeOK, Others
<1>10. CASE OpenFails(w)
  BY <1>10 DEF OpenFails, Goto, Respond, Set, server, history, TypeOK, Others
<1>11. CASE OpenForReading(w)
  BY <1>11 DEF OpenForReading, Goto, Respond, Set, server, history, TypeOK, Others
<1>12. CASE OpenForWriting(w)
  BY <1>12 DEF OpenForWriting, Goto, Set, hcvars, TypeOK, Others
<1>13. CASE PutBody(w)
  BY <1>13 DEF PutBody, Goto, Set, hcvars, TypeOK, Others
<1>14. CASE Count(w)
  BY <1>14 DEF Count, history, hcvars, TypeOK, Others
<1>15. CASE SendHeader(w)
  BY <1>15 DEF SendHeader, Goto, server, TypeOK, Others
<1>16. CASE SendBody(w)
  BY <1>16 DEF SendBody, Goto, Set, server, TypeOK, Others
<1>17. CASE Unlock(w)
  BY <1>17 DEF Unlock, Goto, history, hcvars, TypeOK, Others
<1>18. CASE Reserve(w)
  BY <1>18 DEF Reserve, Goto, history, hcvars, TypeOK, Others
<1>19. CASE Advance(w)
  BY <1>19 DEF Advance, Goto, history, hcvars, TypeOK, Others
<1>20. CASE Dump(w)
  BY <1>20 DEF Dump, Goto, history, hcvars, TypeOK, Others
<1>21. CASE WriteRecord(w)
  BY <1>21 DEF WriteRecord, Goto, history, hcvars, TypeOK, Others
<1>22. CASE Close(w)
  BY <1>22 DEF Close, Goto, server, TypeOK, Others
<1>23. CASE CloseAgain(w)
  BY <1>23 DEF CloseAgain, Goto, Respond, Set, history, TypeOK, Others
<1> QED BY <1>1, <1>2, <1>3, <1>4, <1>5, <1>6, <1>7, <1>8, <1>9, <1>10, <1>11, <1>12,
   <1>13, <1>14, <1>15, <1>16, <1>17, <1>18, <1>19, <1>20, <1>21, <1>22, <1>23 DEF WStep,
   Step

\* Types are kept.
LEMMA StepKeepsType ==
    ASSUME TypeOK, PutsFiles, NEW w \in Worker, WStep(w) PROVE TypeOK'
<1>1. CASE Begin(w)
  <2>1. pc' \in [Worker -> Label]
    BY <1>1 DEF TypeOK, Begin, Goto, Label
  <2>2. conn' \in [Worker -> [id : Nat, sent : Request \cup {Nothing}]]
    BY <1>1 DEF TypeOK, Begin
  <2>3. {totalCount', failureCount', offset', leaked', begun'} \subseteq Nat
    BY <1>1 DEF TypeOK, Begin, server
  <2> QED BY <1>1, <2>1, <2>2, <2>3 DEF TypeOK, Begin, Goto, server
<1>2. CASE ReadSkipped(w)
  <2>1. pc' \in [Worker -> Label]
    BY <1>2 DEF TypeOK, ReadSkipped, Goto, Label
  <2> QED BY <1>2, <2>1 DEF TypeOK, ReadSkipped, Goto, server, history
<1>3. CASE Read(w)
  <2>1. pc' \in [Worker -> Label]
    BY <1>3 DEF TypeOK, Read, Goto, Label
  <2>2. message' \in [Worker -> MessageType]
    <3> DEFINE r == IF conn[w].sent # Nothing THEN conn[w].sent
                    ELSE [message[w].req EXCEPT !.len = NoLength]
               s == ParseStatus(r)
               parsed == s = 0 /\ r.len # NoLength
               m == [req |-> r, status |-> s,
                     content_length |-> IF parsed THEN r.len ELSE 0,
                     original_length |-> IF parsed THEN r.len
                                         ELSE message[w].original_length]
    <3>1. message' = [message EXCEPT ![w] = m]
      BY <1>3 DEF Read, Set
    <3>2. message[w] \in MessageType /\ conn[w].sent \in Request \cup {Nothing}
      BY DEF TypeOK
    <3>3. r \in RequestType
      BY <3>2, RequestAssumption DEF MessageType, RequestType
    <3>4. s \in Status
      BY DEF ParseStatus, Status, Failing
    <3> HIDE DEF r, s
    <3>5. r.len # NoLength => r.len \in Nat
      BY <3>3 DEF RequestType
    <3>6. m \in MessageType
      BY <3>2, <3>3, <3>4, <3>5 DEF MessageType
    <3> HIDE DEF m
    <3> QED BY <3>1, <3>6 DEF TypeOK
  <2> QED BY <1>3, <2>1, <2>2 DEF TypeOK, Read, Goto, Set, ParseStatus, server, history
<1>4. CASE HcOpen(w)
  <2>1. pc' \in [Worker -> Label]
    <3>1. Goto(w, "hcread") \/ Goto(w, "hcclose")
      BY <1>4 DEF HcOpen
    <3> QED BY <3>1 DEF TypeOK, Goto, Label
  <2>2. todo' \in [Worker -> SUBSET {"total", "failure"}]
    <3>1. todo' = todo \/ todo' = [todo EXCEPT ![w] = {"total", "failure"}]
      BY <1>4 DEF HcOpen
    <3> QED BY <3>1 DEF TypeOK
  <2>3. hc' \in HcType /\ hcfd' \in Worker \cup {NoWorker} /\ opened' \subseteq Worker
    BY <1>4 DEF TypeOK, HcOpen, HcType
  <2>4. UNCHANGED << files, struck, totalCount, failureCount, offset, log, leaked >>
        /\ UNCHANGED << lock, message, local, conn, begun, answers, cut >>
    BY <1>4 DEF HcOpen, history
  <2> QED BY Zenon, <2>1, <2>2, <2>3, <2>4 DEF TypeOK
<1>5. CASE HcRead(w)
  <2>1. todo' \in [Worker -> SUBSET {"total", "failure"}]
    BY <1>5 DEF TypeOK, HcRead
  <2>2. local' \in [Worker -> LocalType]
    <3>1. PICK x \in todo[w] :
             local' = [local EXCEPT ![w][x] = IF x = "total" THEN totalCount
                                              ELSE failureCount]
      BY <1>5 DEF HcRead
    <3>2. local[w] \in LocalType /\ totalCount \in Nat /\ failureCount \in Nat
      BY DEF TypeOK
    <3>3. CASE x = "total"
      <4>1. [local[w] EXCEPT !.total = totalCount] \in LocalType
        BY <3>2 DEF LocalType
      <4>2. local' = [local EXCEPT ![w] = [local[w] EXCEPT !.total = totalCount]]
        BY <3>1, <3>3
      <4> QED BY <4>1, <4>2 DEF TypeOK
    <3>4. CASE x = "failure"
      <4>1. [local[w] EXCEPT !.failure = failureCount] \in LocalType
        BY <3>2 DEF LocalType
      <4>2. local' = [local EXCEPT ![w] = [local[w] EXCEPT !.failure = failureCount]]
        BY <3>1, <3>4
      <4> QED BY <4>1, <4>2 DEF TypeOK
    <3> QED BY <3>1, <3>3, <3>4 DEF TypeOK
  <2> QED BY <1>5, <2>1, <2>2 DEF TypeOK, HcRead, server, history
<1>6. CASE HcWrite(w)
  <2>1. pc' \in [Worker -> Label]
    BY <1>6 DEF TypeOK, HcWrite, Goto, Label
  <2>2. hc' \in HcType
    BY <1>6 DEF TypeOK, HcWrite, HcType, LocalType
  <2> QED BY <1>6, <2>1, <2>2 DEF TypeOK, HcWrite, Goto, history
<1>7. CASE HcClose(w)
  <2>1. pc' \in [Worker -> Label]
    BY <1>7 DEF TypeOK, HcClose, Goto, Label
  <2>2. {totalCount', failureCount', offset', leaked', begun'} \subseteq Nat
    BY <1>7 DEF TypeOK, HcClose, history
  <2> QED BY <1>7, <2>1, <2>2 DEF TypeOK, HcClose, Goto, history
<1>8. CASE Lock(w)
  <2>1. pc' \in [Worker -> Label]
    BY <1>8 DEF TypeOK, Lock, Goto, Label
  <2>2. lock' \in Worker \cup {NoWorker}
    BY <1>8 DEF TypeOK, Lock
  <2> QED BY <1>8, <2>1, <2>2 DEF TypeOK, Lock, Goto, history, hcvars
<1>9. CASE ProcessSkipped(w)
  <2>1. pc' \in [Worker -> Label]
    BY <1>9 DEF TypeOK, ProcessSkipped, Respond, Goto, Label
  <2>2. todo' \in [Worker -> SUBSET {"total", "failure"}]
    BY <1>9 DEF TypeOK, ProcessSkipped, Respond, Counters
  <2>3. message' \in [Worker -> MessageType]
    BY <1>9 DEF TypeOK, ProcessSkipped, Respond, Set
  <2> QED BY <1>9, <2>1, <2>2, <2>3 DEF TypeOK, ProcessSkipped, Goto, Respond, Set,
     server, history
<1>10. CASE OpenFails(w)
  <2>1. pc' \in [Worker -> Label]
    BY <1>10 DEF TypeOK, OpenFails, Respond, Goto, Label
  <2>2. todo' \in [Worker -> SUBSET {"total", "failure"}]
    BY <1>10 DEF TypeOK, OpenFails, Respond, Counters
  <2>3. message' \in [Worker -> MessageType]
    <3> DEFINE m == message[w]
               st == IF Errno(m.req) = "EACCES" THEN 403
                     ELSE IF Errno(m.req) = "ENOENT" THEN 404 ELSE m.status
    <3>1. m \in MessageType
      BY DEF TypeOK
    <3>2. st \in Status
      BY ONLY <3>1 DEF MessageType, Status, Failing
    <3>3. message' = [message EXCEPT ![w] = [m EXCEPT !.status = st]]
      BY <1>10 DEF OpenFails, Respond, Set
    <3> HIDE DEF m, st
    <3>4. [m EXCEPT !.status = st] \in MessageType
      BY ONLY <3>1, <3>2 DEF MessageType
    <3> QED BY <3>3, <3>4 DEF TypeOK
  <2> QED BY <1>10, <2>1, <2>2, <2>3 DEF TypeOK, OpenFails, Goto, Respond, Set,
     server, history
<1>11. CASE OpenForReading(w)
  <2>0. (IF message[w].req.name # healthcheck THEN files[message[w].req.name].len
         ELSE IF hc = << >> THEN 0 ELSE HcLen) \in Nat
    <3>1. CASE message[w].req.name = healthcheck
      BY <3>1 DEF HcLen
    <3>2. CASE message[w].req.name # healthcheck
      <4>1. message[w].req.name \in File
        BY <3>2 DEF TypeOK, MessageType, RequestType
      <4>2. files[message[w].req.name] # Absent
        BY <1>11, <3>2 DEF OpenForReading, Errno
      <4> QED BY <3>2, <4>1, <4>2 DEF TypeOK, FileType
    <3> QED BY <3>1, <3>2
  <2>1. pc' \in [Worker -> Label]
    BY <1>11 DEF TypeOK, OpenForReading, Respond, Goto, Label
  <2>2. todo' \in [Worker -> SUBSET {"total", "failure"}]
    BY <1>11 DEF TypeOK, OpenForReading, Respond, Counters
  <2>3. message' \in [Worker -> MessageType]
    <3> DEFINE size == IF message[w].req.name # healthcheck
                       THEN files[message[w].req.name].len
                       ELSE IF hc = << >> THEN 0 ELSE HcLen
               m == [message[w] EXCEPT !.status = 200, !.content_length = size,
                                       !.original_length = size]
    <3>1. message' = [message EXCEPT ![w] = m]
      BY <1>11 DEF OpenForReading, Respond, Set
    <3>2. size \in Nat
      BY <2>0
    <3>3. message[w] \in MessageType
      BY DEF TypeOK
    <3> HIDE DEF size
    <3>4. m \in MessageType
      BY <3>2, <3>3 DEF MessageType, Status
    <3> HIDE DEF m
    <3> QED BY <3>1, <3>4 DEF TypeOK
  <2> QED BY <1>11, <2>1, <2>2, <2>3 DEF TypeOK, OpenForReading, Goto, Respond, Set,
     server, history
<1>12. CASE OpenForWriting(w)
  <2>1. pc' \in [Worker -> Label]
    BY <1>12 DEF TypeOK, OpenForWriting, Goto, Label
  <2>2. files' \in [File -> FileType]
    <3>1. Empty \in FileType
      BY DEF Empty, FileType
    <3> QED BY <1>12, <3>1 DEF TypeOK, OpenForWriting
  <2>3. message' \in [Worker -> MessageType]
    <3>1. message[w] \in MessageType
      BY DEF TypeOK
    <3>2. [message[w] EXCEPT !.status = 201] \in MessageType
      BY <3>1 DEF MessageType, Status
    <3> QED BY <1>12, <3>2 DEF TypeOK, OpenForWriting, Set
  <2> QED BY <1>12, <2>1, <2>2, <2>3 DEF TypeOK, OpenForWriting, Goto, Set, hcvars
<1>13. CASE PutBody(w)
  <2>0. conn[w].id \in Int /\ message[w].content_length \in Nat
    BY DEF TypeOK, MessageType
  <2>1. pc' \in [Worker -> Label]
    BY <1>13 DEF TypeOK, PutBody, Goto, Label
  <2>2. cut' \subseteq Worker
    BY <1>13 DEF TypeOK, PutBody
  <2>3. message' \in [Worker -> MessageType]
    <3> DEFINE m == [message[w] EXCEPT !.content_length = 0]
               e == [message[w] EXCEPT !.content_length = 0, !.status = 500]
    <3>1. message[w] \in MessageType
      BY DEF TypeOK
    <3>2. m \in MessageType /\ e \in MessageType
      <4>1. m \in MessageType
        BY <3>1 DEF MessageType
      <4>2. 500 \in Status
        BY DEF Status, Failing
      <4>3. e \in MessageType
        BY <3>1, <4>2, ZenonT(60) DEF MessageType
      <4> QED BY <4>1, <4>3
    <3>3. \/ message' = [message EXCEPT ![w] = e]
          \/ message' = [message EXCEPT ![w] = m]
      <4>1. PICK read \in {"all", "some", "error"}, write \in {"done", "error"} :
               message' = [message EXCEPT ![w] =
                   [message[w] EXCEPT !.content_length = 0,
                      !.status = IF "error" \in {read, write} THEN 500 ELSE @]]
        BY <1>13 DEF PutBody, Set
      <4>2. CASE "error" \in {read, write}
        BY <4>1, <4>2
      <4>3. CASE "error" \notin {read, write}
        <5>1. message' = [message EXCEPT ![w] =
                [message[w] EXCEPT !.content_length = 0, !.status = message[w].status]]
          BY <4>1, <4>3
        <5>2. [message[w] EXCEPT !.content_length = 0, !.status = message[w].status] = m
          BY <3>1 DEF MessageType
        <5> QED BY <5>1, <5>2
      <4> QED BY <4>2, <4>3
    <3> HIDE DEF m, e
    <3> QED BY <3>2, <3>3 DEF TypeOK
  <2>4. files' \in [File -> FileType]
    <3> DEFINE v(d, k) == [data |-> d, len |-> k]
               n == message[w].content_length
    <3>1. v(conn[w].id, n) \in FileType /\ v(Mixture, n) \in FileType
          /\ v(Mixture, n \div 2) \in FileType
      <4>1. n \in Nat /\ n \div 2 \in Nat
        BY <2>0
      <4> HIDE DEF n
      <4> QED BY <2>0, <4>1 DEF FileType, Mixture
    <3>2. \/ files' = files
          \/ files' = [files EXCEPT ![message[w].req.name] = v(conn[w].id, n)]
          \/ files' = [files EXCEPT ![message[w].req.name] = v(Mixture, n)]
          \/ files' = [files EXCEPT ![message[w].req.name] = v(Mixture, n \div 2)]
      BY <1>13 DEF PutBody
    <3> HIDE DEF v, n
    <3> QED BY <3>1, <3>2 DEF TypeOK
  <2>5. UNCHANGED << hc, hcfd, opened, struck, totalCount, failureCount, offset, log >>
        /\ UNCHANGED << leaked, lock, todo, local, conn, begun, answers >>
    BY <1>13 DEF PutBody, hcvars
  <2> QED BY Zenon, <2>1, <2>2, <2>3, <2>4, <2>5 DEF TypeOK
<1>14. CASE Count(w)
  <2>1. todo' \in [Worker -> SUBSET {"total", "failure"}]
    BY <1>14 DEF TypeOK, Count
  <2>2. {totalCount', failureCount', offset', leaked', begun'} \subseteq Nat
    BY <1>14 DEF TypeOK, Count, history
  <2> QED BY <1>14, <2>1, <2>2 DEF TypeOK, Count, history, hcvars
<1>15. CASE SendHeader(w)
  <2>1. pc' \in [Worker -> Label]
    BY <1>15 DEF TypeOK, SendHeader, Goto, Label
  <2>2. answers' \in [Status -> Nat]
    BY <1>15 DEF TypeOK, SendHeader, MessageType
  <2> QED BY <1>15, <2>1, <2>2 DEF TypeOK, SendHeader, Goto, server
<1>16. CASE SendBody(w)
  <2>1. pc' \in [Worker -> Label]
    BY <1>16 DEF TypeOK, SendBody, Goto, Label
  <2>2. message' \in [Worker -> MessageType]
    <3> DEFINE m == message[w]
    <3>1. m \in MessageType /\ message \in [Worker -> MessageType]
      BY DEF TypeOK
    <3>2. message' = message \/ message' = [message EXCEPT ![w] = [m EXCEPT !.status = 500]]
      BY <1>16 DEF SendBody, Set
    <3> HIDE DEF m
    <3>3. [m EXCEPT !.status = 500] \in MessageType
      BY ONLY <3>1 DEF MessageType, Status, Failing
    <3> QED BY ONLY <3>1, <3>2, <3>3
  <2> QED BY <1>16, <2>1, <2>2 DEF TypeOK, SendBody, Goto, Set, server
<1>17. CASE Unlock(w)
  <2>1. pc' \in [Worker -> Label]
    BY <1>17 DEF TypeOK, Unlock, Goto, Label
  <2>2. lock' \in Worker \cup {NoWorker}
    BY <1>17 DEF TypeOK, Unlock
  <2> QED BY <1>17, <2>1, <2>2 DEF TypeOK, Unlock, Goto, history, hcvars
<1>18. CASE Reserve(w)
  <2>1. pc' \in [Worker -> Label]
    BY <1>18 DEF TypeOK, Reserve, Goto, Label
  <2>2. lock' \in Worker \cup {NoWorker}
    BY <1>18 DEF TypeOK, Reserve
  <2>3. local' \in [Worker -> LocalType]
    BY <1>18 DEF TypeOK, Reserve, LocalType
  <2> QED BY <1>18, <2>1, <2>2, <2>3 DEF TypeOK, Reserve, Goto, history, hcvars
<1>19. CASE Advance(w)
  <2>0. RecordExtent(message[w]) \in Nat
    BY RecordFacts DEF TypeOK, MessageType
  <2>1. pc' \in [Worker -> Label]
    BY <1>19 DEF TypeOK, Advance, Goto, Label
  <2>2. lock' \in Worker \cup {NoWorker}
    BY <1>19 DEF TypeOK, Advance
  <2>3. {totalCount', failureCount', offset', leaked', begun'} \subseteq Nat
    BY <1>19, <2>0 DEF TypeOK, Advance, history
  <2> QED BY <1>19, <2>1, <2>2, <2>3 DEF TypeOK, Advance, Goto, history, hcvars
<1>20. CASE Dump(w)
  <2>1. pc' \in [Worker -> Label]
    BY <1>20 DEF TypeOK, Dump, Goto, Label
  <2>2. {totalCount', failureCount', offset', leaked', begun'} \subseteq Nat
    BY <1>20 DEF TypeOK, Dump, history
  <2> QED BY <1>20, <2>1, <2>2 DEF TypeOK, Dump, Goto, history, hcvars
<1>21. CASE WriteRecord(w)
  <2>0. RecordLen(message[w]) \in Nat /\ conn[w].id \in Nat
    BY RecordFacts DEF TypeOK, MessageType
  <2>1. pc' \in [Worker -> Label]
    BY <1>21 DEF TypeOK, WriteRecord, Goto, Label
  <2>2. log' \subseteq [id : Nat, off : Nat, len : Nat]
    BY <1>21, <2>0 DEF TypeOK, WriteRecord, LocalType
  <2> QED BY <1>21, <2>1, <2>2 DEF TypeOK, WriteRecord, Goto, history, hcvars
<1>22. CASE Close(w)
  <2>1. pc' \in [Worker -> Label]
    BY <1>22 DEF TypeOK, Close, Goto, Label
  <2>2. local' \in [Worker -> LocalType]
    BY <1>22 DEF TypeOK, Close, NoLocals, LocalType
  <2>3. conn' \in [Worker -> [id : Nat, sent : Request \cup {Nothing}]]
    BY <1>22 DEF TypeOK, Close, NoConn
  <2> QED BY <1>22, <2>1, <2>2, <2>3 DEF TypeOK, Close, Goto, server
<1>23. CASE CloseAgain(w)
  <2>1. pc' \in [Worker -> Label]
    BY <1>23 DEF TypeOK, CloseAgain, Respond, Goto, Label
  <2>2. todo' \in [Worker -> SUBSET {"total", "failure"}]
    BY <1>23 DEF TypeOK, CloseAgain, Respond, Counters
  <2>3. message' \in [Worker -> MessageType]
    BY <1>23 DEF TypeOK, CloseAgain, Respond, Set
  <2>4. struck' \in BOOLEAN
        /\ UNCHANGED << files, hc, hcfd, opened, totalCount, failureCount, offset, log >>
        /\ UNCHANGED << leaked, lock, local, conn, begun, answers, cut >>
    BY <1>23 DEF CloseAgain, history
  <2> QED BY Zenon, <2>1, <2>2, <2>3, <2>4 DEF TypeOK
<1> QED BY <1>1, <1>2, <1>3, <1>4, <1>5, <1>6, <1>7, <1>8, <1>9, <1>10, <1>11, <1>12,
   <1>13, <1>14, <1>15, <1>16, <1>17, <1>18, <1>19, <1>20, <1>21, <1>22, <1>23 DEF WStep,
   Step

\* The lock keeps its one owner.
LEMMA StepKeepsMutex ==
    ASSUME TypeOK, Mutex, NEW w \in Worker, WStep(w) PROVE Mutex'
<1>0. Others(w)
  BY StepKeepsOthers
<1>t. NoWorker \notin Worker
  BY RequestAssumption
<1>1. CASE Begin(w)
  BY <1>1, <1>0, <1>t DEF Begin, Goto, server, TypeOK, Others, Mutex, Critical
<1>2. CASE ReadSkipped(w)
  BY <1>2, <1>0, <1>t DEF ReadSkipped, Goto, server, history, TypeOK, Others, Mutex,
     Critical
<1>3. CASE Read(w)
  BY <1>3, <1>0, <1>t DEF Read, Goto, Set, ParseStatus, server, history, TypeOK,
     Others, Mutex, Critical
<1>4. CASE HcOpen(w)
  BY <1>4, <1>0, <1>t DEF HcOpen, Goto, history, TypeOK, Others, Mutex, Critical
<1>5. CASE HcRead(w)
  BY <1>5, <1>0, <1>t DEF HcRead, server, history, TypeOK, Others, Mutex, Critical
<1>6. CASE HcWrite(w)
  BY <1>6, <1>0, <1>t DEF HcWrite, Goto, history, TypeOK, Others, Mutex, Critical
<1>7. CASE HcClose(w)
  BY <1>7, <1>0, <1>t DEF HcClose, Goto, history, TypeOK, Others, Mutex, Critical
<1>8. CASE Lock(w)
  BY <1>8, <1>0, <1>t DEF Lock, Goto, history, hcvars, TypeOK, Others, Mutex, Critical
<1>9. CASE ProcessSkipped(w)
  BY <1>9, <1>0, <1>t DEF ProcessSkipped, Goto, Respond, Set, server, history, TypeOK,
     Others, Mutex, Critical
<1>10. CASE OpenFails(w)
  BY <1>10, <1>0, <1>t DEF OpenFails, Goto, Respond, Set, server, history, TypeOK,
     Others, Mutex, Critical
<1>11. CASE OpenForReading(w)
  BY <1>11, <1>0, <1>t DEF OpenForReading, Goto, Respond, Set, server, history,
     TypeOK, Others, Mutex, Critical
<1>12. CASE OpenForWriting(w)
  BY <1>12, <1>0, <1>t DEF OpenForWriting, Goto, Set, hcvars, TypeOK, Others, Mutex,
     Critical
<1>13. CASE PutBody(w)
  BY <1>13, <1>0, <1>t DEF PutBody, Goto, Set, hcvars, TypeOK, Others, Mutex, Critical
<1>14. CASE Count(w)
  BY <1>14, <1>0, <1>t DEF Count, history, hcvars, TypeOK, Others, Mutex, Critical
<1>15. CASE SendHeader(w)
  BY <1>15, <1>0, <1>t DEF SendHeader, Goto, server, TypeOK, Others, Mutex, Critical
<1>16. CASE SendBody(w)
  BY <1>16, <1>0, <1>t DEF SendBody, Goto, Set, server, TypeOK, Others, Mutex, Critical
<1>17. CASE Unlock(w)
  BY <1>17, <1>0, <1>t DEF Unlock, Goto, history, hcvars, TypeOK, Others, Mutex,
     Critical
<1>18. CASE Reserve(w)
  BY <1>18, <1>0, <1>t DEF Reserve, Goto, history, hcvars, TypeOK, Others, Mutex,
     Critical
<1>19. CASE Advance(w)
  BY <1>19, <1>0, <1>t DEF Advance, Goto, history, hcvars, TypeOK, Others, Mutex,
     Critical
<1>20. CASE Dump(w)
  BY <1>20, <1>0, <1>t DEF Dump, Goto, history, hcvars, TypeOK, Others, Mutex, Critical
<1>21. CASE WriteRecord(w)
  BY <1>21, <1>0, <1>t DEF WriteRecord, Goto, history, hcvars, TypeOK, Others, Mutex,
     Critical
<1>22. CASE Close(w)
  BY <1>22, <1>0, <1>t DEF Close, Goto, server, TypeOK, Others, Mutex, Critical
<1>23. CASE CloseAgain(w)
  BY <1>23, <1>0, <1>t DEF CloseAgain, Goto, Respond, Set, history, TypeOK, Others,
     Mutex, Critical
<1> QED BY <1>1, <1>2, <1>3, <1>4, <1>5, <1>6, <1>7, <1>8, <1>9, <1>10, <1>11, <1>12,
   <1>13, <1>14, <1>15, <1>16, <1>17, <1>18, <1>19, <1>20, <1>21, <1>22, <1>23 DEF WStep,
   Step

\* A PUT of healthcheck never gets as far as a file.
LEMMA StepKeepsPutsFiles ==
    ASSUME TypeOK, PutsFiles, NEW w \in Worker, WStep(w) PROVE PutsFiles'
<1>0. Others(w)
  BY StepKeepsOthers
<1>1. CASE Begin(w)
  BY <1>1, <1>0 DEF Begin, Goto, server, TypeOK, Others, PutsFiles, Failing,
     Succeeded, MessageType
<1>2. CASE ReadSkipped(w)
  BY <1>2, <1>0 DEF ReadSkipped, Goto, server, history, TypeOK, Others, PutsFiles,
     Failing, Succeeded, MessageType
<1>3. CASE Read(w)
  <2> DEFINE r == IF conn[w].sent # Nothing THEN conn[w].sent
                  ELSE [message[w].req EXCEPT !.len = NoLength]
  <2>1. /\ pc'[w] \in {"hcopen", "lock"}
        /\ message'[w].req = r /\ message'[w].status = ParseStatus(r)
    BY <1>3 DEF Read, Goto, Set, TypeOK
  <2>2. r.method = "PUT" /\ r.name = healthcheck => ParseStatus(r) = 403
    BY DEF ParseStatus
  <2> HIDE DEF r
  <2> QED BY <2>1, <2>2, <1>0 DEF Others, PutsFiles, Failing, Succeeded
<1>4. CASE HcOpen(w)
  <2>1. pc'[w] \in {"hcread", "hcclose"} /\ UNCHANGED message
    BY <1>4 DEF HcOpen, Goto, TypeOK
  <2> QED BY <2>1, <1>0 DEF Others, PutsFiles, Failing, Succeeded
<1>5. CASE HcRead(w)
  BY <1>5, <1>0 DEF HcRead, server, history, TypeOK, Others, PutsFiles, Failing,
     Succeeded, MessageType
<1>6. CASE HcWrite(w)
  BY <1>6, <1>0 DEF HcWrite, Goto, history, TypeOK, Others, PutsFiles, Failing,
     Succeeded, MessageType
<1>7. CASE HcClose(w)
  BY <1>7, <1>0 DEF HcClose, Goto, history, TypeOK, Others, PutsFiles, Failing,
     Succeeded, MessageType
<1>8. CASE Lock(w)
  BY <1>8, <1>0 DEF Lock, Goto, history, hcvars, TypeOK, Others, PutsFiles, Failing,
     Succeeded, MessageType
<1>9. CASE ProcessSkipped(w)
  BY <1>9, <1>0 DEF ProcessSkipped, Goto, Respond, Set, server, history, TypeOK,
     Others, PutsFiles, Failing, Succeeded, MessageType
<1>10. CASE OpenFails(w)
  BY <1>10, <1>0 DEF OpenFails, Goto, Respond, Set, server, history, TypeOK, Others,
     PutsFiles, Failing, Succeeded, MessageType
<1>11. CASE OpenForReading(w)
  BY <1>11, <1>0 DEF OpenForReading, Goto, Respond, Set, server, history, TypeOK,
     Others, PutsFiles, Failing, Succeeded, MessageType
<1>12. CASE OpenForWriting(w)
  BY <1>12, <1>0 DEF OpenForWriting, Goto, Set, hcvars, TypeOK, Others, PutsFiles,
     Failing, Succeeded, MessageType
<1>13. CASE PutBody(w)
  <2>1. /\ pc[w] = "body" /\ pc'[w] = "reclose" /\ message'[w].req = message[w].req
        /\ message'[w].status \in {message[w].status, 500}
    BY <1>13 DEF PutBody, Goto, Set, TypeOK, MessageType
  <2> QED BY <2>1, <1>0 DEF Others, PutsFiles, Failing, Succeeded
<1>14. CASE Count(w)
  BY <1>14, <1>0 DEF Count, history, hcvars, TypeOK, Others, PutsFiles, Failing,
     Succeeded, MessageType
<1>15. CASE SendHeader(w)
  BY <1>15, <1>0 DEF SendHeader, Goto, server, TypeOK, Others, PutsFiles, Failing,
     Succeeded, MessageType
<1>16. CASE SendBody(w)
  BY <1>16, <1>0 DEF SendBody, Goto, Set, server, TypeOK, Others, PutsFiles, Failing,
     Succeeded, MessageType
<1>17. CASE Unlock(w)
  BY <1>17, <1>0 DEF Unlock, Goto, history, hcvars, TypeOK, Others, PutsFiles,
     Failing, Succeeded, MessageType
<1>18. CASE Reserve(w)
  BY <1>18, <1>0 DEF Reserve, Goto, history, hcvars, TypeOK, Others, PutsFiles,
     Failing, Succeeded, MessageType
<1>19. CASE Advance(w)
  BY <1>19, <1>0 DEF Advance, Goto, history, hcvars, TypeOK, Others, PutsFiles,
     Failing, Succeeded, MessageType
<1>20. CASE Dump(w)
  BY <1>20, <1>0 DEF Dump, Goto, history, hcvars, TypeOK, Others, PutsFiles, Failing,
     Succeeded, MessageType
<1>21. CASE WriteRecord(w)
  BY <1>21, <1>0 DEF WriteRecord, Goto, history, hcvars, TypeOK, Others, PutsFiles,
     Failing, Succeeded, MessageType
<1>22. CASE Close(w)
  BY <1>22, <1>0 DEF Close, Goto, server, TypeOK, Others, PutsFiles, Failing,
     Succeeded, MessageType
<1>23. CASE CloseAgain(w)
  BY <1>23, <1>0 DEF CloseAgain, Goto, Respond, Set, history, TypeOK, Others, PutsFiles,
     Failing, Succeeded, MessageType
<1> QED BY <1>1, <1>2, <1>3, <1>4, <1>5, <1>6, <1>7, <1>8, <1>9, <1>10, <1>11, <1>12,
   <1>13, <1>14, <1>15, <1>16, <1>17, <1>18, <1>19, <1>20, <1>21, <1>22, <1>23 DEF WStep,
   Step

\* A step that neither starts nor ends with an extent of its own.
LEMMA FrameKeepsExtents ==
    ASSUME Extents, NEW w \in Worker, Others(w), UNCHANGED << offset, log >>,
           pc[w] \notin {"advance", "dump", "write"},
           pc'[w] \notin {"advance", "dump", "write"}
    PROVE  Extents'
<1>1. \A v \in Worker : Writing(v)' => Writing(v) /\ v # w
  BY DEF Writing, Others
<1>2. \A v \in Worker : v # w => local'[v] = local[v] /\ message'[v] = message[v]
  BY DEF Others
<1>3. \A v \in Worker : pc'[v] = "advance" => pc[v] = "advance" /\ v # w
  BY DEF Others
<1>4. \A v \in Worker : v # w => RecordLen(message[v])' = RecordLen(message[v])
  BY <1>2 DEF RecordLen, Succeeded
<1>5. LogDisjoint'
  BY DEF Extents, LogDisjoint
<1> QED BY <1>1, <1>2, <1>3, <1>4, <1>5 DEF Extents, Apart

\* What is reserved and written stays apart.
LEMMA StepKeepsExtents ==
    ASSUME TypeOK, Mutex, Extents, NEW w \in Worker, WStep(w) PROVE Extents'
<1>0. Others(w)
  BY StepKeepsOthers
<1>1. CASE Begin(w)
  <2>1. UNCHANGED << offset, log >> /\ pc[w] \notin {"advance", "dump", "write"}
        /\ pc'[w] \notin {"advance", "dump", "write"}
    BY <1>1 DEF Begin, Goto, server, TypeOK
  <2> QED BY <1>0, <2>1, FrameKeepsExtents
<1>2. CASE ReadSkipped(w)
  <2>1. UNCHANGED << offset, log >> /\ pc[w] \notin {"advance", "dump", "write"}
        /\ pc'[w] \notin {"advance", "dump", "write"}
    BY <1>2 DEF ReadSkipped, Goto, server, history, TypeOK
  <2> QED BY <1>0, <2>1, FrameKeepsExtents
<1>3. CASE Read(w)
  <2>1. UNCHANGED << offset, log >> /\ pc[w] \notin {"advance", "dump", "write"}
        /\ pc'[w] \notin {"advance", "dump", "write"}
    BY <1>3 DEF Read, Goto, Set, ParseStatus, server, history, TypeOK
  <2> QED BY <1>0, <2>1, FrameKeepsExtents
<1>4. CASE HcOpen(w)
  <2>1. UNCHANGED << offset, log >> /\ pc[w] \notin {"advance", "dump", "write"}
        /\ pc'[w] \notin {"advance", "dump", "write"}
    BY <1>4 DEF HcOpen, Goto, history, TypeOK
  <2> QED BY <1>0, <2>1, FrameKeepsExtents
<1>5. CASE HcRead(w)
  <2>1. UNCHANGED << offset, log >> /\ pc[w] \notin {"advance", "dump", "write"}
        /\ pc'[w] \notin {"advance", "dump", "write"}
    BY <1>5 DEF HcRead, server, history, TypeOK
  <2> QED BY <1>0, <2>1, FrameKeepsExtents
<1>6. CASE HcWrite(w)
  <2>1. UNCHANGED << offset, log >> /\ pc[w] \notin {"advance", "dump", "write"}
        /\ pc'[w] \notin {"advance", "dump", "write"}
    BY <1>6 DEF HcWrite, Goto, history, TypeOK
  <2> QED BY <1>0, <2>1, FrameKeepsExtents
<1>7. CASE HcClose(w)
  <2>1. UNCHANGED << offset, log >> /\ pc[w] \notin {"advance", "dump", "write"}
        /\ pc'[w] \notin {"advance", "dump", "write"}
    BY <1>7 DEF HcClose, Goto, history, TypeOK
  <2> QED BY <1>0, <2>1, FrameKeepsExtents
<1>8. CASE Lock(w)
  <2>1. UNCHANGED << offset, log >> /\ pc[w] \notin {"advance", "dump", "write"}
        /\ pc'[w] \notin {"advance", "dump", "write"}
    BY <1>8 DEF Lock, Goto, history, hcvars, TypeOK
  <2> QED BY <1>0, <2>1, FrameKeepsExtents
<1>9. CASE ProcessSkipped(w)
  <2>1. UNCHANGED << offset, log >> /\ pc[w] \notin {"advance", "dump", "write"}
        /\ pc'[w] \notin {"advance", "dump", "write"}
    BY <1>9 DEF ProcessSkipped, Goto, Respond, Set, server, history, TypeOK
  <2> QED BY <1>0, <2>1, FrameKeepsExtents
<1>10. CASE OpenFails(w)
  <2>1. UNCHANGED << offset, log >> /\ pc[w] \notin {"advance", "dump", "write"}
        /\ pc'[w] \notin {"advance", "dump", "write"}
    BY <1>10 DEF OpenFails, Goto, Respond, Set, server, history, TypeOK
  <2> QED BY <1>0, <2>1, FrameKeepsExtents
<1>11. CASE OpenForReading(w)
  <2>1. UNCHANGED << offset, log >> /\ pc[w] \notin {"advance", "dump", "write"}
        /\ pc'[w] \notin {"advance", "dump", "write"}
    BY <1>11 DEF OpenForReading, Goto, Respond, Set, server, history, TypeOK
  <2> QED BY <1>0, <2>1, FrameKeepsExtents
<1>12. CASE OpenForWriting(w)
  <2>1. UNCHANGED << offset, log >> /\ pc[w] \notin {"advance", "dump", "write"}
        /\ pc'[w] \notin {"advance", "dump", "write"}
    BY <1>12 DEF OpenForWriting, Goto, Set, hcvars, TypeOK
  <2> QED BY <1>0, <2>1, FrameKeepsExtents
<1>13. CASE PutBody(w)
  <2>1. UNCHANGED << offset, log >> /\ pc[w] \notin {"advance", "dump", "write"}
        /\ pc'[w] \notin {"advance", "dump", "write"}
    BY <1>13 DEF PutBody, Goto, Set, hcvars, TypeOK
  <2> QED BY <1>0, <2>1, FrameKeepsExtents
<1>23. CASE CloseAgain(w)
  <2>1. UNCHANGED << offset, log >> /\ pc[w] \notin {"advance", "dump", "write"}
        /\ pc'[w] \notin {"advance", "dump", "write"}
    BY <1>23 DEF CloseAgain, Goto, Respond, Set, history, TypeOK
  <2> QED BY <1>0, <2>1, FrameKeepsExtents
<1>14. CASE Count(w)
  <2>1. UNCHANGED << offset, log >> /\ pc[w] \notin {"advance", "dump", "write"}
        /\ pc'[w] \notin {"advance", "dump", "write"}
    BY <1>14 DEF Count, history, hcvars, TypeOK
  <2> QED BY <1>0, <2>1, FrameKeepsExtents
<1>15. CASE SendHeader(w)
  <2>1. UNCHANGED << offset, log >> /\ pc[w] \notin {"advance", "dump", "write"}
        /\ pc'[w] \notin {"advance", "dump", "write"}
    BY <1>15 DEF SendHeader, Goto, server, TypeOK
  <2> QED BY <1>0, <2>1, FrameKeepsExtents
<1>16. CASE SendBody(w)
  <2>1. UNCHANGED << offset, log >> /\ pc[w] \notin {"advance", "dump", "write"}
        /\ pc'[w] \notin {"advance", "dump", "write"}
    BY <1>16 DEF SendBody, Goto, Set, server, TypeOK
  <2> QED BY <1>0, <2>1, FrameKeepsExtents
<1>17. CASE Unlock(w)
  <2>1. UNCHANGED << offset, log >> /\ pc[w] \notin {"advance", "dump", "write"}
        /\ pc'[w] \notin {"advance", "dump", "write"}
    BY <1>17 DEF Unlock, Goto, history, hcvars, TypeOK
  <2> QED BY <1>0, <2>1, FrameKeepsExtents
<1>18. CASE Close(w)
  <2>1. UNCHANGED << offset, log >> /\ pc[w] \notin {"advance", "dump", "write"}
        /\ pc'[w] \notin {"advance", "dump", "write"}
    BY <1>18 DEF Close, Goto, server, TypeOK
  <2> QED BY <1>0, <2>1, FrameKeepsExtents
<1>a. \A v \in Worker : RecordLen(message[v]) \in Nat /\ local[v].off \in Nat
  BY RecordFacts DEF TypeOK, MessageType, LocalType
<1>b. offset \in Nat /\ \A a \in log : a.off \in Nat /\ a.len \in Nat
  BY DEF TypeOK
<1>19. CASE Reserve(w)
  <2>1. /\ pc'[w] = "advance" /\ pc[w] = "reserve"
        /\ local'[w].off = offset /\ UNCHANGED << offset, log, message >>
    BY <1>19 DEF Reserve, Goto, history, TypeOK, LocalType
  <2>2. \A v \in Worker : Writing(v)' => Writing(v) /\ v # w
    BY <1>0, <2>1 DEF Writing, Others
  <2>3. \A v \in Worker : v # w => local'[v] = local[v] /\ pc'[v] = pc[v]
    BY <1>0 DEF Others
  <2>4. \A v \in Worker : RecordLen(message[v])' = RecordLen(message[v])
    BY <2>1 DEF RecordLen, Succeeded
  <2>5. LogDisjoint'
    BY <2>1 DEF Extents, LogDisjoint
  <2> QED BY <2>1, <2>2, <2>3, <2>4, <2>5 DEF Extents, Apart
<1>20. CASE Advance(w)
  <2>1. /\ pc[w] = "advance" /\ pc'[w] \in {"dump", "write"}
        /\ offset' = offset + RecordExtent(message[w])
        /\ UNCHANGED << log, message, local >>
    BY <1>20 DEF Advance, Goto, history, TypeOK
  <2>2. \A v \in Worker : v # w => pc'[v] = pc[v]
    BY <1>0 DEF Others
  <2>3. \A v \in Worker : RecordLen(message[v])' = RecordLen(message[v])
    BY <2>1 DEF RecordLen, Succeeded
  <2>4. RecordExtent(message[w]) \in Nat /\ RecordLen(message[w]) <= RecordExtent(message[w])
    BY RecordFacts DEF TypeOK, MessageType
  <2>5. local[w].off = offset
    BY <2>1 DEF Extents
  <2>6. \A v \in Worker : v # w => pc[v] # "advance"
    BY <2>1 DEF Mutex, Critical
  <2>7. LogDisjoint'
    BY <2>1 DEF Extents, LogDisjoint
  <2>8. \A v \in Worker : pc'[v] = "advance" => local'[v].off = offset'
    BY <2>1, <2>2, <2>6
  <2>9. \A v \in Worker : Writing(v)' => local'[v].off + RecordLen(message[v])' <= offset'
    BY <1>a, <1>b, <2>1, <2>2, <2>3, <2>4, <2>5 DEF Extents, Writing
  <2>10. \A a \in log' : a.off + a.len <= offset'
    BY <1>b, <2>1, <2>4 DEF Extents
  <2>11. ASSUME NEW u \in Worker, NEW v \in Worker, u # v, Writing(u)', Writing(v)'
         PROVE  Apart(local[u].off, RecordLen(message[u]),
                      local[v].off, RecordLen(message[v]))'
    <3>1. CASE u = w
      BY <1>a, <1>b, <2>1, <2>2, <2>3, <2>5, <2>11, <3>1 DEF Extents, Apart, Writing
    <3>2. CASE v = w
      BY <1>a, <1>b, <2>1, <2>2, <2>3, <2>5, <2>11, <3>2 DEF Extents, Apart, Writing
    <3>3. CASE u # w /\ v # w
      BY <2>1, <2>2, <2>3, <2>11, <3>3 DEF Extents, Apart, Writing
    <3> QED BY <3>1, <3>2, <3>3
  <2>12. ASSUME NEW v \in Worker, NEW a \in log', Writing(v)'
         PROVE  Apart(local[v].off, RecordLen(message[v]), a.off, a.len)'
    <3>1. CASE v = w
      BY <1>a, <1>b, <2>1, <2>3, <2>5, <3>1 DEF Extents, Apart
    <3>2. CASE v # w
      BY <2>1, <2>2, <2>3, <2>12, <3>2 DEF Extents, Apart, Writing
    <3> QED BY <3>1, <3>2
  <2> QED BY <2>7, <2>8, <2>9, <2>10, <2>11, <2>12 DEF Extents
<1>21. CASE Dump(w)
  <2>1. /\ pc[w] = "dump" /\ pc'[w] = "write" /\ local'[w].off = local[w].off
        /\ UNCHANGED << offset, log, message >>
    BY <1>21 DEF Dump, Goto, history, TypeOK, LocalType
  <2>2. \A v \in Worker : local'[v].off = local[v].off
    BY <1>0, <2>1 DEF Others
  <2>a. \A v \in Worker : Writing(v)' => Writing(v)
    BY <1>0, <2>1 DEF Others, Writing
  <2>b. \A v \in Worker : pc'[v] = "advance" => pc[v] = "advance"
    BY <1>0, <2>1 DEF Others
  <2>3. \A v \in Worker : RecordLen(message[v])' = RecordLen(message[v])
    BY <2>1 DEF RecordLen, Succeeded
  <2>4. LogDisjoint'
    BY <2>1 DEF Extents, LogDisjoint
  <2> QED BY <2>1, <2>2, <2>a, <2>b, <2>3, <2>4 DEF Extents, Apart
<1>22. CASE WriteRecord(w)
  <2> DEFINE rec == [id |-> conn[w].id, off |-> local[w].off, len |-> RecordLen(message[w])]
  <2>1. /\ pc[w] = "write" /\ pc'[w] = "close" /\ log' = log \cup {rec}
        /\ UNCHANGED << offset, message, local >>
    BY <1>22 DEF WriteRecord, Goto, history, TypeOK
  <2>2. \A v \in Worker : Writing(v)' => Writing(v) /\ v # w
    BY <1>0, <2>1 DEF Others, Writing
  <2>a. \A v \in Worker : pc'[v] = "advance" => pc[v] = "advance"
    BY <1>0, <2>1 DEF Others
  <2>3. \A v \in Worker : RecordLen(message[v])' = RecordLen(message[v])
    BY <2>1 DEF RecordLen, Succeeded
  <2>4. Writing(w) /\ rec.off = local[w].off /\ rec.len = RecordLen(message[w])
    BY <2>1 DEF Writing
  <2> HIDE DEF rec
  <2>5. \A a \in log : Apart(a.off, a.len, rec.off, rec.len)
    BY <2>4 DEF Extents, Apart
  <2>6. LogDisjoint'
    BY <2>1, <2>5 DEF Extents, LogDisjoint, Apart
  <2>7. ASSUME NEW v \in Worker, NEW a \in log', Writing(v)'
        PROVE  Apart(local[v].off, RecordLen(message[v]), a.off, a.len)'
    <3>1. Writing(v) /\ v # w
      BY <2>2, <2>7
    <3>2. Apart(local[v].off, RecordLen(message[v]), a.off, a.len)
      <4>1. CASE a \in log
        BY <3>1, <4>1 DEF Extents
      <4>2. CASE a = rec
        BY <3>1, <4>2, <2>4 DEF Extents
      <4> QED BY <4>1, <4>2, <2>1
    <3> QED BY <3>2, <2>1, <2>3 DEF Apart
  <2>8. \A a \in log' : a.off + a.len <= offset'
    BY <2>1, <2>4 DEF Extents
  <2>9. \A v \in Worker : Writing(v)' => local'[v].off + RecordLen(message[v])' <= offset'
    BY <2>1, <2>2, <2>3 DEF Extents
  <2>10. \A u, v \in Worker : u # v /\ Writing(u)' /\ Writing(v)' =>
             Apart(local[u].off, RecordLen(message[u]),
                   local[v].off, RecordLen(message[v]))'
    BY <2>1, <2>2, <2>3 DEF Extents, Apart
  <2>11. \A v \in Worker : pc'[v] = "advance" => local'[v].off = offset'
    BY <2>1, <2>a DEF Extents
  <2> QED BY <2>6, <2>7, <2>8, <2>9, <2>10, <2>11 DEF Extents
<1> QED BY <1>1, <1>2, <1>3, <1>4, <1>5, <1>6, <1>7, <1>8, <1>9, <1>10, <1>11, <1>12,
   <1>13, <1>14, <1>15, <1>16, <1>17, <1>18, <1>19, <1>20, <1>21, <1>22, <1>23 DEF WStep,
   Step

\* A step outside construct_http_response.
LEMMA FrameKeepsCounting ==
    ASSUME Counting, NEW w \in Worker, Others(w),
           UNCHANGED << totalCount, failureCount, answers >>,
           pc[w] # "count", pc'[w] # "count"
    PROVE  Counting'
<1>1. \A v \in Worker : pc'[v] = "count" => v # w /\ pc[v] = "count"
  BY DEF Others
<1>2. \A v \in Worker : pc[v] = "count" => v # w /\ pc'[v] = "count"
  BY DEF Others
<1>3. \A v \in Worker : v # w => message'[v] = message[v] /\ todo'[v] = todo[v]
  BY DEF Others
<1>4. Known' = Known /\ Failures' = Failures
  BY DEF Known, Failures
<1>5. \A v \in Worker : pc'[v] = "count" =>
         /\ Ahead(v, "total")' = Ahead(v, "total")
         /\ Ahead(v, "failure")' = Ahead(v, "failure")
         /\ Counters(message[v].status)' = Counters(message[v].status)
  BY <1>1, <1>3 DEF Ahead, Counters
<1> QED BY <1>1, <1>2, <1>3, <1>4, <1>5 DEF Counting

\* A worker that starts to construct a response has not counted it yet.
LEMMA RespondKeepsCounting ==
    ASSUME TypeOK, Mutex, Counting, NEW w \in Worker, NEW m, Others(w),
           UNCHANGED << totalCount, failureCount, answers >>,
           pc[w] \in {"process", "reclose"}, Respond(w, m)
    PROVE  Counting'
<1>1. \A v \in Worker : v # w => pc[v] # "count" /\ pc'[v] # "count"
  BY DEF Mutex, Critical, Others
<1>2. totalCount = Known /\ failureCount = Failures
  BY <1>1 DEF Counting
<1>3. Known' = Known /\ Failures' = Failures
  BY DEF Known, Failures
<1>4. pc'[w] = "count" /\ message'[w] = m /\ todo'[w] = Counters(m.status)
  BY DEF Respond, Set, Goto, TypeOK
<1>5. Ahead(w, "total")' = 0 /\ Ahead(w, "failure")' = 0
  BY <1>4 DEF Ahead
<1>6. Known \in Nat /\ Failures \in Nat
  BY DEF TypeOK, Known, Failures, Status, Failing
<1>7. totalCount' = Known' + Ahead(w, "total")' /\ failureCount' = Failures' + Ahead(w, "failure")'
  BY <1>2, <1>3, <1>5, <1>6
<1>8. todo'[w] \subseteq Counters(message'[w].status)
  BY <1>4
<1> QED BY <1>1, <1>4, <1>7, <1>8 DEF Counting

\* The counters agree with the responses sent.
LEMMA StepKeepsCounting ==
    ASSUME TypeOK, Mutex, Counting, NEW w \in Worker, WStep(w) PROVE Counting'
<1>0. Others(w)
  BY StepKeepsOthers
<1>1. CASE Begin(w)
  <2>1. UNCHANGED << totalCount, failureCount, answers >>
        /\ pc[w] # "count" /\ pc'[w] # "count"
    BY <1>1 DEF Begin, Goto, server, TypeOK
  <2> QED BY <1>0, <2>1, FrameKeepsCounting
<1>2. CASE ReadSkipped(w)
  <2>1. UNCHANGED << totalCount, failureCount, answers >>
        /\ pc[w] # "count" /\ pc'[w] # "count"
    BY <1>2 DEF ReadSkipped, Goto, server, history, TypeOK
  <2> QED BY <1>0, <2>1, FrameKeepsCounting
<1>3. CASE Read(w)
  <2>1. UNCHANGED << totalCount, failureCount, answers >>
        /\ pc[w] # "count" /\ pc'[w] # "count"
    BY <1>3 DEF Read, Goto, Set, ParseStatus, server, history, TypeOK
  <2> QED BY <1>0, <2>1, FrameKeepsCounting
<1>4. CASE HcOpen(w)
  <2>1. UNCHANGED << totalCount, failureCount, answers >>
        /\ pc[w] # "count" /\ pc'[w] # "count"
    BY <1>4 DEF HcOpen, Goto, history, TypeOK
  <2> QED BY <1>0, <2>1, FrameKeepsCounting
<1>5. CASE HcRead(w)
  <2>1. UNCHANGED << totalCount, failureCount, answers >>
        /\ pc[w] # "count" /\ pc'[w] # "count"
    BY <1>5 DEF HcRead, server, history, TypeOK
  <2> QED BY <1>0, <2>1, FrameKeepsCounting
<1>6. CASE HcWrite(w)
  <2>1. UNCHANGED << totalCount, failureCount, answers >>
        /\ pc[w] # "count" /\ pc'[w] # "count"
    BY <1>6 DEF HcWrite, Goto, history, TypeOK
  <2> QED BY <1>0, <2>1, FrameKeepsCounting
<1>7. CASE HcClose(w)
  <2>1. UNCHANGED << totalCount, failureCount, answers >>
        /\ pc[w] # "count" /\ pc'[w] # "count"
    BY <1>7 DEF HcClose, Goto, history, TypeOK
  <2> QED BY <1>0, <2>1, FrameKeepsCounting
<1>8. CASE Lock(w)
  <2>1. UNCHANGED << totalCount, failureCount, answers >>
        /\ pc[w] # "count" /\ pc'[w] # "count"
    BY <1>8 DEF Lock, Goto, history, hcvars, TypeOK
  <2> QED BY <1>0, <2>1, FrameKeepsCounting
<1>9. CASE OpenForWriting(w)
  <2>1. UNCHANGED << totalCount, failureCount, answers >>
        /\ pc[w] # "count" /\ pc'[w] # "count"
    BY <1>9 DEF OpenForWriting, Goto, Set, hcvars, TypeOK
  <2> QED BY <1>0, <2>1, FrameKeepsCounting
<1>10. CASE SendBody(w)
  <2>1. UNCHANGED << totalCount, failureCount, answers >>
        /\ pc[w] # "count" /\ pc'[w] # "count"
    BY <1>10 DEF SendBody, Goto, Set, server, TypeOK
  <2> QED BY <1>0, <2>1, FrameKeepsCounting
<1>11. CASE Unlock(w)
  <2>1. UNCHANGED << totalCount, failureCount, answers >>
        /\ pc[w] # "count" /\ pc'[w] # "count"
    BY <1>11 DEF Unlock, Goto, history, hcvars, TypeOK
  <2> QED BY <1>0, <2>1, FrameKeepsCounting
<1>12. CASE Reserve(w)
  <2>1. UNCHANGED << totalCount, failureCount, answers >>
        /\ pc[w] # "count" /\ pc'[w] # "count"
    BY <1>12 DEF Reserve, Goto, history, hcvars, TypeOK
  <2> QED BY <1>0, <2>1, FrameKeepsCounting
<1>13. CASE Advance(w)
  <2>1. UNCHANGED << totalCount, failureCount, answers >>
        /\ pc[w] # "count" /\ pc'[w] # "count"
    BY <1>13 DEF Advance, Goto, history, hcvars, TypeOK
  <2> QED BY <1>0, <2>1, FrameKeepsCounting
<1>14. CASE Dump(w)
  <2>1. UNCHANGED << totalCount, failureCount, answers >>
        /\ pc[w] # "count" /\ pc'[w] # "count"
    BY <1>14 DEF Dump, Goto, history, hcvars, TypeOK
  <2> QED BY <1>0, <2>1, FrameKeepsCounting
<1>15. CASE WriteRecord(w)
  <2>1. UNCHANGED << totalCount, failureCount, answers >>
        /\ pc[w] # "count" /\ pc'[w] # "count"
    BY <1>15 DEF WriteRecord, Goto, history, hcvars, TypeOK
  <2> QED BY <1>0, <2>1, FrameKeepsCounting
<1>16. CASE Close(w)
  <2>1. UNCHANGED << totalCount, failureCount, answers >>
        /\ pc[w] # "count" /\ pc'[w] # "count"
    BY <1>16 DEF Close, Goto, server, TypeOK
  <2> QED BY <1>0, <2>1, FrameKeepsCounting
<1>17. CASE ProcessSkipped(w)
  <2>1. PICK m : Respond(w, m)
    BY <1>17 DEF ProcessSkipped
  <2>2. UNCHANGED << totalCount, failureCount, answers >> /\ pc[w] \in {"process", "reclose"}
    BY <1>17 DEF ProcessSkipped, server, history, hcvars
  <2> QED BY <1>0, <2>1, <2>2, RespondKeepsCounting
<1>18. CASE OpenFails(w)
  <2>1. PICK m : Respond(w, m)
    BY <1>18 DEF OpenFails
  <2>2. UNCHANGED << totalCount, failureCount, answers >> /\ pc[w] \in {"process", "reclose"}
    BY <1>18 DEF OpenFails, server, history, hcvars
  <2> QED BY <1>0, <2>1, <2>2, RespondKeepsCounting
<1>19. CASE OpenForReading(w)
  <2>1. PICK m : Respond(w, m)
    BY <1>19 DEF OpenForReading
  <2>2. UNCHANGED << totalCount, failureCount, answers >> /\ pc[w] \in {"process", "reclose"}
    BY <1>19 DEF OpenForReading, server, history, hcvars
  <2> QED BY <1>0, <2>1, <2>2, RespondKeepsCounting
<1>20. CASE CloseAgain(w)
  <2>1. PICK m : Respond(w, m)
    BY <1>20 DEF CloseAgain
  <2>2. UNCHANGED << totalCount, failureCount, answers >> /\ pc[w] \in {"process", "reclose"}
    BY <1>20 DEF CloseAgain, history
  <2> QED BY <1>0, <2>1, <2>2, RespondKeepsCounting
<1>23. CASE PutBody(w)
  <2>1. UNCHANGED << totalCount, failureCount, answers >>
        /\ pc[w] # "count" /\ pc'[w] # "count"
    BY <1>23 DEF PutBody, Goto, Set, hcvars, TypeOK
  <2> QED BY <1>0, <2>1, FrameKeepsCounting
<1>a. ASSUME pc[w] = "count" PROVE \A v \in Worker : v # w => pc[v] # "count" /\ pc'[v] # "count"
  BY <1>0, <1>a DEF Mutex, Critical, Others
<1>b. Known \in Nat /\ Failures \in Nat /\ totalCount \in Nat /\ failureCount \in Nat
  BY DEF TypeOK, Known, Failures, Status, Failing
<1>21. CASE Count(w)
  <2>1. PICK x \in todo[w] :
           /\ todo' = [todo EXCEPT ![w] = @ \ {x}]
           /\ totalCount' = totalCount + (IF x = "total" THEN 1 ELSE 0)
           /\ failureCount' = failureCount + (IF x = "failure" THEN 1 ELSE 0)
    BY <1>21 DEF Count
  <2>2. pc[w] = "count" /\ UNCHANGED << message, pc, answers >>
    BY <1>21 DEF Count, history
  <2>3. Known' = Known /\ Failures' = Failures
    BY <2>2 DEF Known, Failures
  <2>4. x \in {"total", "failure"} /\ todo'[w] = todo[w] \ {x}
    BY <2>1 DEF TypeOK
  <2>5. Counters(message'[w].status) = Counters(message[w].status)
    BY <2>2
  <2>6. /\ totalCount = Known + Ahead(w, "total")
        /\ failureCount = Failures + Ahead(w, "failure")
        /\ todo[w] \subseteq Counters(message[w].status)
    BY <2>2 DEF Counting
  <2>7. \A y \in {"total", "failure"} :
           Ahead(w, y)' = Ahead(w, y) + (IF y = x THEN 1 ELSE 0)
    BY <2>1, <2>4, <2>5, <2>6 DEF Ahead
  <2>8. Ahead(w, "total") \in Nat /\ Ahead(w, "failure") \in Nat
    BY DEF Ahead
  <2>9. totalCount' = Known' + Ahead(w, "total")'
    <3>1. Ahead(w, "total")' = Ahead(w, "total") + (IF x = "total" THEN 1 ELSE 0)
      BY <2>7
    <3> QED BY <1>b, <2>1, <2>3, <2>6, <2>8, <3>1
  <2>10. failureCount' = Failures' + Ahead(w, "failure")'
    <3>1. Ahead(w, "failure")' = Ahead(w, "failure") + (IF x = "failure" THEN 1 ELSE 0)
      BY <2>7
    <3> QED BY <1>b, <2>1, <2>3, <2>6, <2>8, <3>1
  <2>11. todo'[w] \subseteq Counters(message'[w].status)
    BY <2>4, <2>5, <2>6
  <2> QED BY <1>a, <2>2, <2>9, <2>10, <2>11 DEF Counting
<1>22. CASE SendHeader(w)
  <2> DEFINE s == message[w].status
  <2>1. /\ pc[w] = "count" /\ todo[w] = {} /\ pc'[w] # "count"
        /\ answers' = [answers EXCEPT ![s] = @ + 1]
        /\ UNCHANGED << totalCount, failureCount >>
    BY <1>22 DEF SendHeader, Goto, server, TypeOK
  <2>2. totalCount = Known + Ahead(w, "total") /\ failureCount = Failures + Ahead(w, "failure")
    BY <2>1 DEF Counting
  <2>3. s \in Status
    BY DEF TypeOK, MessageType
  <2>4. Known' = Known + Ahead(w, "total") /\ Failures' = Failures + Ahead(w, "failure")
    <3>1. Ahead(w, "total") = (IF s = 0 THEN 0 ELSE 1)
      BY <2>1, <2>3 DEF Ahead, Counters, Status, Failing
    <3>2. Ahead(w, "failure") = (IF s \in Failing THEN 1 ELSE 0)
      BY <2>1, <2>3 DEF Ahead, Counters, Status, Failing
    <3>3. \A t \in Status : /\ answers[t] \in Nat
                           /\ answers'[t] = answers[t] + (IF t = s THEN 1 ELSE 0)
      BY <2>1, <2>3 DEF TypeOK
    <3> HIDE DEF s
    <3>4. /\ 200 \in Status /\ 201 \in Status /\ 400 \in Status
          /\ 403 \in Status /\ 404 \in Status /\ 500 \in Status
      BY DEF Status, Failing
    <3>5. s \in {0, 200, 201, 400, 403, 404, 500}
      BY <2>3 DEF Status, Failing
    <3>6. Known' = Known + (IF s = 0 THEN 0 ELSE 1)
      BY <3>3, <3>4, <3>5 DEF Known
    <3>7. Failures' = Failures + (IF s \in Failing THEN 1 ELSE 0)
      BY <3>3, <3>4, <3>5 DEF Failures, Failing
    <3> QED BY <3>1, <3>2, <3>6, <3>7
  <2>5. totalCount' = Known' /\ failureCount' = Failures'
    BY <2>1, <2>2, <2>4
  <2>6. \A v \in Worker : pc'[v] # "count"
    BY <1>a, <2>1
  <2> QED BY <2>5, <2>6 DEF Counting
<1> QED BY <1>1, <1>2, <1>3, <1>4, <1>5, <1>6, <1>7, <1>8, <1>9, <1>10, <1>11, <1>12,
   <1>13, <1>14, <1>15, <1>16, <1>17, <1>18, <1>19, <1>20, <1>21, <1>22, <1>23 DEF WStep,
   Step

\* The server starts with an empty log and counters at zero.
LEMMA InitIInv == Init => IInv
<1> SUFFICES ASSUME Init PROVE IInv
  OBVIOUS
<1>1. TypeOK
  <2>1. files \in [File -> FileType]
    BY DEF Init, FileType, Absent, Directory, Mixture
  <2>2. message \in [Worker -> MessageType]
    BY DEF Init, MessageType, RequestType, Status
  <2>3. local \in [Worker -> LocalType]
    BY DEF Init, LocalType, NoLocals
  <2>4. conn \in [Worker -> [id : Nat, sent : Request \cup {Nothing}]]
    BY DEF Init, NoConn
  <2>5. /\ pc \in [Worker -> Label]
        /\ todo \in [Worker -> SUBSET {"total", "failure"}]
        /\ answers \in [Status -> Nat]
    BY DEF Init, Label
  <2>6. /\ hc \in HcType /\ hcfd \in Worker \cup {NoWorker} /\ opened \subseteq Worker
        /\ struck \in BOOLEAN /\ cut \subseteq Worker /\ lock \in Worker \cup {NoWorker}
    BY DEF Init, HcType
  <2>7. /\ {totalCount, failureCount, offset, leaked, begun} \subseteq Nat
        /\ log \subseteq [id : Nat, off : Nat, len : Nat]
    BY DEF Init
  <2> QED BY Zenon, <2>1, <2>2, <2>3, <2>4, <2>5, <2>6, <2>7 DEF TypeOK
<1>2. Mutex /\ PutsFiles
  BY DEF Init, Mutex, Critical, PutsFiles
<1>3. Extents
  BY DEF Init, Extents, Writing, LogDisjoint
<1>4. Counting
  BY DEF Init, Counting, Known, Failures, Status, Failing
<1> QED BY <1>1, <1>2, <1>3, <1>4 DEF IInv

\* Every step of every worker keeps the invariant.
LEMMA NextKeepsIInv == IInv /\ [Next]_vars => IInv'
<1>1. ASSUME IInv, NEW w \in Worker, WStep(w) PROVE IInv'
  BY <1>1, StepKeepsType, StepKeepsMutex, StepKeepsPutsFiles, StepKeepsExtents,
     StepKeepsCounting DEF IInv
<1>2. ASSUME IInv, UNCHANGED vars PROVE IInv'
  <2> USE <1>2 DEF vars, server, worker, history
  <2>1. TypeOK' /\ Mutex' /\ PutsFiles'
    BY DEF IInv, TypeOK, Mutex, PutsFiles, Succeeded
  <2>2. Extents'
    BY DEF IInv, Extents, Writing, Apart, RecordLen, Succeeded, LogDisjoint
  <2>3. Counting'
    BY DEF IInv, Counting, Known, Failures, Ahead, Counters
  <2> QED BY <2>1, <2>2, <2>3 DEF IInv
<1> QED BY <1>1, <1>2 DEF Next, WStep

\* For any number of workers and any requests: the records of the log do not
\* overlap, and whenever the lock is free the two counters are what the
\* responses sent add up to.
THEOREM LogAndCounters == Spec => [](TypeOK /\ LogDisjoint /\ CountersMatch)
<1>1. IInv => TypeOK /\ LogDisjoint /\ CountersMatch
  <2> SUFFICES ASSUME IInv, lock = NoWorker
               PROVE  totalCount = Known /\ failureCount = Failures
    BY DEF IInv, Extents, CountersMatch, Known, Failures
  <2>1. \A w \in Worker : pc[w] # "count"
    BY RequestAssumption DEF IInv, Mutex, Critical
  <2> QED BY <2>1 DEF IInv, Counting
<1> QED BY <1>1, InitIInv, NextKeepsIInv, PTL DEF Spec

\* In particular the counters: once the lock is free, totalCount and
\* failureCount are those of the responses, whichever stage a request failed at.
THEOREM CountersAddUp == Spec => []CountersMatch
BY LogAndCounters, PTL

\* And the types: the state, status and descriptors of a worker stay in range.
THEOREM RequestsTypesHold == Spec => []TypeOK
BY LogAndCounters, PTL

-----------------------------------------------------------------------------
\* The files as a whole: Requests implements FileStore.

\* The contents and answers there can be, and the numbers of the connections.
Contents ==
    /\ files \in [File -> Content] /\ old \in [Worker -> Content]
    /\ got \in [Worker -> {<< v.len, v >> : v \in Content}]
    /\ \A w \in Worker : conn[w].id \in 0 .. MaxRequests

\* From the parsing of a request to the opening of its file.
Early == {"hcopen", "hcread", "hcclose", "lock", "process"}

\* The length in force is the one that the request has announced.
Announced(m) ==
    /\ m.req.len # NoLength => m.req \in Request
    /\ m.content_length = IF m.req.len = NoLength THEN 0 ELSE m.req.len

\* The request in force is the one that was asked for, and the length a PUT will
\* write is the one that was announced; the length a GET has announced is still
\* that of the file when it is sent; and if no file could be opened (the status
\* stays 0), none can be for the second open either.
LengthsOf(w) ==
    LET m == message[w] IN
    /\ pc[w] \in Early => m.status \in {0} \cup Failing
    /\ pc[w] \in Early \cup {"body"} /\ m.status \notin Failing => Announced(m)
    /\ pc[w] = "body" => files[m.req.name] = Empty
    /\ pc[w] \in Early \cup {"body", "reclose", "count", "send"} /\ m.status \notin Failing
          => Asked(w) = m.req
    /\ pc[w] \in {"count", "send"} =>
          /\ m.status = 201 => m.req.method = "PUT"
          /\ m.status = 200 /\ m.req.name # healthcheck
                => m.content_length = files[m.req.name].len
          /\ m.status = 0 => Announced(m)
          /\ m.status = 0 /\ m.req.method # "PUT" => leaked >= FdLimit
    /\ pc[w] = "send" => m.req.method = "GET" /\ m.status \notin Failing
    /\ pc[w] = "reclose" => m.status \in {201, 500} /\ m.req.method = "PUT"
    /\ pc[w] \in Early \cup {"read", "body"} => w \notin cut
    /\ pc[w] \in {"count", "send"} /\ m.req.method = "GET" => w \notin cut
Lengths == \A w \in Worker : LengthsOf(w)

WholeInv == IInv /\ Contents /\ Lengths

\* The steps that write no file, hand over no connection and send no body.
Quiet(w) ==
    \/ ReadSkipped(w) \/ Read(w) \/ HcOpen(w) \/ HcRead(w) \/ HcWrite(w) \/ HcClose(w)
    \/ Lock(w) \/ ProcessSkipped(w) \/ OpenFails(w) \/ OpenForReading(w) \/ CloseAgain(w)
    \/ Count(w) \/ SendHeader(w) \/ Unlock(w)
    \/ Reserve(w) \/ Advance(w) \/ Dump(w) \/ WriteRecord(w)

LEMMA QuietLeavesFiles ==
    ASSUME NEW w \in Worker, Quiet(w)
    PROVE  UNCHANGED << files, old, got, conn, cut >>
<1>1. CASE ReadSkipped(w) \/ Read(w) \/ HcOpen(w) \/ HcRead(w) \/ HcWrite(w) \/ HcClose(w)
  BY <1>1 DEF ReadSkipped, Read, HcOpen, HcRead, HcWrite, HcClose, server, history
<1>2. CASE \/ Lock(w) \/ ProcessSkipped(w) \/ OpenFails(w) \/ OpenForReading(w)
           \/ CloseAgain(w)
  BY <1>2 DEF Lock, ProcessSkipped, OpenFails, OpenForReading, CloseAgain, server, history
<1>3. CASE Count(w) \/ SendHeader(w) \/ Unlock(w)
  BY <1>3 DEF Count, SendHeader, Unlock, server, history
<1>4. CASE Reserve(w) \/ Advance(w) \/ Dump(w) \/ WriteRecord(w)
  BY <1>4 DEF Reserve, Advance, Dump, WriteRecord, server, history
<1> QED
  BY <1>1, <1>2, <1>3, <1>4 DEF Quiet

\* Files change only under the lock, and descriptors stay leaked.
LEMMA FilesChangeUnderLock ==
    ASSUME TypeOK, NEW w \in Worker, WStep(w)
    PROVE  /\ files' = files \/ pc[w] \in Critical
           /\ leaked' \in Nat /\ leaked' >= leaked
<1>1. files' = files \/ pc[w] \in Critical
  <2>1. CASE Quiet(w)
    BY <2>1, QuietLeavesFiles
  <2>2. CASE Begin(w) \/ OpenForWriting(w) \/ PutBody(w) \/ SendBody(w) \/ Close(w)
    BY <2>2 DEF Begin, OpenForWriting, PutBody, SendBody, Close, server, Critical
  <2> QED
    BY <2>1, <2>2 DEF WStep, Step, Quiet
<1>2. leaked' = leaked \/ leaked' = leaked + 1
  <2>1. CASE ReadSkipped(w) \/ Read(w) \/ HcOpen(w) \/ HcRead(w) \/ HcWrite(w) \/ Begin(w)
    BY <2>1 DEF ReadSkipped, Read, HcOpen, HcRead, HcWrite, Begin, server
  <2>2. CASE \/ Lock(w) \/ ProcessSkipped(w) \/ OpenFails(w) \/ OpenForReading(w)
             \/ CloseAgain(w)
    BY <2>2 DEF Lock, ProcessSkipped, OpenFails, OpenForReading, CloseAgain, server
  <2>3. CASE Count(w) \/ SendHeader(w) \/ Unlock(w) \/ OpenForWriting(w) \/ PutBody(w)
    BY <2>3 DEF Count, SendHeader, Unlock, OpenForWriting, PutBody, server
  <2>4. CASE Reserve(w) \/ Advance(w) \/ WriteRecord(w) \/ SendBody(w) \/ Close(w)
    BY <2>4 DEF Reserve, Advance, WriteRecord, SendBody, Close, server
  <2>5. CASE HcClose(w) \/ Dump(w)
    BY <2>5 DEF HcClose, Dump, TypeOK
  <2> QED
    BY <2>1, <2>2, <2>3, <2>4, <2>5 DEF WStep, Step
<1> QED
  BY <1>1, <1>2 DEF TypeOK

\* The length of what a PUT writes is one that a client announced, or half of it.
LEMMA PutsAnnounced ==
    ASSUME IInv, Contents, Lengths, NEW w \in Worker, pc[w] = "body",
           message[w].content_length # 0, NEW d \in {conn[w].id, Mixture}
    PROVE  /\ [data |-> d, len |-> message[w].content_length] \in Content
           /\ [data |-> d, len |-> message[w].content_length \div 2] \in Content
<1>1. message[w].status = 201
  BY DEF IInv, PutsFiles
<1>2. Announced(message[w])
  BY <1>1 DEF Lengths, LengthsOf, Failing
<1>3. PICK r \in Request : message[w].content_length = r.len
  BY <1>2 DEF Announced
<1>4. MaxRequests \in Nat /\ d \in Mixture .. MaxRequests
  BY RequestAssumption DEF Contents, Mixture
<1> QED
  BY <1>3, <1>4 DEF Content

\* What a GET sends is as long as its header said.
LEMMA SentAsAnnounced ==
    ASSUME TypeOK, Lengths, NEW w \in Worker, pc[w] = "send",
           message[w].req.name # healthcheck, Errno(message[w].req) = "none"
    PROVE  message[w].content_length = files[message[w].req.name].len
<1>1. leaked < FdLimit
  BY RequestAssumption DEF Errno, TypeOK
<1>2. message[w].status \in Status \ Failing /\ message[w].req.method = "GET"
  BY DEF Lengths, LengthsOf, TypeOK, MessageType
<1>3. message[w].status = 200
  BY <1>1, <1>2, RequestAssumption DEF Lengths, LengthsOf, Status, TypeOK
<1> QED
  BY <1>3 DEF Lengths, LengthsOf

\* If nothing could be read, as much is sent as was announced.
LEMMA SentInstead ==
    ASSUME TypeOK, Contents, Lengths, NEW w \in Worker, pc[w] = "send",
           message[w].req.name # healthcheck
    PROVE  [data |-> Mixture, len |-> message[w].content_length] \in Content
<1> DEFINE m == message[w]
<1>1. m.status \in {0, 200, 201} /\ m.req.method = "GET" /\ m.req.name \in File
  BY DEF Lengths, LengthsOf, TypeOK, MessageType, Status, RequestType
<1>2. m.status # 201
  BY <1>1 DEF Lengths, LengthsOf
<1>3. MaxRequests \in Nat /\ Mixture \in Mixture .. MaxRequests
  BY RequestAssumption DEF Mixture
<1>4. CASE m.status = 200
  <2>1. m.content_length = files[m.req.name].len /\ files[m.req.name] \in Content
    BY <1>1, <1>4 DEF Lengths, LengthsOf, Contents
  <2> QED BY <1>3, <2>1 DEF Content
<1>5. CASE m.status = 0
  <2>1. Announced(m)
    BY <1>5 DEF Lengths, LengthsOf
  <2>2. m.content_length = 0 \/ \E r \in Request : m.content_length = r.len
    BY <2>1 DEF Announced
  <2> QED BY <1>3, <2>2 DEF Content
<1> QED BY <1>1, <1>2, <1>4, <1>5

\* Files hold, and clients got, what some connection sent as a whole.
LEMMA StepKeepsContents ==
    ASSUME IInv, Contents, Lengths, NEW w \in Worker, WStep(w)
    PROVE  Contents'
<1>t. TypeOK
  BY DEF IInv
<1>e. Empty \in Content /\ MaxRequests \in Nat
  <2>1. MaxRequests \in Nat
    BY RequestAssumption
  <2>2. 0 \in Mixture .. MaxRequests
    BY <2>1 DEF Mixture
  <2> QED
    BY <2>1, <2>2 DEF Empty, Content
<1>1. CASE Quiet(w)
  BY <1>1, QuietLeavesFiles DEF Contents
<1>2. CASE Begin(w)
  <2>1. begun + 1 \in 0 .. MaxRequests
    BY <1>2, <1>t, <1>e DEF Begin, TypeOK
  <2>2. PICK r \in Request \cup {Nothing} :
           conn' = [conn EXCEPT ![w] = [id |-> begun + 1, sent |-> r]]
    BY <1>2 DEF Begin
  <2>3. \A v \in Worker : conn'[v].id \in 0 .. MaxRequests
    BY <1>t, <2>1, <2>2 DEF TypeOK, Contents
  <2> QED
    BY <1>2, <2>3 DEF Begin, Contents, server
<1>3. CASE OpenForWriting(w)
  <2>1. files' = [files EXCEPT ![message[w].req.name] = Empty]
        /\ old' = [old EXCEPT ![w] = files[message[w].req.name]]
        /\ UNCHANGED << conn, got >>
    BY <1>3 DEF OpenForWriting
  <2>2. message[w].req.name \in File
    BY <1>3, <1>t DEF OpenForWriting, IInv, PutsFiles, TypeOK, MessageType, RequestType
  <2> QED
    BY <1>e, <2>1, <2>2 DEF Contents
<1>4. CASE PutBody(w)
  <2> DEFINE n == message[w].content_length
             f == message[w].req.name
  <2>1. /\ pc[w] = "body" /\ old' = [old EXCEPT ![w] = Empty] /\ UNCHANGED << conn, got >>
    BY <1>4 DEF PutBody
  <2>2. \/ files' = files
        \/ n # 0 /\ \E d \in {conn[w].id, Mixture}, k \in {n, n \div 2} :
              files' = [files EXCEPT ![f] = [data |-> d, len |-> k]]
    BY <1>4 DEF PutBody
  <2>3. n # 0 => \A d \in {conn[w].id, Mixture}, k \in {n, n \div 2} :
                    [data |-> d, len |-> k] \in Content
    BY <2>1, PutsAnnounced
  <2> HIDE DEF n, f
  <2>4. files' \in [File -> Content]
    BY <2>2, <2>3 DEF Contents
  <2> QED
    BY <1>e, <2>1, <2>4 DEF Contents
<1>5. CASE SendBody(w)
  <2> DEFINE m == message[w]
             n == m.req.name
  <2>1. /\ pc[w] = "send" /\ UNCHANGED << files, old, conn >>
        /\ \/ UNCHANGED got
           \/ /\ n # healthcheck /\ Errno(m.req) = "none"
              /\ got' = [got EXCEPT ![w] = << m.content_length, files[n] >>]
           \/ /\ n # healthcheck
              /\ got' = [got EXCEPT ![w] = << m.content_length,
                                              [data |-> Mixture, len |-> m.content_length] >>]
    BY <1>5 DEF SendBody, server
  <2>2. CASE UNCHANGED got
    BY <2>1, <2>2 DEF Contents
  <2>3. CASE /\ n # healthcheck /\ Errno(m.req) = "none"
             /\ got' = [got EXCEPT ![w] = << m.content_length, files[n] >>]
    <3>1. m.content_length = files[n].len
      BY <2>1, <2>3, <1>t, SentAsAnnounced
    <3>2. n \in File
      BY <1>t, <2>3 DEF TypeOK, MessageType, RequestType
    <3>3. files[n] \in Content /\ got' \in [Worker -> {<< v.len, v >> : v \in Content}]
      BY <2>3, <3>1, <3>2 DEF Contents
    <3> QED
      BY <2>1, <3>3 DEF Contents
  <2>4. CASE /\ n # healthcheck
             /\ got' = [got EXCEPT ![w] = << m.content_length,
                                             [data |-> Mixture, len |-> m.content_length] >>]
    <3> DEFINE v == [data |-> Mixture, len |-> m.content_length]
    <3>1. v \in Content
      BY <1>t, <2>1, <2>4, SentInstead
    <3>2. v.len = m.content_length
      OBVIOUS
    <3>4. got' = [got EXCEPT ![w] = << v.len, v >>]
      BY <2>4, <3>2
    <3> HIDE DEF v
    <3>3. got' \in [Worker -> {<< x.len, x >> : x \in Content}]
      BY <3>1, <3>4 DEF Contents
    <3> QED
      BY <2>1, <3>3 DEF Contents
  <2> QED
    BY <2>1, <2>2, <2>3, <2>4
<1>6. CASE Close(w)
  <2>1. conn' = [conn EXCEPT ![w] = NoConn] /\ UNCHANGED << files, old, got >>
    BY <1>6 DEF Close, server
  <2>2. \A v \in Worker : conn'[v].id \in 0 .. MaxRequests
    BY <1>t, <1>e, <2>1 DEF NoConn, TypeOK, Contents
  <2> QED
    BY <2>1, <2>2 DEF Contents
<1> QED
  BY <1>1, <1>2, <1>3, <1>4, <1>5, <1>6 DEF WStep, Step, Quiet

\* What a step does to the requests of the others, and to its own.
LEMMA StepKeepsAsked ==
    ASSUME TypeOK, NEW w \in Worker, WStep(w)
    PROVE  /\ \A v \in Worker : v # w => conn'[v] = conn[v] /\ (v \in cut' <=> v \in cut)
           /\ ~Begin(w) /\ ~Close(w) => UNCHANGED conn
<1>1. CASE Quiet(w)
  BY <1>1, QuietLeavesFiles
<1>2. CASE OpenForWriting(w) \/ PutBody(w) \/ SendBody(w)
  BY <1>2 DEF OpenForWriting, PutBody, SendBody
<1>3. CASE Begin(w) \/ Close(w)
  BY <1>3 DEF Begin, Close, TypeOK
<1> QED
  BY <1>1, <1>2, <1>3 DEF WStep, Step, Quiet

\* Another worker's step leaves the lengths of a worker alone.
LEMMA OthersKeepLengths ==
    ASSUME IInv, Lengths, NEW w \in Worker, WStep(w), NEW v \in Worker, v # w
    PROVE  LengthsOf(v)'
<1>1. Others(w) /\ TypeOK
  BY StepKeepsOthers DEF IInv
<1>2. pc'[v] = pc[v] /\ message'[v] = message[v]
  BY <1>1 DEF Others
<1>3. leaked >= FdLimit => leaked' >= FdLimit
  BY <1>1, FilesChangeUnderLock, RequestAssumption DEF TypeOK
<1>4. pc[v] \in {"body", "count", "send"} => files' = files
  BY <1>1, FilesChangeUnderLock DEF IInv, Mutex, Critical
<1>5. LengthsOf(v)
  BY DEF Lengths
<1>6. /\ v \in cut' <=> v \in cut
      /\ Asked(v)' = Asked(v) /\ Announced(message[v])' = Announced(message[v])
  BY <1>1, <1>2, StepKeepsAsked DEF Asked, Announced
<1> QED
  BY <1>2, <1>3, <1>4, <1>5, <1>6 DEF LengthsOf

\* And its own step.
LEMMA StepKeepsLengths ==
    ASSUME IInv, Lengths, NEW w \in Worker, WStep(w)
    PROVE  Lengths'
<1> DEFINE m == message[w]
<1>t. TypeOK /\ LengthsOf(w) /\ m \in MessageType
  BY DEF IInv, Lengths, TypeOK
<1>p. pc \in [Worker -> Label] /\ message \in [Worker -> MessageType]
  BY <1>t DEF TypeOK
<1>c. ASSUME UNCHANGED conn PROVE message'[w].req = m.req => Asked(w)' = Asked(w)
  BY <1>c DEF Asked
<1>1. SUFFICES LengthsOf(w)'
  BY OthersKeepLengths DEF Lengths
\* Far from the file.
<1>2. ASSUME pc'[w] \notin Early \cup {"read", "body", "reclose", "count", "send"}
      PROVE  LengthsOf(w)'
  BY <1>2 DEF LengthsOf, Early
<1>3. CASE Unlock(w) \/ Reserve(w) \/ Advance(w) \/ Dump(w) \/ WriteRecord(w) \/ Close(w)
  BY <1>2, <1>3, <1>p DEF Unlock, Reserve, Advance, Dump, WriteRecord, Close, Goto, Early
\* The request is on its way.
<1>15. CASE Begin(w)
  <2>1. pc'[w] = "read" /\ w \notin cut'
    BY <1>15, <1>p DEF Begin, Goto
  <2> QED
    BY <2>1 DEF LengthsOf, Early
<1>4. CASE ReadSkipped(w)
  <2>1. /\ pc[w] = "read" /\ pc'[w] = "lock" /\ message'[w].status = 500
        /\ UNCHANGED cut
    BY <1>4, <1>p DEF ReadSkipped, Goto, history
  <2> QED
    BY <1>t, <2>1 DEF LengthsOf, Early, Failing
<1>5. CASE Read(w)
  <2> DEFINE r == IF conn[w].sent # Nothing THEN conn[w].sent
                  ELSE [message[w].req EXCEPT !.len = NoLength]
             s == ParseStatus(r)
  <2>1. /\ message'[w].status = s /\ message'[w].req = r
        /\ message'[w].content_length = IF s = 0 /\ r.len # NoLength THEN r.len ELSE 0
        /\ pc[w] = "read" /\ pc'[w] \in {"hcopen", "lock"}
    BY <1>5, <1>p DEF Read, Set, Goto
  <2>2. s \in {0, 400, 403, 404}
    BY DEF ParseStatus
  <2>3. r.len # NoLength => r \in Request
    BY <1>t DEF TypeOK, MessageType, RequestType
  <2>4. UNCHANGED << conn, cut >>
    BY <1>5 DEF Read, history
  <2>5. Asked(w)' = r
    BY <2>1, <2>4 DEF Asked
  <2> HIDE DEF r, s
  <2>6. s = 0 => Announced(message[w])'
    BY <2>1, <2>3 DEF Announced
  <2> QED
    BY <1>t, <2>1, <2>2, <2>4, <2>5, <2>6 DEF LengthsOf, Early, Failing
<1>6. CASE HcOpen(w) \/ HcRead(w) \/ HcWrite(w) \/ HcClose(w) \/ Lock(w)
  <2>1. pc[w] \in Early /\ pc'[w] \in Early /\ UNCHANGED << message, conn, cut >>
    BY <1>6, <1>p DEF HcOpen, HcRead, HcWrite, HcClose, Lock, Goto, Early, server, history
  <2>2. Asked(w)' = Asked(w) /\ Announced(m)' = Announced(m)
    BY <2>1 DEF Asked, Announced
  <2> HIDE DEF m
  <2>3. pc'[w] \notin {"body", "reclose", "read", "count", "send"}
    BY <2>1 DEF Early
  <2>4. m' = m
    BY <2>1 DEF m
  <2> QED
    BY <1>t, <2>1, <2>2, <2>3, <2>4 DEF LengthsOf, Early, m
\* The file is opened.
<1>7. CASE ProcessSkipped(w)
  <2>1. /\ pc[w] = "process" /\ pc'[w] = "count" /\ message'[w].status \in Failing
        /\ UNCHANGED cut
    BY <1>7, <1>p DEF ProcessSkipped, Respond, Set, Goto, history
  <2> QED
    BY <1>t, <2>1 DEF LengthsOf, Early, Failing
<1>8. CASE OpenFails(w)
  <2>1. /\ pc[w] = "process" /\ m.status \notin Failing /\ Errno(m.req) # "none"
        /\ pc'[w] = "count" /\ message'[w].req = m.req /\ UNCHANGED << leaked, conn, cut >>
        /\ message'[w].content_length = m.content_length
        /\ message'[w].status = IF Errno(m.req) = "EACCES" THEN 403
                                ELSE IF Errno(m.req) = "ENOENT" THEN 404 ELSE m.status
    BY <1>8, <1>p, <1>t DEF OpenFails, Respond, Set, Goto, MessageType, server, history
  <2>2. m.status = 0
    BY <1>t, <2>1 DEF LengthsOf, Early
  <2>3. m.req.method # "PUT" /\ Errno(m.req) \notin {"EACCES", "ENOENT"} => leaked >= FdLimit
    BY <2>1, RequestAssumption DEF Errno
  <2>4. Announced(m) /\ Asked(w) = m.req /\ w \notin cut
    BY <1>t, <2>1 DEF LengthsOf, Early
  <2>5. Announced(message[w])' /\ Asked(w)' = m.req
    BY <2>1, <2>4 DEF Announced, Asked
  <2> HIDE DEF m
  <2> QED
    BY <2>1, <2>2, <2>3, <2>4, <2>5 DEF LengthsOf, Early
<1>9. CASE OpenForReading(w)
  <2>1. /\ pc[w] = "process" /\ m.status \notin Failing
        /\ pc'[w] = "count" /\ message'[w].req = m.req /\ UNCHANGED << files, conn, cut >>
        /\ message'[w].status = 200
        /\ m.req.name # healthcheck => message'[w].content_length = files[m.req.name].len
    BY <1>9, <1>p, <1>t DEF OpenForReading, Respond, Set, Goto, MessageType, server, history
  <2>2. Asked(w) = m.req /\ w \notin cut
    BY <1>t, <2>1 DEF LengthsOf, Early
  <2>3. Asked(w)' = m.req
    BY <2>1, <2>2 DEF Asked
  <2> QED
    BY <2>1, <2>2, <2>3 DEF LengthsOf, Early
<1>10. CASE OpenForWriting(w)
  <2>1. /\ pc[w] = "process" /\ m.status \notin Failing /\ pc'[w] = "body"
        /\ message'[w].content_length = m.content_length /\ message'[w].req = m.req
        /\ m.req.method = "PUT" /\ UNCHANGED << conn, cut >>
        /\ files' = [files EXCEPT ![m.req.name] = Empty]
    BY <1>10, <1>p, <1>t DEF OpenForWriting, Set, Goto, MessageType
  <2>2. m.req.name \in File
    BY <1>10, <1>t DEF OpenForWriting, IInv, PutsFiles, TypeOK, MessageType, RequestType
  <2>3. files'[m.req.name] = Empty
    BY <1>t, <2>1, <2>2 DEF TypeOK
  <2>4. Announced(m) /\ Asked(w) = m.req /\ w \notin cut
    BY <1>t, <2>1 DEF LengthsOf, Early
  <2>5. Announced(message[w])' /\ Asked(w)' = m.req
    BY <2>1, <2>4 DEF Announced, Asked
  <2> HIDE DEF m
  <2> QED
    BY <2>1, <2>3, <2>4, <2>5 DEF LengthsOf, Early
<1>11. CASE PutBody(w)
  <2>1. m.req.method = "PUT" /\ m.status = 201
    BY <1>11 DEF PutBody, IInv, PutsFiles
  <2>2. /\ pc'[w] = "reclose" /\ message'[w].req = m.req
        /\ message'[w].status \in {500, 201} /\ pc[w] = "body" /\ UNCHANGED conn
    BY <1>11, <1>p, <1>t, <2>1 DEF PutBody, Set, Goto, MessageType
  <2>3. Asked(w) = m.req
    BY <1>t, <2>1, <2>2 DEF LengthsOf, Failing
  <2>4. Asked(w)' = m.req
    BY <2>2, <2>3 DEF Asked
  <2> HIDE DEF m
  <2> QED
    BY <2>1, <2>2, <2>4 DEF LengthsOf, Early
<1>16. CASE CloseAgain(w)
  <2>1. /\ pc[w] = "reclose" /\ pc'[w] = "count" /\ message'[w] = m /\ UNCHANGED << conn, cut >>
    <3>1. pc[w] = "reclose" /\ Goto(w, "count") /\ Set(w, m) /\ UNCHANGED << conn, cut >>
      BY <1>16 DEF CloseAgain, Respond, history
    <3> QED BY <3>1, <1>p DEF Set, Goto
  <2>2. m.status \in {201, 500} /\ m.req.method = "PUT"
    BY <1>t, <2>1 DEF LengthsOf
  <2> HIDE DEF m
  <2>3. message'[w].status = 201 \/ message'[w].status \in Failing
    BY <2>1, <2>2 DEF Failing
  <2>4. message'[w].req.method = "PUT" /\ message'[w].status \notin {0, 200}
    BY <2>1, <2>2
  <2>5. m.status \notin Failing => Asked(w) = m.req
    BY <1>t, <2>1 DEF LengthsOf, m
  <2>6. message'[w].status \notin Failing => Asked(w)' = message'[w].req
    BY <2>1, <2>5 DEF Asked
  <2> QED
    BY <2>1, <2>3, <2>4, <2>6 DEF LengthsOf, Early
\* The response.
<1>12. CASE Count(w)
  <2>1. UNCHANGED << pc, message, files, leaked, conn, cut >>
    BY <1>12 DEF Count, history
  <2>2. Asked(w)' = Asked(w) /\ Announced(m)' = Announced(m)
    BY <2>1 DEF Asked, Announced
  <2> QED
    BY <1>t, <2>1, <2>2 DEF LengthsOf
<1>13. CASE SendHeader(w)
  <2>1. pc[w] = "count" /\ UNCHANGED << message, files, leaked, conn, cut >>
    BY <1>13 DEF SendHeader, server
  <2>2. \/ pc'[w] = "unlock"
        \/ pc'[w] = "send" /\ m.req.method = "GET" /\ m.status \notin Failing
    BY <1>13, <1>p DEF SendHeader, Goto
  <2>3. Asked(w)' = Asked(w) /\ Announced(m)' = Announced(m)
    BY <2>1 DEF Asked, Announced
  <2> QED
    BY <1>t, <2>1, <2>2, <2>3 DEF LengthsOf, Early
<1>14. CASE SendBody(w)
  BY <1>2, <1>14, <1>p DEF SendBody, Goto, Early
<1> QED
  BY <1>3, <1>4, <1>5, <1>6, <1>7, <1>8, <1>9, <1>10, <1>11, <1>12, <1>13, <1>14, <1>15,
     <1>16 DEF WStep, Step

LEMMA InitWholeInv == Init => WholeInv
<1> SUFFICES ASSUME Init PROVE WholeInv
  OBVIOUS
<1>1. MaxRequests \in Nat
  BY RequestAssumption
<1>2. Empty \in Content /\ Absent \in Content /\ Directory \in Content
  BY <1>1 DEF Empty, Absent, Directory, Mixture, Content
<1>3. files \in [File -> Content] /\ old \in [Worker -> Content]
  BY <1>2 DEF Init
<1>4. got \in [Worker -> {<< v.len, v >> : v \in Content}]
  BY <1>2 DEF Init, Empty
<1>5. \A w \in Worker : conn[w].id \in 0 .. MaxRequests
  BY <1>1 DEF Init, NoConn
<1>6. Lengths
  <2>1. \A w \in Worker : pc[w] = "idle"
    BY DEF Init
  <2> QED
    BY <2>1 DEF Lengths, LengthsOf, Early
<1> QED
  BY InitIInv, <1>3, <1>4, <1>5, <1>6 DEF WholeInv, Contents

LEMMA NextKeepsWholeInv == WholeInv /\ [Next]_vars => WholeInv'
<1>1. ASSUME WholeInv, NEW w \in Worker, WStep(w) PROVE Contents' /\ Lengths'
  BY <1>1, StepKeepsContents, StepKeepsLengths DEF WholeInv
<1>2. ASSUME WholeInv, UNCHANGED vars PROVE Contents' /\ Lengths'
  <2>1. UNCHANGED << pc, message, files, old, got, conn, cut, leaked >>
    BY <1>2 DEF vars, server, worker, history
  <2>2. Contents'
    BY <1>2, <2>1 DEF WholeInv, Contents
  <2>3. \A w \in Worker : LengthsOf(w)'
    BY <1>2, <2>1 DEF WholeInv, Lengths, LengthsOf, Announced, Asked
  <2> QED
    BY <2>2, <2>3 DEF Lengths
<1> QED
  BY <1>1, <1>2, NextKeepsIInv DEF Next, WStep, WholeInv

\* While a PUT is under way, clients see the content from before it, otherwise
\* the files.
StoreDuringPut ==
    \A w \in Worker : Mutex /\ pc[w] = "body" =>
        Store = [f \in File |-> IF f = message[w].req.name THEN old[w] ELSE files[f]]
StoreAtRest ==
    (\A w \in Worker : pc[w] # "body") => Store = [f \in File |-> files[f]]

LEMMA StoreSeen == StoreDuringPut /\ StoreAtRest
<1>1. ASSUME NEW w \in Worker, Mutex, pc[w] = "body"
      PROVE  Store = [f \in File |-> IF f = message[w].req.name THEN old[w] ELSE files[f]]
  <2>1. \A v \in Worker : pc[v] = "body" => v = w
    BY <1>1 DEF Mutex, Critical
  <2>2. ASSUME NEW f \in File, f = message[w].req.name PROVE Store[f] = old[w]
    <3>1. w = CHOOSE v \in Worker : pc[v] = "body" /\ message[v].req.name = f
      BY <1>1, <2>1, <2>2
    <3> QED
      BY <1>1, <2>2, <3>1 DEF Store
  <2>3. ASSUME NEW f \in File, f # message[w].req.name PROVE Store[f] = files[f]
    BY <2>1, <2>3 DEF Store
  <2> QED
    BY <2>2, <2>3 DEF Store
<1>2. StoreAtRest
  BY DEF StoreAtRest, Store
<1> QED
  BY <1>1, <1>2 DEF StoreDuringPut

LEMMA StoreSeenNext == StoreDuringPut' /\ StoreAtRest'
BY StoreSeen, PTL

-----------------------------------------------------------------------------
\* The steps of FileStore.

\* A step that touches no file and is in no PUT is not seen.
LEMMA UnseenStep ==
    ASSUME TypeOK, Mutex, Mutex', NEW w \in Worker, Others(w), UNCHANGED << files, old >>,
           pc[w] # "body", pc'[w] # "body"
    PROVE  Store' = Store
<1>1. \A v \in Worker : /\ pc'[v] = "body" <=> pc[v] = "body"
                        /\ pc[v] = "body" => message'[v] = message[v]
  BY DEF Others
<1>2. CASE \A v \in Worker : pc[v] # "body"
  BY <1>1, <1>2, StoreSeen, StoreSeenNext DEF StoreAtRest
<1>3. CASE \E v \in Worker : pc[v] = "body"
  <2>1. PICK v \in Worker : pc[v] = "body"
    BY <1>3
  <2>2. Store = [f \in File |-> IF f = message[v].req.name THEN old[v] ELSE files[f]]
    BY <2>1, StoreSeen DEF StoreDuringPut
  <2>3. Store' = [f \in File |-> IF f = message'[v].req.name THEN old'[v] ELSE files'[f]]
    BY <1>1, <2>1, StoreSeenNext DEF StoreDuringPut
  <2> QED
    BY <1>1, <2>1, <2>2, <2>3
<1> QED
  BY <1>2, <1>3

\* What FileStore knows of the request of a worker.
LEMMA InputsAre ==
    ASSUME NEW w \in Worker
    PROVE  /\ Inputs[w].method = Asked(w).method /\ Inputs[w].name = Asked(w).name
           /\ Inputs[w].body = AskedBody(w)
BY DEF Inputs

\* What a PUT leaves in its file: the body that was asked for, or if something
\* came short or failed, no more than its length, of nobody.
LEMMA WrittenAsAsked ==
    ASSUME TypeOK, Contents, NEW w \in Worker, PutBody(w),
           message[w].req.name \in File, files[message[w].req.name] = Empty,
           Announced(message[w]), w \notin cut, Asked(w) = message[w].req
    PROVE  \/ w \notin cut' /\ files'[message[w].req.name] = AskedBody(w)
           \/ /\ w \in cut' /\ files'[message[w].req.name].data \in {0, Mixture}
              /\ files'[message[w].req.name].len \in 0 .. AskedBody(w).len
<1> DEFINE n == message[w].content_length
           name == message[w].req.name
<1>1. PICK read \in {"all", "some", "error"}, write \in {"done", "error"} :
         /\ \/ n = 0 /\ files' = files
            \/ n # 0 /\ write = "done"
               /\ files' = [files EXCEPT ![name] =
                      [data |-> IF read = "all" THEN conn[w].id ELSE Mixture, len |-> n]]
            \/ n # 0 /\ write = "error"
               /\ files' \in {files, [files EXCEPT ![name] =
                                         [data |-> Mixture, len |-> n \div 2]]}
         /\ cut' = IF read = "all" /\ write = "done" THEN cut ELSE cut \cup {w}
  BY DEF PutBody
<1>2. n \in Nat /\ n \div 2 \in 0 .. n
  BY DEF TypeOK, MessageType
<1>3. AskedBody(w) = IF n = 0 THEN Empty ELSE [data |-> conn[w].id, len |-> n]
  BY DEF AskedBody, Announced, NoLength
<1>4. Empty.data = 0 /\ Empty.len = 0
  BY DEF Empty
<1>5. \A v : [files EXCEPT ![name] = v][name] = v
  BY DEF Contents
<1>6. files[name] = Empty /\ w \notin cut
  OBVIOUS
<1> HIDE DEF n, name
<1>7. CASE n = 0
  <2>1. files'[name] = Empty /\ AskedBody(w) = Empty
    BY <1>1, <1>3, <1>6, <1>7
  <2> QED BY <1>4, <2>1, 0 \in 0 .. 0 DEF name
<1>8. CASE n # 0 /\ write = "done"
  <2> DEFINE v == [data |-> IF read = "all" THEN conn[w].id ELSE Mixture, len |-> n]
  <2>1. files'[name] = v
    BY <1>1, <1>5, <1>8
  <2>2. v.len = n /\ (read # "all" => v.data = Mixture)
    OBVIOUS
  <2>3. AskedBody(w).len = n /\ (read = "all" => v = AskedBody(w))
    BY <1>3, <1>8
  <2>4. IF read = "all" THEN w \notin cut' ELSE w \in cut'
    BY <1>1, <1>6, <1>8
  <2>5. n \in 0 .. n
    BY <1>2
  <2> HIDE DEF v
  <2> QED BY <2>1, <2>2, <2>3, <2>4, <2>5 DEF name
<1>9. CASE n # 0 /\ write = "error"
  <2> DEFINE v == [data |-> Mixture, len |-> n \div 2]
  <2>1. files'[name] \in {Empty, v}
    BY <1>1, <1>5, <1>6, <1>9
  <2>2. v.len = n \div 2 /\ v.data = Mixture
    OBVIOUS
  <2>3. AskedBody(w).len = n /\ w \in cut'
    BY <1>1, <1>3, <1>9
  <2>4. 0 \in 0 .. n
    BY <1>2
  <2> HIDE DEF v
  <2> QED BY <1>2, <1>4, <2>1, <2>2, <2>3, <2>4 DEF name
<1> QED BY <1>1, <1>7, <1>8, <1>9

\* Every step puts a file, gets one, or is not seen by the clients.
LEMMA StepImplementsFileStore ==
    ASSUME WholeInv, WholeInv', NEW w \in Worker, WStep(w)
    PROVE  FS!Next \/ UNCHANGED << Store, got >>
<1>t. /\ TypeOK /\ Mutex /\ Mutex' /\ Others(w) /\ Contents /\ Contents' /\ Lengths
      /\ PutsFiles
  BY StepKeepsOthers DEF WholeInv, IInv
<1>p. pc \in [Worker -> Label] /\ message \in [Worker -> MessageType]
  BY <1>t DEF TypeOK
<1>1. CASE Quiet(w) \/ Begin(w) \/ Close(w)
  <2>1. UNCHANGED << files, old, got >>
    <3>1. CASE Quiet(w)
      BY <3>1, QuietLeavesFiles
    <3>2. CASE Begin(w) \/ Close(w)
      BY <3>2 DEF Begin, Close, server
    <3> QED
      BY <1>1, <3>1, <3>2
  <2>2. pc[w] # "body" /\ pc'[w] # "body"
    <3>1. CASE ReadSkipped(w) \/ Read(w) \/ HcOpen(w) \/ HcRead(w) \/ HcWrite(w) \/ HcClose(w)
      BY <1>p, <3>1 DEF ReadSkipped, Read, HcOpen, HcRead, HcWrite, HcClose, Goto
    <3>2. CASE \/ Lock(w) \/ ProcessSkipped(w) \/ OpenFails(w) \/ OpenForReading(w)
               \/ CloseAgain(w)
      BY <1>p, <3>2 DEF Lock, ProcessSkipped, OpenFails, OpenForReading, CloseAgain,
         Respond, Goto
    <3>3. CASE Count(w) \/ SendHeader(w) \/ Unlock(w)
      BY <1>p, <3>3 DEF Count, SendHeader, Unlock, Goto
    <3>4. CASE Reserve(w) \/ Advance(w) \/ Dump(w) \/ WriteRecord(w)
      BY <1>p, <3>4 DEF Reserve, Advance, Dump, WriteRecord, Goto
    <3>5. CASE Begin(w) \/ Close(w)
      BY <1>p, <3>5 DEF Begin, Close, Goto
    <3> QED
      BY <1>1, <3>1, <3>2, <3>3, <3>4, <3>5 DEF Quiet
  <2> QED
    BY <1>t, <2>1, <2>2, UnseenStep
\* The file is truncated, but its old content is what is seen.
<1>2. CASE OpenForWriting(w)
  <2> DEFINE name == message[w].req.name
  <2>1. /\ pc[w] = "process" /\ pc'[w] = "body" /\ UNCHANGED got
        /\ files' = [files EXCEPT ![name] = Empty] /\ old' = [old EXCEPT ![w] = files[name]]
        /\ message'[w].req = message[w].req
    BY <1>2, <1>p DEF OpenForWriting, Goto, Set, MessageType
  <2>2. name \in File
    BY <1>2, <1>t DEF OpenForWriting, PutsFiles, TypeOK, MessageType, RequestType
  <2>3. Store = [f \in File |-> files[f]]
    <3>1. \A v \in Worker : pc[v] # "body"
      BY <1>t, <2>1 DEF Mutex, Critical
    <3> QED
      BY <3>1, StoreSeen DEF StoreAtRest
  <2>4. Store' = [f \in File |-> IF f = message'[w].req.name THEN old'[w] ELSE files'[f]]
    BY <1>t, <2>1, StoreSeenNext DEF StoreDuringPut
  <2>5. old'[w] = files[name] /\ \A f \in File : f # name => files'[f] = files[f]
    BY <1>t, <2>1, <2>2 DEF Contents
  <2> HIDE DEF name
  <2>6. Store' = Store
    <3>1. message'[w].req.name = name
      BY <2>1 DEF name
    <3> QED
      BY <2>3, <2>4, <2>5, <3>1
  <2> QED
    BY <2>1, <2>6
\* The body has been written: the file is replaced.
<1>3. CASE PutBody(w)
  <2> DEFINE name == message[w].req.name
  <2>1. pc[w] = "body" /\ pc'[w] = "reclose" /\ UNCHANGED got
    BY <1>3, <1>p DEF PutBody, Goto
  <2>2. name \in File
    <3>1. message[w].req.method = "PUT" /\ message[w].status = 201
      BY <1>t, <2>1 DEF PutsFiles
    <3>2. name # healthcheck
      BY <1>t, <3>1 DEF PutsFiles, Failing
    <3> QED
      BY <1>p, <3>2 DEF MessageType, RequestType
  <2>3. \A f \in File : f # name => files'[f] = files[f]
    BY <1>3, <1>t DEF PutBody, Contents
  <2>a. /\ message[w].req.method = "PUT" /\ message[w].status = 201
        /\ files[name] = Empty /\ Announced(message[w]) /\ w \notin cut
        /\ Asked(w) = message[w].req
    BY <1>t, <2>1 DEF PutsFiles, Lengths, LengthsOf, Failing
  <2>b. Asked(w).method = "PUT" /\ Asked(w).name = name
    BY <2>a
  <2>c. \/ w \notin cut' /\ files'[name] = AskedBody(w)
        \/ /\ w \in cut' /\ files'[name].data \in {0, Mixture}
           /\ files'[name].len \in 0 .. AskedBody(w).len
    BY <1>t, <1>3, <2>2, <2>a, WrittenAsAsked
  <2>4. Store = [f \in File |-> IF f = name THEN old[w] ELSE files[f]]
    BY <1>t, <2>1, StoreSeen DEF StoreDuringPut
  <2>5. Store' = [f \in File |-> files'[f]]
    <3>1. \A v \in Worker : pc'[v] # "body"
      BY <1>t, <2>1 DEF Mutex, Critical, Others
    <3> QED
      BY <3>1, StoreSeenNext DEF StoreAtRest
  <2>6. files'[name] \in Content
    BY <1>t, <2>2 DEF Contents
  <2> HIDE DEF name
  <2>7. Store' = [Store EXCEPT ![name] = files'[name]]
    BY <2>2, <2>3, <2>4, <2>5
  <2>8. /\ Inputs[w].method = "PUT" /\ Inputs[w].name = name
        /\ Inputs[w].body = AskedBody(w)
    BY <2>b, InputsAre DEF name
  <2>9. FS!Replace(w, files'[name])
    BY <2>1, <2>2, <2>7, <2>8 DEF FS!Replace
  <2>10. CASE w \notin cut'
    <3>1. files'[name] = AskedBody(w)
      BY <2>c, <2>10
    <3> QED
      BY <2>8, <2>9, <2>10, <3>1 DEF FS!Next, FS!Put
  <2>11. CASE w \in cut'
    <3> DEFINE v == files'[name]
    <3>1. v \in Content /\ v.data \in {0, Mixture} /\ v.len \in 0 .. Inputs[w].body.len
      BY <2>6, <2>8, <2>11, <2>c
    <3> HIDE DEF v
    <3>2. FS!Replace(w, v)
      BY <2>9 DEF v
    <3> QED
      BY <2>11, <3>1, <3>2 DEF FS!Next, FS!CutPut
  <2> QED
    BY <2>10, <2>11
\* A file is sent while nobody writes.
<1>4. CASE SendBody(w)
  <2> DEFINE m == message[w]
             n == m.req.name
  <2>1. pc[w] = "send" /\ pc'[w] = "unlock" /\ UNCHANGED << files, old >>
    BY <1>4, <1>p DEF SendBody, Goto, server
  <2>2. Store' = Store
    BY <1>t, <2>1, UnseenStep
  <2>3. CASE UNCHANGED got
    BY <2>2, <2>3
  <2>a. /\ m.status \notin Failing /\ m.req.method = "GET" /\ w \notin cut
        /\ Asked(w) = m.req
    BY <1>t, <2>1 DEF Lengths, LengthsOf
  <2>b. Inputs[w].method = "GET" /\ Inputs[w].name = n
    BY <2>a, InputsAre
  <2>4. CASE /\ n # healthcheck /\ Errno(m.req) = "none" /\ UNCHANGED cut
             /\ got' = [got EXCEPT ![w] = << m.content_length, files[n] >>]
    <3>1. m.content_length = files[n].len
      BY <1>t, <2>1, <2>4, SentAsAnnounced
    <3>2. n \in File
      BY <1>p, <2>4 DEF MessageType, RequestType
    <3>3. Store[n] = files[n]
      <4>1. \A v \in Worker : pc[v] # "body"
        BY <1>t, <2>1 DEF Mutex, Critical
      <4> QED
        BY <3>2, <4>1, StoreSeen DEF StoreAtRest
    <3>4. w \notin cut'
      BY <2>4, <2>a
    <3> HIDE DEF n
    <3> QED
      BY <2>2, <2>4, <2>b, <3>1, <3>2, <3>3, <3>4 DEF FS!Next, FS!Get
  <2>5. CASE /\ n # healthcheck /\ cut' = cut \cup {w}
             /\ got' = [got EXCEPT ![w] = << m.content_length,
                                             [data |-> Mixture, len |-> m.content_length] >>]
    <3> DEFINE v == [data |-> Mixture, len |-> m.content_length]
    <3>1. v \in Content
      BY <1>t, <2>1, <2>5, SentInstead
    <3>2. v.len = m.content_length /\ v.data = Mixture
      OBVIOUS
    <3>3. got' = [got EXCEPT ![w] = << v.len, v >>]
      BY <2>5, <3>2
    <3>4. w \in cut'
      BY <2>5
    <3> HIDE DEF v
    <3> QED
      BY <2>2, <2>b, <3>1, <3>2, <3>3, <3>4 DEF FS!Next, FS!CutGet
  <2>6. \/ UNCHANGED got
        \/ /\ n # healthcheck /\ Errno(m.req) = "none" /\ UNCHANGED cut
           /\ got' = [got EXCEPT ![w] = << m.content_length, files[n] >>]
        \/ /\ n # healthcheck /\ cut' = cut \cup {w}
           /\ got' = [got EXCEPT ![w] = << m.content_length,
                                           [data |-> Mixture, len |-> m.content_length] >>]
    BY <1>4 DEF SendBody
  <2> QED
    BY <2>3, <2>4, <2>5, <2>6
<1> QED
  BY <1>1, <1>2, <1>3, <1>4 DEF WStep, Step, Quiet

\* For any number of workers and any requests the server implements FileStore:
\* until a stray close or write has hit something, a PUT whose body arrives
\* replaces the file it names by that body, although the file is truncated long
\* before the body is there, and a GET returns the file it names as a whole, with
\* the length that its header announced from another open; when a body comes short
\* or a call fails, what is stored or sent instead is nobody's, and no longer than
\* announced.
THEOREM FilesAreWhole == Spec => ImplementsFileStore
<1>1. Init => FS!Init
  <2> SUFFICES ASSUME Init PROVE FS!Init
    OBVIOUS
  <2>1. WholeInv
    BY InitWholeInv
  <2>2. Store = [f \in File |-> files[f]]
    BY StoreSeen DEF Init, StoreAtRest
  <2> QED
    BY <2>1, <2>2 DEF WholeInv, Contents, FS!Init
<1>2. WholeInv /\ WholeInv' /\ [Next]_vars => [FS!Next]_(FS!vars)
  <2> SUFFICES ASSUME WholeInv, WholeInv', [Next]_vars PROVE [FS!Next]_(FS!vars)
    OBVIOUS
  <2>1. ASSUME NEW w \in Worker, WStep(w) PROVE [FS!Next]_(FS!vars)
    BY <2>1, StepImplementsFileStore DEF FS!vars
  <2>2. CASE UNCHANGED vars
    <3>1. Store' = Store
      BY <2>2 DEF Store, vars, server, worker, history
    <3> QED
      BY <2>2, <3>1 DEF FS!vars, vars, history
  <2> QED
    BY <2>1, <2>2 DEF Next, WStep
<1> QED
  BY <1>1, <1>2, InitWholeInv, NextKeepsWholeInv, PTL DEF Spec, ImplementsFileStore, FS!Spec
=============================================================================
