-------------------------- MODULE SequentialProofs --------------------------
(***************************************************************************)
(* What is proved of the parts of Sequential, one after the other: every   *)
(* request to one of the single-threaded servers is answered for itself    *)
(* and bodies are whole; the history of a thread and its priority stay in  *)
(* their bounds; a log record fits what is reserved for it; and the input  *)
(* of a command of the shell comes to an end.                              *)
(***************************************************************************)
EXTENDS Sequential, Sequences, FiniteSetTheorems, SequenceTheorems,
        WellFoundedInduction, TLAPS

-----------------------------------------------------------------------------
(* Facts about numbers. *)

LEMMA ModSmall == ASSUME NEW x \in Nat, NEW m \in Nat, x < m PROVE x % m = x
OBVIOUS

LEMMA ModNat == ASSUME NEW x \in Nat, NEW m \in Nat, m > 0 PROVE x % m \in Nat
OBVIOUS

LEMMA DivNat ==
    ASSUME NEW x \in Nat, NEW y \in Nat, y > 0 PROVE x \div y \in Nat /\ x \div y <= x
OBVIOUS

LEMMA DivUpTo ==
    ASSUME NEW x \in Nat, NEW y \in Nat, NEW z \in Nat, y > 0, x <= z * y PROVE x \div y <= z
OBVIOUS

LEMMA DivBelow ==
    ASSUME NEW x \in Nat, NEW y \in Nat, NEW z \in Nat, y > 0, x < z * y PROVE x \div y < z
OBVIOUS

\* Quotient and remainder of a division by twenty.
LEMMA DivTwenty ==
    ASSUME NEW n \in Nat
    PROVE  /\ n \div 20 \in Nat /\ n % 20 \in 0 .. 19
           /\ n = 20 * (n \div 20) + (n % 20)
OBVIOUS

\* The number of lines of the dump.
LEMMA LinesOf ==
    ASSUME NEW n \in Nat
    PROVE  /\ (n + 19) \div 20 \in Nat
           /\ (n + 19) \div 20 = n \div 20 + (IF n % 20 = 0 THEN 0 ELSE 1)
<1> DEFINE q == n \div 20
           r == n % 20
           p == (n + 19) \div 20
           s == (n + 19) % 20
<1>1. q \in Nat /\ r \in 0 .. 19 /\ n = 20 * q + r
  BY DivTwenty
<1>2. p \in Nat /\ s \in 0 .. 19 /\ n + 19 = 20 * p + s
  <2>1. n + 19 \in Nat
    OBVIOUS
  <2> QED BY <2>1, DivTwenty
<1> HIDE DEF q, r, p, s
<1>3. p = q + (IF r = 0 THEN 0 ELSE 1)
  BY <1>1, <1>2
<1> QED BY <1>2, <1>3 DEF q, r, p

\* A set of natural numbers that is not empty has a least element.
LEMMA LeastElement ==
    ASSUME NEW T \in SUBSET Nat, T # {}
    PROVE  \E x \in T : \A y \in T : x <= y
<1> DEFINE R == OpToRel(<, Nat)
<1>1. IsWellFoundedOn(R, Nat)
  BY NatLessThanWellFounded
<1>2. \A x, y \in Nat : y < x => << y, x >> \in R
  BY Zenon DEF OpToRel
<1> HIDE DEF R
<1>3. PICK x \in T : \A y \in T : ~ (<< y, x >> \in R)
  BY <1>1, WFMin
<1>4. \A y \in T : ~ (y < x)
  BY <1>2, <1>3
<1> QED BY <1>4

\* Induction over the natural numbers, stated for a set of them.
LEMMA Induction ==
    ASSUME NEW T \in SUBSET Nat, 0 \in T, \A n \in T : n + 1 \in T
    PROVE  T = Nat
<1> SUFFICES ASSUME Nat \ T # {} PROVE FALSE
  OBVIOUS
<1>1. PICK m \in Nat \ T : \A j \in Nat \ T : m <= j
  <2> DEFINE D == Nat \ T
  <2>1. D \in SUBSET Nat /\ D # {}
    OBVIOUS
  <2> HIDE DEF D
  <2>2. \E m \in D : \A j \in D : m <= j
    BY <2>1, LeastElement
  <2> QED BY <2>2 DEF D
<1>2. m - 1 \in Nat \ T
  BY <1>1
<1> QED BY <1>1, <1>2

-----------------------------------------------------------------------------
Unit    == Nat \X Nat
Content == [len : Int, data : Seq(Unit)]
Methods == {"GET", "PUT", "HEAD", "BAD"}
Req     == [method : Methods, name : File, len : Nat]
Message == [req : Req \cup {Nothing}, status : Int, content_length : Nat]
Conn    == [id : Nat, req : Request \cup {Nothing}, in : Nat, clean : BOOLEAN,
            spoilt : BOOLEAN]
Answer  == [status : Int, len : Int, body : Seq(Unit)]

-----------------------------------------------------------------------------
(* The servers: what holds wherever they are. *)

\* Directories stay what they are, and a file is as long as its content.
FileOf(f, c) ==
    IF kind[f] = "directory" THEN c = Srv!Directory
    ELSE c = Srv!Absent \/ c.len = Len(c.data)
Opened(f) == files[f] # Srv!Absent

ServerTypes ==
    /\ which \in {"c", "cpp"} /\ broken \in BOOLEAN
    /\ files \in [File -> Content] /\ before \in [File -> Content]
    /\ message \in Message /\ conn \in Conn /\ answer \in Answer
    /\ \A f \in File : FileOf(f, files[f])
    /\ conn.in <= Srv!Length(conn.req)
    /\ which = "c" => (message.status = 500 <=> broken)
    /\ which = "cpp" => ~broken

\* What has been stored of the body, and what is left of it.
Stored == files[conn.req.name].data = Srv!Units(conn.id, 1, conn.in)
Whole  == files[conn.req.name].data = Srv!Units(conn.id, 1, Srv!Length(conn.req))
Left   == message.content_length = Srv!Length(conn.req) - conn.in

-----------------------------------------------------------------------------
(* The servers: what holds at one place of the program. *)

AtRead == at_server = "read" =>
    /\ files = before /\ conn.in = 0 /\ conn.clean /\ answer = Srv!NoAnswer
    /\ conn.spoilt <=> Srv!Spoilt

AtProcess == at_server = "process" =>
    /\ which = "c" /\ message.status # 500 /\ ~conn.spoilt
    /\ message.status # 400 => message.req # Nothing
    /\ Srv!InOrder => /\ message.req = conn.req /\ files = before
                      /\ message.status = IF conn.req.method = "BAD" THEN 400 ELSE 0
                      /\ message.content_length = Srv!Length(conn.req)
                      /\ conn.clean => conn.in = 0

AtBody == at_server = "body" =>
    /\ which = "c" /\ ~conn.spoilt /\ message.req # Nothing /\ message.req.method = "PUT"
    /\ kind[message.req.name] # "directory" /\ Opened(message.req.name)
    /\ Srv!InOrder => /\ message.req = conn.req
                      /\ message.status = 201 /\ Srv!Deserved = 201
                      /\ conn.clean => Stored /\ Left

AtHead == at_server = "head" =>
    /\ which = "c" /\ (conn.spoilt => broken /\ files = before)
    /\ message.status \notin Srv!Failing =>
          /\ message.req # Nothing
          /\ message.req.method = "GET" =>
                /\ message.status = 200 /\ Opened(message.req.name)
                /\ message.content_length = files[message.req.name].len
    /\ Srv!InOrder => /\ message.req = conn.req /\ message.status = Srv!Deserved
                      /\ message.status # 201 => files = before
                      /\ conn.clean /\ message.status = 201 => Whole

AtSend == at_server = "send" =>
    /\ which = "c" /\ message.status = 200 /\ ~conn.spoilt
    /\ message.req # Nothing /\ message.req.method = "GET"
    /\ Opened(message.req.name)
    /\ LET data == files[message.req.name].data IN
       kind[message.req.name] # "directory" =>
          /\ Len(answer.body) + message.content_length = Len(data)
          /\ answer.body = SubSeq(data, 1, Len(answer.body))
    /\ Srv!InOrder => /\ message.req = conn.req /\ files = before
                      /\ answer.status = 200 /\ Srv!Deserved = 200
                      /\ answer.len = files[conn.req.name].len

AtRefuse == at_server = "refuse" =>
    /\ which = "cpp"
    /\ conn.spoilt => Srv!StatusOf(errno, 400) = 400 /\ files = before
    /\ Srv!InOrder => Srv!StatusOf(errno, 400) = Srv!Deserved /\ files = before

AtServe == at_server = "serve" =>
    /\ which = "cpp" /\ ~conn.spoilt /\ conn.req # Nothing
    /\ message.req = [conn.req EXCEPT !.method = Srv!Method(conn.req)]
    /\ Opened(conn.req.name)
    /\ message.req.method = "GET" => Srv!Deserved = 200 /\ files = before
    /\ message.req.method = "PUT" =>
          /\ Srv!Deserved = 201 /\ kind[conn.req.name] # "directory"
          /\ conn.clean => Stored
          /\ answer # Srv!NoAnswer => answer.status = 201

AtClose == Srv!AnsweredForItself /\ Srv!BodiesWhole

ServerPlaces ==
    AtRead /\ AtProcess /\ AtBody /\ AtHead /\ AtSend /\ AtRefuse /\ AtServe /\ AtClose

ServerInv == ServerTypes /\ ServerPlaces
-----------------------------------------------------------------------------
(* Sequences of units. *)

LEMMA Listed ==
    ASSUME NEW n \in Nat, NEW q \in [1 .. n -> Unit] PROVE q \in Seq(Unit) /\ Len(q) = n
OBVIOUS

LEMMA UnitsAre ==
    ASSUME NEW c \in Nat, NEW a \in Nat, NEW n \in Nat
    PROVE  /\ Srv!Units(c, a + 1, a + n) = [k \in 1 .. n |-> << c, a + k >>]
           /\ Srv!Units(c, a + 1, a + n) \in Seq(Unit)
           /\ Len(Srv!Units(c, a + 1, a + n)) = n
<1>1. Srv!Units(c, a + 1, a + n) = [k \in 1 .. n |-> << c, a + k >>]
  BY DEF Srv!Units
<1>2. [k \in 1 .. n |-> << c, a + k >>] \in [1 .. n -> Unit]
  BY DEF Unit
<1> QED BY <1>1, <1>2, Listed

\* What comes next continues what there is.
LEMMA UnitsJoin ==
    ASSUME NEW c \in Nat, NEW a \in Nat, NEW n \in Nat
    PROVE  Srv!Units(c, 1, a) \o Srv!Units(c, a + 1, a + n) = Srv!Units(c, 1, a + n)
<1> DEFINE s == Srv!Units(c, 1, a)
           t == Srv!Units(c, a + 1, a + n)
           u == Srv!Units(c, 1, a + n)
<1>1. s = [k \in 1 .. a |-> << c, k >>] /\ s \in Seq(Unit) /\ Len(s) = a
  <2>1. s = [k \in 1 .. a |-> << c, k >>]
    BY DEF Srv!Units
  <2>2. [k \in 1 .. a |-> << c, k >>] \in [1 .. a -> Unit]
    BY DEF Unit
  <2> QED BY <2>1, <2>2, Listed
<1>2. t = [k \in 1 .. n |-> << c, a + k >>] /\ t \in Seq(Unit) /\ Len(t) = n
  BY UnitsAre, ZenonT(60)
<1>3. u = [k \in 1 .. a + n |-> << c, k >>]
  BY DEF Srv!Units
<1> HIDE DEF s, t, u
<1>4. s \o t = [k \in 1 .. a + n |-> IF k <= a THEN s[k] ELSE t[k - a]]
  BY <1>1, <1>2
<1>5. \A k \in 1 .. a + n : (IF k <= a THEN s[k] ELSE t[k - a]) = << c, k >>
  <2> SUFFICES ASSUME NEW k \in 1 .. a + n
               PROVE  (IF k <= a THEN s[k] ELSE t[k - a]) = << c, k >>
    OBVIOUS
  <2>1. CASE k <= a
    <3>1. k \in 1 .. a
      BY <2>1
    <3> QED BY <2>1, <3>1, <1>1
  <2>2. CASE k > a
    <3>1. k - a \in 1 .. n /\ a + (k - a) = k
      BY <2>2
    <3>2. t[k - a] = << c, a + (k - a) >>
      BY <3>1, <1>2
    <3> QED BY <2>2, <3>1, <3>2
  <2> QED BY <2>1, <2>2
<1> QED BY <1>3, <1>4, <1>5 DEF s, t, u

\* A sequence that is copied piece by piece.
LEMMA SlicesJoin ==
    ASSUME NEW d \in Seq(Unit), NEW a \in Nat, NEW n \in Nat, a + n <= Len(d)
    PROVE  /\ SubSeq(d, 1, a) \o SubSeq(d, a + 1, a + n) = SubSeq(d, 1, a + n)
           /\ SubSeq(d, 1, a + n) \in Seq(Unit) /\ Len(SubSeq(d, 1, a + n)) = a + n
<1> DEFINE s == SubSeq(d, 1, a)
           t == SubSeq(d, a + 1, a + n)
           u == SubSeq(d, 1, a + n)
<1>1. s = [k \in 1 .. a |-> d[k]] /\ s \in Seq(Unit) /\ Len(s) = a
  <2>1. \A k \in 1 .. a : d[k] \in Unit
    OBVIOUS
  <2>2. s = [k \in 1 .. a |-> d[k]]
    OBVIOUS
  <2> QED BY <2>1, <2>2
<1>2. t = [k \in 1 .. n |-> d[a + k]] /\ t \in Seq(Unit) /\ Len(t) = n
  <2>1. \A k \in 1 .. n : d[a + k] \in Unit
    OBVIOUS
  <2>2. t = [k \in 1 .. n |-> d[a + k]]
    OBVIOUS
  <2> QED BY <2>1, <2>2
<1>3. u = [k \in 1 .. a + n |-> d[k]] /\ u \in Seq(Unit) /\ Len(u) = a + n
  <2>1. \A k \in 1 .. a + n : d[k] \in Unit
    OBVIOUS
  <2>2. u = [k \in 1 .. a + n |-> d[k]]
    OBVIOUS
  <2> QED BY <2>1, <2>2
<1> HIDE DEF s, t, u
<1>4. s \o t = [k \in 1 .. a + n |-> IF k <= a THEN s[k] ELSE t[k - a]]
  BY <1>1, <1>2
<1>5. \A k \in 1 .. a + n : (IF k <= a THEN s[k] ELSE t[k - a]) = d[k]
  <2> SUFFICES ASSUME NEW k \in 1 .. a + n
               PROVE  (IF k <= a THEN s[k] ELSE t[k - a]) = d[k]
    OBVIOUS
  <2>1. CASE k <= a
    <3>1. k \in 1 .. a
      BY <2>1
    <3> QED BY <2>1, <3>1, <1>1
  <2>2. CASE k > a
    <3>1. k - a \in 1 .. n /\ a + (k - a) = k
      BY <2>2
    <3>2. t[k - a] = d[a + (k - a)]
      BY <3>1, <1>2
    <3> QED BY <2>2, <3>1, <3>2
  <2> QED BY <2>1, <2>2
<1> QED BY <1>3, <1>4, <1>5 DEF s, t, u

LEMMA WholeSlice == ASSUME NEW d \in Seq(Unit) PROVE SubSeq(d, 1, Len(d)) = d
OBVIOUS
-----------------------------------------------------------------------------
(* Every step of the servers keeps the invariant. *)

\* A place says nothing elsewhere.
LEMMA Elsewhere ==
    /\ at_server' # "read" => AtRead'
    /\ at_server' # "process" => AtProcess'
    /\ at_server' # "body" => AtBody'
    /\ at_server' # "head" => AtHead'
    /\ at_server' # "send" => AtSend'
    /\ at_server' # "refuse" => AtRefuse'
    /\ at_server' # "serve" => AtServe'
    /\ at_server' # "close" => AtClose'
BY DEF AtRead, AtProcess, AtBody, AtHead, AtSend, AtRefuse, AtServe, AtClose,
       Srv!AnsweredForItself, Srv!BodiesWhole

LEMMA SameRequest ==
    ASSUME which' = which, before' = before, conn'.req = conn.req, conn'.spoilt = conn.spoilt
    PROVE  /\ Srv!Deserved' = Srv!Deserved
           /\ broken' = broken => (Srv!InOrder' <=> Srv!InOrder)
           /\ broken' => ~Srv!InOrder'
BY DEF Srv!Deserved, Srv!InOrder, Srv!Method

\* What is sent and received are requests.
LEMMA RequestFacts ==
    ASSUME ServerTypes
    PROVE  /\ conn.id \in Nat /\ conn.in \in Nat /\ conn.clean \in BOOLEAN /\ conn.spoilt \in BOOLEAN
           /\ conn.req # Nothing => conn.req \in Req
           /\ message.req # Nothing => message.req \in Req
           /\ Srv!Length(conn.req) \in Nat
           /\ message.status \in Int /\ message.content_length \in Nat
           /\ answer.status \in Int /\ answer.len \in Int /\ answer.body \in Seq(Unit)
           /\ Buffer \in Nat \ {0}
           /\ \A f \in File : files[f].data \in Seq(Unit) /\ files[f].len \in Int
           /\ \A q \in Req : q.method \in Methods /\ q.name \in File /\ q.len \in Nat
BY ServersAssumption DEF ServerTypes, Conn, Message, Answer, Content, Req, Methods, Srv!Length

LEMMA ServerInit == Srv!Init => ServerInv
<1> SUFFICES ASSUME Srv!Init PROVE ServerInv
  OBVIOUS
<1>1. << >> \in Seq(Unit) /\ Len(<< >>) = 0
  OBVIOUS
<1>2. Srv!Absent \in Content /\ Srv!Directory \in Content
  BY <1>1 DEF Srv!Absent, Srv!Directory, Content
<1>3. files \in [File -> Content] /\ before \in [File -> Content]
  BY <1>2 DEF Srv!Init
<1>4. /\ message \in Message /\ broken \in BOOLEAN
      /\ which = "c" => (message.status = 500 <=> broken)
      /\ which = "cpp" => ~broken
  <2>1. PICK s \in {0, 500} :
            /\ s = 500 => which = "c"
            /\ message = [req |-> Nothing, status |-> s, content_length |-> 0]
            /\ broken = (s = 500)
    BY DEF Srv!Init
  <2>2. message \in Message
    BY ONLY <2>1 DEF Message
  <2>3. CASE s = 0
    BY <2>1, <2>2, <2>3
  <2>4. CASE s = 500
    BY <2>1, <2>2, <2>4
  <2> QED BY <2>3, <2>4
<1>5. conn \in Conn /\ conn.in <= Srv!Length(conn.req)
  BY DEF Srv!Init, Conn, Srv!Length
<1>6. answer \in Answer
  BY <1>1 DEF Srv!Init, Srv!NoAnswer, Answer
<1>7. \A f \in File : FileOf(f, files[f])
  BY DEF Srv!Init, FileOf
<1>8. which \in {"c", "cpp"}
  BY DEF Srv!Init
<1>9. ServerTypes
  BY <1>3, <1>4, <1>5, <1>6, <1>7, <1>8 DEF ServerTypes
<1>10. ServerPlaces
  BY DEF Srv!Init, ServerPlaces, AtRead, AtProcess, AtBody, AtHead, AtSend, AtRefuse, AtServe,
         AtClose, Srv!AnsweredForItself, Srv!BodiesWhole
<1> QED BY <1>9, <1>10 DEF ServerInv

LEMMA ServerStutter == ServerInv /\ UNCHANGED srvVars => ServerInv'
<1> SUFFICES ASSUME ServerInv, UNCHANGED srvVars PROVE ServerInv'
  OBVIOUS
<1>1. ServerTypes'
  BY DEF ServerInv, ServerTypes, srvVars, Srv!Length
<1>2. Srv!Deserved' = Srv!Deserved /\ (Srv!InOrder' <=> Srv!InOrder)
  BY SameRequest DEF srvVars
<1>3. AtRead' /\ AtProcess' /\ AtRefuse'
  BY <1>2 DEF ServerInv, ServerPlaces, srvVars, AtRead, AtProcess, AtRefuse, Srv!Length,
              Srv!StatusOf, Srv!Spoilt
<1>4. AtBody' /\ AtHead' /\ AtSend'
  BY <1>2 DEF ServerInv, ServerPlaces, srvVars, AtBody, AtHead, AtSend, Stored, Whole, Left,
              Opened, Srv!Length
<1>5. AtServe'
  BY <1>2 DEF ServerInv, ServerPlaces, srvVars, AtServe, Stored, Opened, Srv!Method
<1>6. AtClose'
  BY <1>2 DEF ServerInv, ServerPlaces, srvVars, AtClose, Srv!AnsweredForItself,
              Srv!BodiesWhole, Srv!Length
<1> QED BY <1>1, <1>3, <1>4, <1>5, <1>6 DEF ServerInv, ServerPlaces

\* Both servers: accept and close.
LEMMA AcceptStep ==
    ServerInv /\ (Srv!Accept \/ Srv!Close \/ Srv!AcceptFails) /\ UNCHANGED leaked => ServerInv'
<1> SUFFICES ASSUME ServerInv, Srv!Accept \/ Srv!Close \/ Srv!AcceptFails, UNCHANGED leaked
             PROVE  ServerInv'
  OBVIOUS
<1>t. ServerTypes
  BY DEF ServerInv
<1>1. CASE Srv!Accept
  <2>1. PICK q \in Request \cup {Nothing} :
            conn' = [id |-> conn.id + 1, req |-> q, in |-> 0, clean |-> TRUE,
                     spoilt |-> Srv!Spoilt]
    BY <1>1 DEF Srv!Accept
  <2>2. conn' \in Conn /\ conn'.in <= Srv!Length(conn'.req)
    <3>1. conn.id + 1 \in Nat /\ 0 \in Nat
      BY <1>t, RequestFacts
    <3>2. Srv!Length(q) >= 0
      BY ServersAssumption DEF Srv!Length
    <3>3. Srv!Spoilt \in BOOLEAN
      BY <1>t DEF Srv!Spoilt, ServerTypes
    <3> QED BY ONLY <2>1, <3>1, <3>2, <3>3 DEF Conn
  <2>3. answer' \in Answer
    BY <1>1 DEF Srv!Accept, Srv!NoAnswer, Answer
  <2>4. ServerTypes'
    BY <1>t, <1>1, <2>2, <2>3 DEF Srv!Accept, ServerTypes, Srv!Length
  <2>5. AtRead' /\ at_server' = "read"
    BY <1>1, <2>1 DEF Srv!Accept, AtRead, Srv!Goto, Srv!Spoilt
  <2> QED BY <2>4, <2>5, Elsewhere DEF ServerInv, ServerPlaces
<1>2. CASE Srv!Close
  <2>1. ServerTypes'
    BY <1>t, <1>2 DEF Srv!Close, ServerTypes, Srv!Length, Srv!conns
  <2>2. at_server' = "accept"
    BY <1>2 DEF Srv!Close, Srv!Goto
  <2> QED BY <2>1, <2>2, Elsewhere DEF ServerInv, ServerPlaces
<1>3. CASE Srv!AcceptFails
  <2>1. message' \in Message
    BY <1>t, <1>3 DEF Srv!AcceptFails, ServerTypes, Message
  <2>2. ServerTypes'
    BY <1>t, <1>3, <2>1 DEF Srv!AcceptFails, ServerTypes, Srv!Length, Srv!conns
  <2>3. at_server' = "accept"
    BY <1>3 DEF Srv!AcceptFails
  <2> QED BY <2>2, <2>3, Elsewhere DEF ServerInv, ServerPlaces
<1> QED BY <1>1, <1>2, <1>3

\* asgn1: the head is read.
LEMMA ReadStep == ServerInv /\ (Srv!ReadSkipped \/ Srv!Read \/ Srv!ReadNothing) => ServerInv'
<1> SUFFICES ASSUME ServerInv, Srv!ReadSkipped \/ Srv!Read \/ Srv!ReadNothing PROVE ServerInv'
  OBVIOUS
<1>t. ServerTypes
  BY DEF ServerInv
<1>1. CASE Srv!ReadSkipped
  <2>1. ServerTypes'
    BY <1>t, <1>1 DEF Srv!ReadSkipped, Srv!conns, ServerTypes, Srv!Length
  <2>2. /\ at_server' = "head" /\ which' = "c" /\ message'.status = 500 /\ broken'
        /\ files' = before'
    BY <1>t, <1>1 DEF Srv!ReadSkipped, Srv!Goto, ServerTypes, Srv!conns, ServerInv, ServerPlaces,
                      AtRead
  <2>3. AtHead'
    BY <2>2 DEF AtHead, Srv!InOrder, Srv!Failing
  <2> QED BY <2>1, <2>2, <2>3, Elsewhere DEF ServerInv, ServerPlaces
<1>2. CASE Srv!Read
  <2>1. PICK early \in 0 .. Srv!Length(conn.req) :
            conn' = [conn EXCEPT !.in = early, !.clean = early = 0]
    BY <1>2 DEF Srv!Read
  <2> DEFINE none == early = 0
  <2>0. none \in BOOLEAN /\ early \in Nat /\ early <= Srv!Length(conn.req)
    BY <1>t, RequestFacts
  <2>2. conn' = [id |-> conn.id, req |-> conn.req, in |-> early, clean |-> none,
                 spoilt |-> conn.spoilt]
    <3>1. conn \in Conn
      BY <1>t DEF ServerTypes
    <3> QED BY ONLY <2>1, <3>1 DEF Conn
  <2>3. /\ conn.req # Nothing /\ conn.req \in Req
        /\ message' = [req |-> conn.req, content_length |-> Srv!Length(conn.req),
                       status |-> IF conn.req.method = "BAD" THEN 400 ELSE 0]
    BY <1>t, <1>2, RequestFacts DEF Srv!Read
  <2>4. message' \in Message
    BY <1>t, <2>3, RequestFacts DEF Message
  <2>5. conn' \in Conn /\ conn'.req = conn.req /\ conn'.in <= Srv!Length(conn.req)
    <3> HIDE DEF none
    <3>1. conn.id \in Nat /\ conn.req \in Request \cup {Nothing} /\ conn.spoilt \in BOOLEAN
      BY <1>t DEF Conn, ServerTypes
    <3> QED BY <2>0, <2>2, <3>1 DEF Conn
  <2>6. ServerTypes'
    <3>0. message.status # 500 /\ which = "c"
      BY <1>2 DEF Srv!Read
    <3>1. message'.status # 500
      BY ONLY <2>3
    <3>2. /\ which' = which /\ broken' = broken /\ files' = files /\ before' = before
          /\ answer' = answer
      BY <1>2 DEF Srv!Read
    <3> QED BY <1>t, <2>4, <2>5, <3>0, <3>1, <3>2 DEF ServerTypes, Srv!Length
  <2>7. /\ at_server' = "process" /\ which' = "c" /\ files' = files /\ before' = before
        /\ files = before /\ ~conn.spoilt
    BY <1>t, <1>2 DEF Srv!Read, Srv!Goto, ServerInv, ServerPlaces, AtRead, Srv!Spoilt, ServerTypes
  <2>8. AtProcess'
    <3>1. /\ conn'.req = conn.req /\ conn'.in = early /\ (conn'.clean => early = 0)
          /\ conn'.spoilt = conn.spoilt
          /\ message'.req = conn.req /\ message'.content_length = Srv!Length(conn.req)
          /\ message'.status = IF conn.req.method = "BAD" THEN 400 ELSE 0
      BY <2>2, <2>3
    <3> HIDE DEF none
    <3> QED BY <3>1, <2>3, <2>7 DEF AtProcess, Srv!Length
  <2> QED BY <2>6, <2>7, <2>8, Elsewhere DEF ServerInv, ServerPlaces
<1>3. CASE Srv!ReadNothing
  <2>1. PICK s \in {0, 400} :
            /\ s = 0 => message.req # Nothing
            /\ message' = [message EXCEPT !.status = s, !.content_length = 0]
    BY <1>3 DEF Srv!ReadNothing, Srv!r
  <2>2. message' = [req |-> message.req, status |-> s, content_length |-> 0]
    BY <1>t, <2>1 DEF ServerTypes, Message
  <2>3. conn' = [id |-> conn.id, req |-> Nothing, in |-> conn.in, clean |-> FALSE,
                 spoilt |-> conn.spoilt]
    <3>1. conn \in Conn /\ conn.req = Nothing /\ conn' = [conn EXCEPT !.clean = FALSE]
      BY <1>t, <1>3 DEF ServerTypes, Srv!ReadNothing
    <3> QED BY ONLY <3>1 DEF Conn
  <2>4. message' \in Message
    BY <1>t, <2>2 DEF Message, ServerTypes
  <2>5. conn' \in Conn /\ conn'.in <= Srv!Length(conn'.req)
    <3>1. conn.id \in Nat /\ conn.in = 0 /\ conn.spoilt \in BOOLEAN
      BY <1>t, <1>3 DEF Conn, ServerTypes, Srv!ReadNothing, ServerInv, ServerPlaces, AtRead
    <3> QED BY <2>3, <3>1 DEF Conn, Srv!Length
  <2>6. ServerTypes'
    <3>1. /\ message'.status # 500 /\ message.status # 500 /\ which' = which /\ which = "c"
          /\ files' = files /\ before' = before /\ broken' = broken /\ answer' = answer
      BY <1>3, <2>1, <2>2 DEF Srv!ReadNothing
    <3> QED BY ONLY <1>t, <2>4, <2>5, <3>1 DEF ServerTypes
  <2>7. at_server' = "process" /\ which' = "c" /\ ~Srv!InOrder' /\ ~conn'.spoilt
    BY <1>t, <1>3, <2>3 DEF Srv!ReadNothing, Srv!Goto, Srv!InOrder, ServerInv, ServerPlaces, AtRead,
                            Srv!Spoilt, ServerTypes
  <2>8. AtProcess'
    BY <2>1, <2>2, <2>7 DEF AtProcess
  <2> QED BY <2>6, <2>7, <2>8, Elsewhere DEF ServerInv, ServerPlaces
<1> QED BY <1>1, <1>2, <1>3

\* What the status of a request in order should be, if the server is asgn1's.
LEMMA DeservedByC ==
    ASSUME which = "c", Srv!InOrder, files = before
    PROVE  /\ conn.req.method = "BAD" => Srv!Deserved = 400
           /\ conn.req.method # "BAD" /\ Srv!Errno(conn.req) # "none" =>
                 Srv!Deserved = Srv!StatusOf(Srv!Errno(conn.req), 0)
           /\ conn.req.method # "BAD" /\ Srv!Errno(conn.req) = "none" =>
                 Srv!Deserved = IF conn.req.method = "PUT" THEN 201 ELSE 200
BY DEF Srv!Deserved, Srv!Errno, Srv!StatusOf

\* asgn1: the request is refused, or its file opened.
LEMMA ProcessStep ==
    ServerInv /\ (Srv!Refuse \/ Srv!OpenFails \/ Srv!OpenForReading \/ Srv!OpenForWriting)
    => ServerInv'
<1> SUFFICES ASSUME ServerInv, Srv!Refuse \/ Srv!OpenFails \/ Srv!OpenForReading \/ Srv!OpenForWriting
             PROVE  ServerInv'
  OBVIOUS
<1>t. ServerTypes
  BY DEF ServerInv
<1>p. /\ at_server = "process" /\ which = "c" /\ message.status # 500 /\ ~conn.spoilt
      /\ message.status # 400 => message.req # Nothing
      /\ Srv!InOrder => /\ message.req = conn.req /\ files = before
                        /\ message.status = IF conn.req.method = "BAD" THEN 400 ELSE 0
                        /\ message.content_length = Srv!Length(conn.req)
                        /\ conn.clean => conn.in = 0
  BY DEF ServerInv, ServerPlaces, AtProcess, Srv!Refuse, Srv!OpenFails, Srv!OpenForReading,
         Srv!OpenForWriting
<1>s. /\ which' = which /\ conn' = conn /\ before' = before /\ broken' = broken /\ answer' = answer
      /\ Srv!Deserved' = Srv!Deserved /\ (Srv!InOrder' <=> Srv!InOrder)
  <2>1. which' = which /\ conn' = conn /\ before' = before /\ broken' = broken /\ answer' = answer
    BY DEF Srv!Refuse, Srv!OpenFails, Srv!OpenForReading, Srv!OpenForWriting, Srv!conns
  <2> QED BY <2>1, SameRequest
<1>1. CASE Srv!Refuse
  <2>1. files' = files /\ message' = message /\ message.status = 400 /\ at_server' = "head"
    BY <1>1 DEF Srv!Refuse, Srv!Goto
  <2>2. ServerTypes'
    BY <1>t, <1>s, <2>1 DEF ServerTypes, Srv!Length
  <2>3. Srv!InOrder => Srv!Deserved = 400 /\ conn.req.method = "BAD"
    BY <1>p, <2>1, DeservedByC
  <2>4. AtHead'
    BY <1>p, <1>s, <2>1, <2>3 DEF AtHead, Srv!Failing
  <2> QED BY <2>1, <2>2, <2>4, Elsewhere DEF ServerInv, ServerPlaces
<1>2. CASE Srv!OpenFails
  <2> DEFINE e == Srv!Errno(message.req)
             status == Srv!StatusOf(e, message.status)
  <2>1. /\ files' = files /\ at_server' = "head" /\ message.status # 400 /\ e # "none"
        /\ message' = [message EXCEPT !.status = status]
    BY <1>2 DEF Srv!OpenFails, Srv!Goto, Srv!r
  <2>2. status \in {403, 404} \/ status = message.status
    BY DEF Srv!StatusOf
  <2>3. message'.status = status /\ message'.req = message.req /\ message' \in Message
    BY <1>t, <2>1, <2>2 DEF ServerTypes, Message
  <2>4. ServerTypes'
    BY <1>t, <1>p, <1>s, <2>1, <2>2, <2>3 DEF ServerTypes, Srv!Length
  <2>5. Srv!InOrder => Srv!Deserved = status /\ files = before /\ status # 201
    <3>1. ASSUME Srv!InOrder PROVE conn.req.method # "BAD" /\ message.status = 0
      BY <3>1, <1>p, <2>1
    <3> QED BY <3>1, <1>p, <2>1, <2>2, DeservedByC
  <2>6. status \notin Srv!Failing => message.req.method = "PUT"
    BY <2>1 DEF Srv!StatusOf, Srv!Errno, Srv!Failing
  <2>7. AtHead'
    BY <1>p, <1>s, <2>1, <2>3, <2>5, <2>6 DEF AtHead
  <2> QED BY <2>1, <2>4, <2>7, Elsewhere DEF ServerInv, ServerPlaces
<1>3. CASE Srv!OpenForReading
  <2> DEFINE name == message.req.name
  <2>1. /\ files' = files /\ at_server' = "head" /\ message.status # 400
        /\ Srv!Errno(message.req) = "none" /\ message.req.method # "PUT"
        /\ message' = [message EXCEPT !.status = 200, !.content_length = files[name].len]
    BY <1>3 DEF Srv!OpenForReading, Srv!Goto, Srv!r
  <2>2. message.req # Nothing /\ message.req \in Req /\ name \in File
    BY <1>t, <1>p, <2>1, RequestFacts
  <2>3. Opened(name)
    BY <2>1 DEF Srv!Errno, Opened
  <2>4. files[name].len \in Nat
    <3>1. files[name].len \in Int /\ files[name].data \in Seq(Unit)
      BY <1>t, <2>2, RequestFacts
    <3>2. FileOf(name, files[name])
      BY <1>t, <2>2 DEF ServerTypes
    <3> QED BY <3>1, <3>2, <2>3 DEF FileOf, Opened, Srv!Directory
  <2>5. message' = [req |-> message.req, status |-> 200, content_length |-> files[name].len]
    <3>1. message \in Message
      BY <1>t DEF ServerTypes
    <3> QED BY ONLY <2>1, <3>1 DEF Message
  <2>6. message' \in Message
    BY <1>t, <2>2, <2>4, <2>5 DEF Message
  <2>7. ServerTypes'
    <3>1. message'.status # 500 /\ message.status # 500 /\ which' = which /\ broken' = broken
      BY ONLY <1>p, <1>s, <2>5
    <3> QED BY <1>t, <1>s, <2>1, <2>6, <3>1 DEF ServerTypes, Srv!Length
  <2>8. Srv!InOrder => Srv!Deserved = 200 /\ files = before
    BY <1>p, <2>1, DeservedByC
  <2>9. AtHead'
    BY <1>p, <1>s, <2>1, <2>2, <2>3, <2>5, <2>8 DEF AtHead, Opened
  <2> QED BY <2>1, <2>7, <2>9, Elsewhere DEF ServerInv, ServerPlaces
<1>4. CASE Srv!OpenForWriting
  <2> DEFINE name == message.req.name
  <2>1. /\ files' = [files EXCEPT ![name] = Srv!Empty] /\ at_server' = "body"
        /\ message.status # 400
        /\ Srv!Errno(message.req) = "none" /\ message.req.method = "PUT"
        /\ message' = [message EXCEPT !.status = 201]
    BY <1>4 DEF Srv!OpenForWriting, Srv!Goto, Srv!r
  <2>2. message.req # Nothing /\ message.req \in Req /\ name \in File
    BY <1>t, <1>p, <2>1, RequestFacts
  <2>3. kind[name] # "directory"
    BY <2>1 DEF Srv!Errno
  <2>4. << >> \in Seq(Unit) /\ Len(<< >>) = 0
    OBVIOUS
  <2>5. /\ Srv!Empty \in Content /\ Srv!Empty.len = Len(Srv!Empty.data) /\ Srv!Empty # Srv!Absent
        /\ Srv!Empty.data = << >>
    BY <2>4 DEF Srv!Empty, Srv!Absent, Content
  <2>6. files'[name] = Srv!Empty /\ files' \in [File -> Content]
    BY <1>t, <2>1, <2>2, <2>5 DEF ServerTypes
  <2>7. \A f \in File : FileOf(f, files'[f])
    <3> SUFFICES ASSUME NEW f \in File PROVE FileOf(f, files'[f])
      OBVIOUS
    <3>1. CASE f = name
      BY <3>1, <2>3, <2>5, <2>6 DEF FileOf
    <3>2. CASE f # name
      BY <3>2, <1>t, <2>1, <2>2 DEF ServerTypes
    <3> QED BY <3>1, <3>2
  <2>8. /\ message'.status = 201 /\ message'.req = message.req /\ message' \in Message
        /\ message'.content_length = message.content_length
    BY <1>t, <2>1 DEF ServerTypes, Message
  <2>9. ServerTypes'
    <3>1. message'.status # 500 /\ message.status # 500 /\ which' = which /\ broken' = broken
      BY ONLY <1>p, <1>s, <2>8
    <3> QED BY <1>t, <1>s, <2>6, <2>7, <2>8, <3>1 DEF ServerTypes, Srv!Length
  <2>10. Srv!InOrder => Srv!Deserved = 201
    BY <1>p, <2>1, DeservedByC
  <2>11. Srv!Units(conn.id, 1, 0) = << >>
    BY DEF Srv!Units
  <2>12. ASSUME Srv!InOrder, conn.clean PROVE Stored' /\ Left'
    <3>1. conn.in = 0 /\ conn'.in = 0 /\ conn'.req.name = name /\ conn'.id = conn.id
      BY <2>12, <1>p, <1>s
    <3>2. Stored'
      BY <3>1, <2>5, <2>6, <2>11 DEF Stored
    <3>3. message.content_length = Srv!Length(conn.req) /\ Srv!Length(conn.req) \in Nat
      BY <2>12, <1>p, <1>t, RequestFacts
    <3>4. Left'
      BY <3>1, <3>3, <2>8, <1>s DEF Left, Srv!Length
    <3> QED BY <3>2, <3>4
  <2>13. AtBody'
    BY <1>p, <1>s, <2>1, <2>2, <2>3, <2>5, <2>6, <2>8, <2>10, <2>12 DEF AtBody, Opened
  <2> QED BY <2>1, <2>9, <2>13, Elsewhere DEF ServerInv, ServerPlaces
<1> QED BY <1>1, <1>2, <1>3, <1>4

\* A file is written.
LEMMA Written ==
    ASSUME ServerTypes, NEW name \in File, NEW d \in Seq(Unit), kind[name] # "directory",
           files' = [files EXCEPT ![name] = Srv!Filled(d)]
    PROVE  /\ files' \in [File -> Content] /\ \A f \in File : FileOf(f, files'[f])
           /\ files'[name].data = d /\ files'[name] # Srv!Absent
<1>1. /\ Srv!Filled(d) \in Content /\ Srv!Filled(d).len = Len(Srv!Filled(d).data)
      /\ Srv!Filled(d).data = d /\ Srv!Filled(d) # Srv!Absent
  BY DEF Srv!Filled, Srv!Absent, Content
<1>2. files'[name] = Srv!Filled(d) /\ files' \in [File -> Content]
  BY <1>1 DEF ServerTypes
<1>3. \A f \in File : FileOf(f, files'[f])
  <2> SUFFICES ASSUME NEW f \in File PROVE FileOf(f, files'[f])
    OBVIOUS
  <2>1. CASE f = name
    BY <2>1, <1>1, <1>2 DEF FileOf
  <2>2. CASE f # name
    BY <2>2 DEF ServerTypes
  <2> QED BY <2>1, <2>2
<1> QED BY <1>1, <1>2, <1>3

\* Junk, and sequences that it is appended to.
LEMMA JunkAre ==
    ASSUME NEW d \in Seq(Unit), NEW n \in Nat
    PROVE  /\ d \o [k \in 1 .. n |-> Srv!Junk] \in Seq(Unit)
           /\ n = 0 => d \o [k \in 1 .. n |-> Srv!Junk] = d
<1>1. [k \in 1 .. n |-> Srv!Junk] \in [1 .. n -> Unit]
  BY DEF Srv!Junk, Unit
<1>2. [k \in 1 .. n |-> Srv!Junk] \in Seq(Unit) /\ Len([k \in 1 .. n |-> Srv!Junk]) = n
  BY <1>1, Listed
<1> DEFINE q == [k \in 1 .. n |-> Srv!Junk]
<1> HIDE DEF q
<1>3. d \o q \in Seq(Unit) /\ (Len(q) = 0 => d \o q = d)
  BY <1>2 DEF q
<1> QED BY <1>2, <1>3 DEF q

\* asgn1: the body is received.
LEMMA BodyStep == ServerInv /\ (Srv!PutBody \/ Srv!PutFails) => ServerInv'
<1> SUFFICES ASSUME ServerInv, Srv!PutBody \/ Srv!PutFails PROVE ServerInv'
  OBVIOUS
<1> DEFINE name == message.req.name
           data == files[name].data
           w == Srv!Wanted
           full == message.content_length > Buffer
<1>t. ServerTypes
  BY DEF ServerInv
<1>p. /\ at_server = "body" /\ which = "c" /\ ~conn.spoilt /\ message.req # Nothing
      /\ message.req.method = "PUT" /\ kind[name] # "directory" /\ Opened(name)
      /\ Srv!InOrder => /\ message.req = conn.req
                        /\ message.status = 201 /\ Srv!Deserved = 201
                        /\ conn.clean => Stored /\ Left
  BY DEF ServerInv, ServerPlaces, AtBody, Srv!PutBody, Srv!PutFails
<1>n. name \in File /\ data \in Seq(Unit) /\ message.req \in Req
  BY <1>t, <1>p, RequestFacts
<1>w. /\ w \in Nat /\ message.content_length - w \in Nat
      /\ ~full => w = message.content_length
  BY <1>t, RequestFacts DEF Srv!Wanted
<1>g. /\ which' = which /\ before' = before /\ answer' = answer
      /\ conn'.req = conn.req /\ conn'.id = conn.id /\ conn'.spoilt = conn.spoilt
      /\ message'.req = message.req /\ message'.content_length = message.content_length - w
      /\ at_server' = IF full THEN "body" ELSE "head"
  <2>1. conn'.req = conn.req /\ conn'.id = conn.id /\ conn'.spoilt = conn.spoilt
    <3>c. conn \in Conn
      BY <1>t DEF ServerTypes
    <3>1. CASE Srv!PutBody
      BY ONLY <3>1, <3>c DEF Srv!PutBody, Conn
    <3>2. CASE Srv!PutFails
      BY ONLY <3>2, <3>c DEF Srv!PutFails, Conn
    <3> QED BY <3>1, <3>2
  <2>2. message'.req = message.req /\ message'.content_length = message.content_length - w
    <3>m. message \in Message
      BY <1>t DEF ServerTypes
    <3>1. CASE Srv!PutBody
      BY ONLY <3>1, <3>m DEF Srv!PutBody, Message
    <3>2. CASE Srv!PutFails
      BY ONLY <3>2, <3>m DEF Srv!PutFails, Message
    <3> QED BY <3>1, <3>2
  <2>3. /\ which' = which /\ before' = before /\ answer' = answer
        /\ at_server' = IF full THEN "body" ELSE "head"
    BY DEF Srv!PutBody, Srv!PutFails, Srv!Goto
  <2> QED BY <2>1, <2>2, <2>3
<1> HIDE DEF w
<1>1. CASE Srv!PutBody
  <2>1. PICK n \in Srv!Arriving(w) \cup {0} :
            /\ conn' = [conn EXCEPT !.in = @ + n, !.clean = @ /\ n = w]
            /\ files' = [files EXCEPT ![name] =
                  Srv!Filled(@.data \o Srv!Units(conn.id, conn.in + 1, conn.in + n)
                               \o [k \in 1 .. w - n |-> Srv!Junk])]
    BY <1>1 DEF Srv!PutBody, Srv!r, w
  <2>2. n \in Nat /\ w - n \in Nat /\ conn.in + n <= Srv!Length(conn.req)
    BY <1>t, <1>w, RequestFacts, SMTT(60) DEF Srv!Arriving, ServerTypes
  <2> DEFINE u == Srv!Units(conn.id, conn.in + 1, conn.in + n)
             d == data \o u \o [k \in 1 .. w - n |-> Srv!Junk]
  <2>3. u \in Seq(Unit)
    BY <1>t, <2>2, UnitsAre, RequestFacts
  <2>4. data \o u \in Seq(Unit)
    BY <1>n, <2>3
  <2>5. d \in Seq(Unit) /\ (n = w => d = data \o u)
    <3> DEFINE s == data \o u
               m == w - n
    <3> HIDE DEF s, m
    <3>1. s \in Seq(Unit) /\ m \in Nat
      BY <2>2, <2>4 DEF s, m
    <3>2. /\ s \o [k \in 1 .. m |-> Srv!Junk] \in Seq(Unit)
          /\ m = 0 => s \o [k \in 1 .. m |-> Srv!Junk] = s
      BY <3>1, JunkAre
    <3>3. n = w => m = 0
      BY <2>2, <1>w DEF m
    <3> QED BY <3>2, <3>3 DEF s, m
  <2>6. files' = [files EXCEPT ![name] = Srv!Filled(d)]
    BY <2>1
  <2> HIDE DEF d, u
  <2>7. /\ files' \in [File -> Content] /\ \A f \in File : FileOf(f, files'[f])
        /\ files'[name].data = d /\ Opened(name)'
    BY <1>t, <1>n, <1>p, <1>g, <2>5, <2>6, Written, ZenonT(60) DEF Opened
  <2> DEFINE c == conn.clean /\ n = w
  <2>8. c \in BOOLEAN
    OBVIOUS
  <2>9. conn' = [id |-> conn.id, req |-> conn.req, in |-> conn.in + n, clean |-> c,
                 spoilt |-> conn.spoilt]
    <3>1. conn \in Conn
      BY <1>t DEF ServerTypes
    <3> QED BY ONLY <2>1, <3>1 DEF Conn
  <2>10. (conn'.clean <=> conn.clean /\ n = w) /\ conn'.in = conn.in + n
    BY <2>9
  <2> HIDE DEF c
  <2>11. conn' \in Conn /\ conn'.in <= Srv!Length(conn'.req)
    <3>1. /\ conn.id \in Nat /\ conn.in + n \in Nat /\ conn.req \in Request \cup {Nothing}
          /\ conn.spoilt \in BOOLEAN
      BY <1>t, <2>2, RequestFacts DEF ServerTypes, Conn
    <3> QED BY <2>2, <2>8, <2>9, <3>1 DEF Conn
  <2>12. message' = [message EXCEPT !.content_length = @ - w]
    BY <1>1 DEF Srv!PutBody, w
  <2>13. message' \in Message /\ message'.status = message.status
    BY <1>t, <1>w, <2>12 DEF ServerTypes, Message
  <2>14. broken' = broken
    BY <1>1 DEF Srv!PutBody
  <2>15. ServerTypes'
    BY <1>t, <1>g, <2>7, <2>11, <2>13, <2>14 DEF ServerTypes
  <2>16. Srv!Deserved' = Srv!Deserved /\ (Srv!InOrder' <=> Srv!InOrder)
    BY <1>g, <2>14, SameRequest
  <2>17. ASSUME Srv!InOrder, conn'.clean PROVE Stored' /\ Left' /\ conn.clean
    <3>1. conn.clean /\ n = w /\ Stored /\ Left /\ name = conn.req.name
      BY <2>17, <2>10, <1>p
    <3>2. d = data \o u
      BY <3>1, <2>5
    <3>3. Srv!Units(conn.id, 1, conn.in) \o u = Srv!Units(conn.id, 1, conn.in + n)
      BY <1>t, <2>2, UnitsJoin, RequestFacts, ZenonT(60) DEF u
    <3>4. Stored'
      BY <3>1, <3>2, <3>3, <2>7, <2>10, <1>g DEF Stored
    <3>5. /\ Srv!Length(conn.req) \in Nat /\ conn.in \in Nat /\ message.content_length \in Nat
          /\ Srv!Length(conn.req)' = Srv!Length(conn.req)
      BY <1>t, <1>g, RequestFacts DEF Srv!Length
    <3>6. message.content_length - n = Srv!Length(conn.req) - (conn.in + n)
      BY <3>1, <3>5, <2>2 DEF Left
    <3>7. Left'
      BY <3>1, <3>5, <3>6, <2>10, <1>g DEF Left
    <3> QED BY <3>1, <3>4, <3>7
  <2>18. CASE full
    <3>1. AtBody'
      BY <1>p, <1>g, <2>7, <2>13, <2>16, <2>17 DEF AtBody
    <3>2. at_server' = "body"
      BY <2>18, <1>g
    <3> QED BY <2>15, <3>1, <3>2, Elsewhere DEF ServerInv, ServerPlaces
  <2>19. CASE ~full
    <3>1. at_server' = "head" /\ message'.content_length = 0
      BY <2>19, <1>g, <1>w, <1>t, RequestFacts
    <3>2. ASSUME Srv!InOrder, conn'.clean PROVE Whole'
      <4>1. Stored' /\ Left'
        BY <3>2, <2>17
      <4>2. conn'.in = Srv!Length(conn.req)'
        <5>1. Srv!Length(conn.req)' \in Nat /\ conn'.in \in Nat
          BY <2>2, <2>10, <1>g, <1>t, RequestFacts DEF Srv!Length
        <5> QED BY <4>1, <3>1, <5>1 DEF Left
      <4> QED BY <4>1, <4>2 DEF Stored, Whole
    <3>3. AtHead'
      BY <1>p, <1>g, <2>13, <2>16, <3>2 DEF AtHead
    <3> QED BY <2>15, <3>1, <3>3, Elsewhere DEF ServerInv, ServerPlaces
  <2> QED BY <2>18, <2>19
<1>2. CASE Srv!PutFails
  <2>1. PICK junk \in {0, w} :
            files' = [files EXCEPT ![name] = Srv!Filled(@.data \o [k \in 1 .. junk |-> Srv!Junk])]
    BY <1>2 DEF Srv!PutFails, Srv!r, w
  <2> DEFINE d == data \o [k \in 1 .. junk |-> Srv!Junk]
  <2>2. d \in Seq(Unit)
    <3>1. junk \in Nat
      BY <1>w, <2>1
    <3> QED BY <1>n, <3>1, JunkAre
  <2>3. files' = [files EXCEPT ![name] = Srv!Filled(d)]
    BY <2>1
  <2> HIDE DEF d
  <2>4. /\ files' \in [File -> Content] /\ \A f \in File : FileOf(f, files'[f])
        /\ Opened(name)'
    BY <1>t, <1>n, <1>p, <1>g, <2>2, <2>3, Written, ZenonT(60) DEF Opened
  <2>5. message' \in Message /\ message'.status = 500 /\ broken'
    <3>1. message' = [message EXCEPT !.status = 500, !.content_length = @ - w] /\ broken'
      BY <1>2 DEF Srv!PutFails, w
    <3> DEFINE left == message.content_length - w
    <3>2. message' = [req |-> message.req, status |-> 500, content_length |-> left]
      BY <1>t, <3>1, ZenonT(60) DEF ServerTypes, Message
    <3>3. message.req \in Req \cup {Nothing} /\ left \in Nat
      BY <1>t, <1>w DEF ServerTypes, Message
    <3> HIDE DEF left
    <3>4. message' \in Message /\ message'.status = 500
      BY <3>2, <3>3 DEF Message
    <3> QED BY <3>1, <3>4
  <2>6. conn' \in Conn /\ conn'.in = conn.in
    <3>1. conn \in Conn /\ conn' = [conn EXCEPT !.clean = FALSE]
      BY <1>t, <1>2 DEF Srv!PutFails, ServerTypes
    <3> QED BY ONLY <3>1 DEF Conn
  <2>7. ServerTypes'
    <3>1. which = "c" /\ Srv!Length(conn.req)' = Srv!Length(conn.req)
      BY <1>p, <1>g DEF Srv!Length
    <3>2. conn'.in <= Srv!Length(conn.req)'
      BY <1>t, <2>6, <3>1 DEF ServerTypes
    <3> QED BY <1>t, <1>g, <2>4, <2>5, <2>6, <3>1, <3>2 DEF ServerTypes
  <2>8. ~Srv!InOrder'
    BY <2>5 DEF Srv!InOrder
  <2>9. AtBody' /\ AtHead'
    BY <1>p, <1>g, <2>4, <2>5, <2>8 DEF AtBody, AtHead, Srv!Failing
  <2>10. at_server' \in {"body", "head"}
    BY <1>g
  <2> QED BY <2>7, <2>9, <2>10, Elsewhere DEF ServerInv, ServerPlaces
<1> QED BY <1>1, <1>2

\* asgn1: the header and the file are sent.
LEMMA SendStep == ServerInv /\ (Srv!SendHead \/ Srv!SendBody \/ Srv!SendFails) => ServerInv'
<1> SUFFICES ASSUME ServerInv, Srv!SendHead \/ Srv!SendBody \/ Srv!SendFails PROVE ServerInv'
  OBVIOUS
<1> DEFINE name == message.req.name
           data == files[name].data
           w == Srv!Wanted
<1>t. ServerTypes
  BY DEF ServerInv
<1>s. /\ which' = which /\ conn' = conn /\ before' = before /\ files' = files
      /\ message'.req = message.req
      /\ Srv!Deserved' = Srv!Deserved /\ (broken' = broken => (Srv!InOrder' <=> Srv!InOrder))
      /\ broken' => ~Srv!InOrder'
  <2>1. which' = which /\ conn' = conn /\ before' = before /\ files' = files
    BY DEF Srv!SendHead, Srv!SendBody, Srv!SendFails, Srv!conns
  <2>2. message'.req = message.req
    BY <1>t DEF Srv!SendHead, Srv!SendBody, Srv!SendFails, ServerTypes, Message
  <2> QED BY <2>1, <2>2, SameRequest
<1>1. CASE Srv!SendHead
  <2>1. /\ at_server = "head" /\ message' = message /\ broken' = broken
        /\ answer' = [status |-> message.status, len |-> message.content_length, body |-> << >>]
        /\ at_server' = IF message.status \notin Srv!Failing /\ message.req.method = "GET"
                        THEN "send" ELSE "close"
    BY <1>1 DEF Srv!SendHead, Srv!Goto, Srv!r
  <2>2. << >> \in Seq(Unit) /\ Len(<< >>) = 0
    OBVIOUS
  <2>3. answer' \in Answer
    BY <1>t, <2>1, <2>2, RequestFacts DEF Answer
  <2>4. ServerTypes'
    BY <1>t, <1>s, <2>1, <2>3 DEF ServerTypes, Srv!Length
  <2>5. AtHead
    BY DEF ServerInv, ServerPlaces
  <2>s. which = "c" /\ (broken <=> message.status = 500) /\ (conn.spoilt => broken /\ files = before)
    BY <1>t, <2>1, <2>5 DEF AtHead, ServerTypes
  <2>6. CASE message.status \notin Srv!Failing /\ message.req.method = "GET"
    <3>1. /\ which = "c" /\ message.req # Nothing /\ message.status = 200 /\ Opened(name)
          /\ message.content_length = files[name].len
          /\ Srv!InOrder => /\ message.req = conn.req /\ Srv!Deserved = 200 /\ files = before
      BY <2>1, <2>5, <2>6 DEF AtHead
    <3>2. name \in File
      BY <1>t, <3>1, RequestFacts
    <3>3. kind[name] # "directory" => files[name].len = Len(data)
      BY <1>t, <3>1, <3>2 DEF ServerTypes, FileOf, Opened
    <3>4. data \in Seq(Unit) /\ SubSeq(data, 1, 0) = << >>
      BY <1>t, <3>2, RequestFacts
    <3>5. answer'.body = << >> /\ answer'.len = files[name].len /\ answer'.status = 200
      BY <2>1, <3>1
    <3>6. kind[name] # "directory" => Len(answer'.body) + message'.content_length = Len(data)
      BY <2>1, <2>2, <3>1, <3>3, <3>5, <1>t, RequestFacts
    <3>7. answer'.body = SubSeq(data, 1, Len(answer'.body))
      BY <2>2, <3>4, <3>5
    <3>8. AtSend'
      BY <1>s, <2>1, <2>s, <2>6, <3>1, <3>5, <3>6, <3>7 DEF AtSend, Opened
    <3> QED BY <2>1, <2>4, <2>6, <3>8, Elsewhere DEF ServerInv, ServerPlaces
  <2>7. CASE ~(message.status \notin Srv!Failing /\ message.req.method = "GET")
    <3>1. at_server' = "close" /\ answer'.status = message.status
      BY <2>1, <2>7
    <3>2. ASSUME Srv!InOrder
          PROVE  /\ message.req = conn.req /\ message.status = Srv!Deserved
                 /\ message.status # 201 => files = before
                 /\ conn.clean /\ message.status = 201 => Whole
      BY <2>1, <2>5, <3>2 DEF AtHead
    <3>3. Srv!AnsweredForItself'
      BY <1>s, <2>1, <2>s, <3>1, <3>2 DEF Srv!AnsweredForItself, Srv!InOrder
    <3>4. Srv!InOrder => ~(message.status = 200 /\ conn.req.method = "GET")
      BY <2>7, <3>2 DEF Srv!Failing
    <3>5. Srv!BodiesWhole'
      <4> SUFFICES ASSUME Srv!InOrder
                   PROVE  /\ conn'.clean /\ answer'.status = 201 =>
                              files'[conn'.req.name].data = Srv!Units(conn'.id, 1, Srv!Length(conn'.req))
                          /\ ~(answer'.status = 200 /\ conn'.req.method = "GET")
        BY <1>s, <2>1 DEF Srv!BodiesWhole, Srv!Length, Srv!Units
      <4> QED BY <1>s, <3>1, <3>2, <3>4 DEF Whole
    <3> QED BY <2>4, <3>1, <3>3, <3>5, Elsewhere DEF ServerInv, ServerPlaces, AtClose
  <2> QED BY <2>6, <2>7
<1>2. CASE Srv!SendBody
  <2> DEFINE sent == answer.body \o SubSeq(data, Len(answer.body) + 1, Len(answer.body) + w)
             last == message.content_length <= Buffer
  <2>1. /\ at_server = "send" /\ kind[name] # "directory" /\ broken' = broken
        /\ answer' = [answer EXCEPT !.body = sent]
        /\ at_server' = IF last THEN "close" ELSE "send"
        /\ message' = [message EXCEPT !.content_length = IF @ > Buffer THEN @ - w ELSE @]
    BY <1>2 DEF Srv!SendBody, Srv!Goto, Srv!r
  <2>p. /\ which = "c" /\ message.status = 200 /\ ~conn.spoilt
        /\ message.req # Nothing /\ message.req.method = "GET" /\ Opened(name)
        /\ Len(answer.body) + message.content_length = Len(data)
        /\ answer.body = SubSeq(data, 1, Len(answer.body))
        /\ Srv!InOrder => /\ message.req = conn.req /\ files = before
                          /\ answer.status = 200 /\ Srv!Deserved = 200
                          /\ answer.len = files[conn.req.name].len
    BY <2>1 DEF ServerInv, ServerPlaces, AtSend
  <2>2. name \in File /\ data \in Seq(Unit) /\ Len(answer.body) \in Nat /\ Len(data) \in Nat
    BY <1>t, <2>p, RequestFacts, SMTT(60)
  <2>w. /\ w \in Nat /\ message.content_length - w \in Nat
        /\ last => w = message.content_length
        /\ ~last => w = Buffer
    BY <1>t, RequestFacts DEF Srv!Wanted
  <2> HIDE DEF w
  <2>3. /\ sent = SubSeq(data, 1, Len(answer.body) + w) /\ sent \in Seq(Unit)
        /\ Len(sent) = Len(answer.body) + w
    <3>1. Len(answer.body) + w <= Len(data)
      BY <2>p, <2>2, <2>w, <1>t, RequestFacts
    <3> DEFINE a == Len(answer.body)
    <3>2. answer.body = SubSeq(data, 1, a) /\ sent = answer.body \o SubSeq(data, a + 1, a + w)
      BY <2>p
    <3>3. a \in Nat /\ a + w <= Len(data)
      BY <2>2, <3>1
    <3> HIDE DEF a, sent, data
    <3>4. /\ SubSeq(data, 1, a) \o SubSeq(data, a + 1, a + w) = SubSeq(data, 1, a + w)
          /\ SubSeq(data, 1, a + w) \in Seq(Unit) /\ Len(SubSeq(data, 1, a + w)) = a + w
      BY <2>2, <2>w, <3>3, SlicesJoin
    <3>5. sent = SubSeq(data, 1, a + w)
      BY <3>2, <3>4
    <3> QED BY <3>4, <3>5 DEF a
  <2> HIDE DEF sent
  <2>4. /\ answer' \in Answer /\ answer'.body = sent /\ answer'.status = answer.status
        /\ answer'.len = answer.len
    <3>1. answer \in Answer /\ answer' = [answer EXCEPT !.body = sent] /\ sent \in Seq(Unit)
      BY <1>t, <2>1, <2>3 DEF ServerTypes
    <3> QED BY ONLY <3>1 DEF Answer
  <2>5. /\ message'.status = message.status /\ message' \in Message
        /\ message'.content_length = IF last THEN message.content_length
                                     ELSE message.content_length - w
    <3>1. CASE last
      <4>1. message' = message
        BY <1>t, <2>1, <3>1, RequestFacts DEF ServerTypes, Message
      <4> QED BY <1>t, <3>1, <4>1 DEF ServerTypes
    <3>2. CASE ~last
      <4>1. message' = [message EXCEPT !.content_length = @ - w]
        BY <2>1, <3>2, <1>t, RequestFacts
      <4> QED BY <1>t, <2>w, <3>2, <4>1 DEF ServerTypes, Message
    <3> QED BY <3>1, <3>2
  <2>6. ServerTypes'
    BY <1>t, <1>s, <2>1, <2>4, <2>5 DEF ServerTypes, Srv!Length
  <2>7. CASE last
    <3>1. at_server' = "close" /\ answer'.body = data
      <4>1. Len(answer.body) + w = Len(data)
        BY <2>7, <2>p, <2>w
      <4> QED BY <2>1, <2>2, <2>3, <2>4, <2>7, <4>1, WholeSlice
    <3>2. Srv!InOrder => /\ answer'.status = 200 /\ Srv!Deserved = 200 /\ files = before
                         /\ message.req = conn.req /\ answer'.len = files[name].len
      BY <2>p, <2>4
    <3>3. Srv!AnsweredForItself'
      <4>1. conn.req # Nothing => Srv!InOrder
        BY <1>t, <2>p DEF Srv!InOrder, ServerTypes
      <4> QED BY <1>s, <4>1, <2>p, <3>2 DEF Srv!AnsweredForItself
    <3>4. files[name].len = Len(data) /\ files[name] = Srv!Filled(data)
      BY <1>t, <2>1, <2>2, <2>p DEF ServerTypes, FileOf, Opened, Content, Srv!Filled
    <3>5. Srv!BodiesWhole'
      BY <1>s, <2>1, <3>1, <3>2, <3>4 DEF Srv!BodiesWhole, Srv!Filled
    <3> QED BY <2>6, <3>1, <3>3, <3>5, Elsewhere DEF ServerInv, ServerPlaces, AtClose
  <2>8. CASE ~last
    <3>1. at_server' = "send"
      BY <2>1, <2>8
    <3>2. Len(sent) + (message.content_length - w) = Len(data)
      BY <2>p, <2>2, <2>3, <2>w, <1>t, RequestFacts
    <3>3. sent = SubSeq(data, 1, Len(sent))
      BY <2>3
    <3>4. AtSend'
      BY <1>s, <2>1, <2>p, <2>4, <2>5, <2>8, <3>2, <3>3 DEF AtSend, Opened
    <3> QED BY <2>6, <3>1, <3>4, Elsewhere DEF ServerInv, ServerPlaces
  <2> QED BY <2>7, <2>8
<1>3. CASE Srv!SendFails
  <2>1. message' \in Message /\ message'.status = 500 /\ broken' /\ broken' \in BOOLEAN
    BY <1>t, <1>3 DEF Srv!SendFails, ServerTypes, Message
  <2>p. AtSend /\ at_server = "send"
    BY <1>3 DEF Srv!SendFails, ServerInv, ServerPlaces
  <2>2. answer' = answer /\ at_server' = "close"
    BY <1>3 DEF Srv!SendFails, Srv!Goto
  <2>3. ServerTypes'
    BY <1>t, <1>s, <2>1, <2>2, <2>p DEF ServerTypes, Srv!Length, AtSend
  <2>4. Srv!BodiesWhole'
    BY <1>s, <2>1 DEF Srv!BodiesWhole
  <2>5. Srv!AnsweredForItself'
    <3>1. conn.req # Nothing => Srv!InOrder
      BY <1>t, <2>p DEF Srv!InOrder, ServerTypes, AtSend
    <3> QED BY <1>s, <2>2, <2>p, <3>1 DEF Srv!AnsweredForItself, AtSend
  <2> QED BY <2>2, <2>3, <2>4, <2>5, Elsewhere DEF ServerInv, ServerPlaces, AtClose
<1> QED BY <1>1, <1>2, <1>3

\* asgn3's server: what a request that finds its file deserves.
LEMMA DeservedByCpp ==
    ASSUME which = "cpp", files = before, conn.req \in Req, NEW q \in Req,
           q = [conn.req EXCEPT !.method = Srv!Method(conn.req)]
    PROVE  /\ Srv!Errno(q) # "none" => Srv!Deserved = Srv!StatusOf(Srv!Errno(q), 400)
           /\ Srv!Errno(q) = "none" => Srv!Deserved = IF q.method = "PUT" THEN 201 ELSE 200
<1>1. q.name = conn.req.name /\ q.method = Srv!Method(conn.req) /\ q.method \in {"GET", "PUT"}
  BY DEF Req, Srv!Method
<1>2. Srv!Deserved = IF kind[q.name] = "denied" THEN 403
                     ELSE IF kind[q.name] = "orphan" THEN 404
                     ELSE IF q.method = "PUT"
                     THEN IF kind[q.name] # "directory" THEN 201 ELSE 400
                     ELSE IF before[q.name] = Srv!Absent THEN 404 ELSE 200
  BY <1>1 DEF Srv!Deserved
<1> QED BY <1>1, <1>2 DEF Srv!Errno, Srv!StatusOf

\* asgn3's server: one process serves a connection from its head to its end.
LEMMA CppStep == ServerInv /\ Srv!HttpserverCpp => ServerInv'
<1> SUFFICES ASSUME ServerInv, Srv!HttpserverCpp PROVE ServerInv'
  OBVIOUS
<1>t. ServerTypes
  BY DEF ServerInv
<1>1. CASE Srv!Crash /\ UNCHANGED leaked
  <2>1. UNCHANGED << which, files, message, errno, at_server, conn, before, answer, broken >>
        /\ at_server = "read" /\ leaked' = leaked
    BY <1>1 DEF Srv!Crash, Srv!conns
  <2>2. ServerTypes'
    BY <1>t, <2>1 DEF ServerTypes, Srv!Length
  <2>3. AtRead'
    BY <2>1 DEF ServerInv, ServerPlaces, AtRead, Srv!Spoilt
  <2> QED BY <2>1, <2>2, <2>3, Elsewhere DEF ServerInv, ServerPlaces
<1>2. CASE Srv!OpenCpp
  <2> DEFINE q == [conn.req EXCEPT !.method = Srv!Method(conn.req)]
             e == IF leaked = FdLimit THEN "EMFILE" ELSE Srv!Errno(q)
             put == e = "none" /\ q.method = "PUT"
             refused == e # "none" \/ kind[q.name] = "short"
  <2>1. /\ at_server = "read" /\ which = "cpp" /\ conn.req # Nothing
        /\ e # "none" => errno' = e
        /\ files' = IF put THEN [files EXCEPT ![q.name] = Srv!Empty] ELSE files
        /\ message' = [message EXCEPT !.req = q]
        /\ at_server' = IF refused THEN "refuse" ELSE "serve"
        /\ which' = which /\ before' = before /\ answer' = answer /\ broken' = broken
    BY <1>2 DEF Srv!OpenCpp, Srv!Goto
  <2>2. PICK early \in 0 .. Srv!Length(conn.req) :
            conn' = [conn EXCEPT !.in = early, !.clean = early = 0]
    BY <1>2 DEF Srv!OpenCpp
  <2>3. /\ files = before /\ conn.in = 0 /\ answer = Srv!NoAnswer
        /\ conn.spoilt <=> leaked = FdLimit
    BY <2>1 DEF ServerInv, ServerPlaces, AtRead, Srv!Spoilt
  <2>4. /\ conn.req \in Req /\ q \in Req /\ q.name = conn.req.name /\ q.name \in File
        /\ q.method \in {"GET", "PUT"}
    <3>1. conn.req \in Req
      BY <1>t, <2>1, RequestFacts
    <3> DEFINE m == Srv!Method(conn.req)
    <3>2. m \in {"GET", "PUT"}
      BY DEF Srv!Method
    <3>3. q = [conn.req EXCEPT !.method = m]
      OBVIOUS
    <3> HIDE DEF m, q
    <3>4. q \in Req /\ q.name = conn.req.name /\ q.name \in File /\ q.method = m
      BY <3>1, <3>2, <3>3 DEF Req, Methods
    <3> QED BY <3>1, <3>2, <3>4
  <2> HIDE DEF q
  <2> DEFINE none == early = 0
  <2>5. none \in BOOLEAN /\ early \in Nat /\ early <= Srv!Length(conn.req)
    BY <1>t, RequestFacts
  <2>6. conn' = [id |-> conn.id, req |-> conn.req, in |-> early, clean |-> none,
                 spoilt |-> conn.spoilt]
    <3>1. conn \in Conn
      BY <1>t DEF ServerTypes
    <3> QED BY ONLY <2>2, <3>1 DEF Conn
  <2>7. /\ conn'.req = conn.req /\ conn'.in = early /\ conn'.id = conn.id
        /\ conn'.spoilt = conn.spoilt /\ (conn'.clean => early = 0)
    BY <2>6
  <2>8. conn' \in Conn /\ conn'.in <= Srv!Length(conn'.req)
    <3> HIDE DEF none
    <3>1. conn.id \in Nat /\ conn.req \in Request \cup {Nothing} /\ conn.spoilt \in BOOLEAN
      BY <1>t DEF Conn, ServerTypes
    <3> QED BY <2>5, <2>6, <3>1 DEF Conn
  <2> HIDE DEF none
  <2>9. message' \in Message /\ message'.req = q
    BY <1>t, <2>1, <2>4 DEF ServerTypes, Message
  <2>10. put => kind[q.name] # "directory"
    BY DEF Srv!Errno
  <2>11. /\ files' \in [File -> Content] /\ \A f \in File : FileOf(f, files'[f])
         /\ put => files'[q.name].data = << >> /\ files'[q.name] # Srv!Absent
    <3>1. CASE put
      <4>1. << >> \in Seq(Unit) /\ Srv!Empty = Srv!Filled(<< >>)
        BY DEF Srv!Empty, Srv!Filled
      <4>2. files' = [files EXCEPT ![q.name] = Srv!Filled(<< >>)]
        BY <2>1, <3>1, <4>1
      <4> QED BY <1>t, <2>4, <2>10, <3>1, <4>1, <4>2, Written
    <3>2. CASE ~put
      BY <1>t, <2>1, <3>2 DEF ServerTypes
    <3> QED BY <3>1, <3>2
  <2>12. ServerTypes'
    BY <1>t, <2>1, <2>8, <2>9, <2>11 DEF ServerTypes
  <2>13. Srv!Deserved' = Srv!Deserved /\ (Srv!InOrder' <=> Srv!InOrder)
    BY <2>1, <2>7, SameRequest
  <2>14. /\ ~conn.spoilt /\ e # "none" => Srv!Deserved = Srv!StatusOf(e, 400)
         /\ e = "none" => Srv!Deserved = IF q.method = "PUT" THEN 201 ELSE 200
    <3>1. q = [conn.req EXCEPT !.method = Srv!Method(conn.req)]
      BY DEF q
    <3>2. e = "none" => Srv!Errno(q) = "none"
      BY ONLY TRUE
    <3>3. ~conn.spoilt => e = Srv!Errno(q)
      BY <2>3
    <3>4. /\ Srv!Errno(q) # "none" => Srv!Deserved = Srv!StatusOf(Srv!Errno(q), 400)
          /\ Srv!Errno(q) = "none" => Srv!Deserved = IF q.method = "PUT" THEN 201 ELSE 200
      BY <2>1, <2>3, <2>4, <3>1, DeservedByCpp
    <3> HIDE DEF e
    <3> QED BY ONLY <3>2, <3>3, <3>4
  <2>15. CASE refused
    <3>1. ASSUME Srv!InOrder
          PROVE  Srv!StatusOf(errno', 400) = Srv!Deserved /\ files' = before
      <4>1. e # "none"
        BY <2>1, <2>4, <2>15, <3>1 DEF Srv!InOrder
      <4> QED BY <4>1, <2>1, <2>3, <2>14, <3>1 DEF Srv!InOrder
    <3>2. ASSUME conn.spoilt PROVE Srv!StatusOf(errno', 400) = 400 /\ files' = before
      <4>1. errno' = "EMFILE" /\ files' = files
        BY <2>1, <2>3, <3>2
      <4> QED BY <4>1, <2>3 DEF Srv!StatusOf
    <3>3. AtRefuse'
      BY <2>1, <2>7, <2>13, <3>1, <3>2 DEF AtRefuse, Srv!StatusOf
    <3> QED BY <2>1, <2>12, <2>15, <3>3, Elsewhere DEF ServerInv, ServerPlaces
  <2>16. CASE ~refused
    <3>1. e = "none" /\ Srv!Errno(q) = "none" /\ (put <=> q.method = "PUT") /\ ~conn.spoilt
      BY <2>3, <2>16
    <3>2. Opened(conn.req.name)'
      <4>1. CASE put
        BY <4>1, <2>4, <2>7, <2>11 DEF Opened
      <4>2. CASE ~put
        BY <4>2, <3>1, <2>1, <2>4, <2>7 DEF Opened, Srv!Errno
      <4> QED BY <4>1, <4>2
    <3>3. put /\ conn'.clean => Stored'
      <4>1. Srv!Units(conn.id, 1, 0) = << >>
        BY DEF Srv!Units
      <4> QED BY <4>1, <2>4, <2>7, <2>11 DEF Stored
    <3>4. message'.req = [conn.req EXCEPT !.method = Srv!Method(conn.req)]'
      BY <2>7, <2>9 DEF q, Srv!Method
    <3>5. ~put => Srv!Deserved = 200 /\ files' = before /\ q.method # "PUT"
      BY <2>1, <2>3, <2>14, <3>1
    <3>6. put => Srv!Deserved = 201 /\ kind[conn.req.name] # "directory" /\ q.method # "GET"
      BY <2>4, <2>10, <2>14, <3>1
    <3>7. answer' = Srv!NoAnswer
      BY <2>1, <2>3
    <3>8. AtServe'
      BY <2>1, <2>7, <2>9, <2>13, <3>1, <3>2, <3>3, <3>4, <3>5, <3>6, <3>7 DEF AtServe, Srv!NoAnswer
    <3> QED BY <2>1, <2>12, <2>16, <3>8, Elsewhere DEF ServerInv, ServerPlaces
  <2> QED BY <2>15, <2>16
<1>3. CASE Srv!RefuseCpp
  <2>1. /\ at_server = "refuse" /\ at_server' = "close"
        /\ UNCHANGED << which, files, message, conn, before, broken >>
        /\ answer' = [status |-> Srv!StatusOf(errno, 400), len |-> 0, body |-> << >>]
    BY <1>3 DEF Srv!RefuseCpp, Srv!Goto, Srv!conns
  <2>2. Srv!StatusOf(errno, 400) \in {400, 403, 404}
    BY DEF Srv!StatusOf
  <2>3. answer' \in Answer /\ answer'.status = Srv!StatusOf(errno, 400)
    <3>1. << >> \in Seq(Unit) /\ Srv!StatusOf(errno, 400) \in Int
      BY <2>2
    <3> QED BY <2>1, <3>1 DEF Answer
  <2>4. ServerTypes'
    BY <1>t, <2>1, <2>3 DEF ServerTypes, Srv!Length
  <2>5. Srv!Deserved' = Srv!Deserved /\ (Srv!InOrder' <=> Srv!InOrder)
    BY <2>1, SameRequest
  <2>6. /\ Srv!InOrder => answer'.status = Srv!Deserved /\ files = before
        /\ conn.spoilt => answer'.status = 400 /\ files = before
        /\ which = "cpp" /\ ~broken
    BY <1>t, <2>1, <2>3 DEF ServerInv, ServerPlaces, AtRefuse, ServerTypes
  <2>7. AtClose'
    <3>1. Srv!BodiesWhole'
      BY <2>1, <2>2, <2>3 DEF Srv!BodiesWhole
    <3>2. Srv!AnsweredForItself'
      BY <2>1, <2>3, <2>5, <2>6 DEF Srv!AnsweredForItself, Srv!InOrder
    <3> QED BY <3>1, <3>2 DEF AtClose
  <2> QED BY <2>1, <2>4, <2>7, Elsewhere DEF ServerInv, ServerPlaces
<1>4. CASE Srv!GetCpp \/ Srv!PutHeadCpp \/ Srv!PutCpp
  <2> DEFINE name == conn.req.name
  <2>p. AtServe /\ at_server = "serve"
    BY <1>4 DEF ServerInv, ServerPlaces, Srv!GetCpp, Srv!PutHeadCpp, Srv!PutCpp
  <2>r. /\ which = "cpp" /\ conn.req # Nothing /\ conn.req \in Req /\ name \in File
        /\ message.req.name = name /\ message.req.method = Srv!Method(conn.req)
        /\ Opened(name)
    <3>1. conn.req \in Req
      BY <1>t, <2>p, RequestFacts DEF AtServe
    <3> QED BY <2>p, <3>1 DEF AtServe, Req
  <2>s. /\ which' = which /\ message' = message /\ before' = before /\ broken' = broken
        /\ conn'.req = conn.req /\ conn'.id = conn.id /\ conn'.clean = conn.clean
        /\ conn'.spoilt = conn.spoilt /\ ~conn.spoilt
        /\ Srv!Deserved' = Srv!Deserved /\ (Srv!InOrder' <=> Srv!InOrder)
    <3>1. which' = which /\ message' = message /\ before' = before /\ broken' = broken
      BY <1>4 DEF Srv!GetCpp, Srv!PutHeadCpp, Srv!PutCpp, Srv!conns
    <3>2. /\ conn'.req = conn.req /\ conn'.id = conn.id /\ conn'.clean = conn.clean
          /\ conn'.spoilt = conn.spoilt
      BY <1>t, <1>4 DEF Srv!GetCpp, Srv!PutHeadCpp, Srv!PutCpp, Srv!conns, ServerTypes, Conn
    <3> QED BY <2>p, <3>1, <3>2, SameRequest DEF AtServe
  <2>1. CASE Srv!GetCpp
    <3>1. /\ message.req.method = "GET" /\ at_server' = "close" /\ files' = files /\ conn' = conn
          /\ answer' = [status |-> 200, len |-> files[name].len, body |-> files[name].data]
      BY <2>1, <2>r DEF Srv!GetCpp, Srv!Goto, Srv!r, Srv!conns
    <3>2. answer' \in Answer
      BY <1>t, <2>r, <3>1, RequestFacts DEF Answer
    <3>3. ServerTypes'
      BY <1>t, <2>s, <3>1, <3>2 DEF ServerTypes, Srv!Length
    <3>4. Srv!Deserved = 200 /\ files = before
      BY <2>p, <3>1 DEF AtServe
    <3>5. kind[name] # "directory" =>
             files[name] = Srv!Filled(files[name].data) /\ files[name].len = Len(files[name].data)
      BY <1>t, <2>r DEF ServerTypes, FileOf, Opened, Content, Srv!Filled
    <3>6. Srv!AnsweredForItself'
      BY <2>s, <3>1, <3>4 DEF Srv!AnsweredForItself
    <3>7. Srv!BodiesWhole'
      BY <2>s, <3>1, <3>4, <3>5 DEF Srv!BodiesWhole, Srv!Filled
    <3> QED BY <3>1, <3>3, <3>6, <3>7, Elsewhere DEF ServerInv, ServerPlaces, AtClose
  <2>2. CASE Srv!PutHeadCpp
    <3>1. /\ message.req.method = "PUT" /\ at_server' = "serve" /\ files' = files /\ conn' = conn
          /\ answer' = [status |-> 201, len |-> 0, body |-> << >>]
      BY <2>2, <2>p DEF Srv!PutHeadCpp, Srv!r, Srv!conns
    <3>2. answer' \in Answer /\ answer'.status = 201
      <4>1. << >> \in Seq(Unit)
        OBVIOUS
      <4> QED BY <3>1, <4>1 DEF Answer
    <3>3. ServerTypes'
      BY <1>t, <2>s, <3>1, <3>2 DEF ServerTypes, Srv!Length
    <3>4. AtServe'
      BY <2>p, <2>s, <3>1, <3>2 DEF AtServe, Stored, Opened, Srv!Method
    <3> QED BY <3>1, <3>3, <3>4, Elsewhere DEF ServerInv, ServerPlaces
  <2>3. CASE Srv!PutCpp
    <3>p. /\ message.req.method = "PUT" /\ Srv!Deserved = 201 /\ kind[name] # "directory"
          /\ conn.clean => Stored
          /\ answer.status = 201 /\ answer' = answer
      BY <2>p, <2>3 DEF Srv!PutCpp, Srv!r, AtServe
    <3>1. CASE conn.in = Srv!Length(conn.req)
      <4>1. at_server' = "close" /\ files' = files /\ conn' = conn
        BY <2>3, <3>1 DEF Srv!PutCpp, Srv!Goto
      <4>2. ServerTypes'
        BY <1>t, <2>s, <3>p, <4>1 DEF ServerTypes, Srv!Length
      <4>3. Srv!AnsweredForItself'
        BY <2>s, <3>p DEF Srv!AnsweredForItself
      <4>4. conn.clean => files[name].data = Srv!Units(conn.id, 1, Srv!Length(conn.req))
        BY <3>p, <3>1 DEF Stored
      <4>5. Srv!BodiesWhole'
        BY <2>s, <3>p, <4>1, <4>4 DEF Srv!BodiesWhole, Srv!Length, Srv!Units
      <4> QED BY <4>1, <4>2, <4>3, <4>5, Elsewhere DEF ServerInv, ServerPlaces, AtClose
    <3>2. CASE conn.in # Srv!Length(conn.req)
      <4> DEFINE data == files[name].data
      <4>1. PICK n \in 1 .. Srv!Length(conn.req) - conn.in :
              /\ files' = [files EXCEPT ![name] =
                    Srv!Filled(@.data \o Srv!Units(conn.id, conn.in + 1, conn.in + n))]
              /\ conn' = [conn EXCEPT !.in = @ + n]
        BY <2>3, <2>r, <3>2 DEF Srv!PutCpp, Srv!r
      <4> DEFINE u == Srv!Units(conn.id, conn.in + 1, conn.in + n)
                 d == data \o u
      <4>2. n \in Nat /\ conn.in + n <= Srv!Length(conn.req)
        BY <1>t, <4>1, RequestFacts
      <4>3. u \in Seq(Unit)
        BY <1>t, <4>2, UnitsAre, RequestFacts
      <4>4. data \in Seq(Unit)
        BY <1>t, <2>r, RequestFacts
      <4>5. files' = [files EXCEPT ![name] = Srv!Filled(d)]
        BY <4>1
      <4>6. d \in Seq(Unit)
        <5> HIDE DEF u, data
        <5> QED BY <4>3, <4>4
      <4> HIDE DEF d
      <4>7. /\ files' \in [File -> Content] /\ \A f \in File : FileOf(f, files'[f])
            /\ files'[name].data = d /\ files'[name] # Srv!Absent
        BY <1>t, <2>r, <3>p, <4>5, <4>6, Written
      <4>8. conn' \in Conn /\ conn'.in = conn.in + n
        BY <1>t, <4>1, <4>2 DEF ServerTypes, Conn
      <4>9. ServerTypes'
        BY <1>t, <2>s, <3>p, <4>2, <4>7, <4>8 DEF ServerTypes, Srv!Length
      <4>10. conn'.clean => Stored'
        <5>1. Srv!Units(conn.id, 1, conn.in) \o u = Srv!Units(conn.id, 1, conn.in + n)
          <6>1. conn.id \in Nat /\ conn.in \in Nat
            BY <1>t, RequestFacts
          <6> QED BY ONLY <4>2, <6>1, UnitsJoin DEF u
        <5>2. conn.clean => d = Srv!Units(conn.id, 1, conn.in + n)
          BY <3>p, <5>1 DEF Stored, d
        <5> QED BY <2>s, <4>7, <4>8, <5>2 DEF Stored
      <4>11. at_server' = "serve"
        BY <2>3, <2>p, <3>2 DEF Srv!PutCpp
      <4>12. [conn.req EXCEPT !.method = Srv!Method(conn.req)]'
                = [conn.req EXCEPT !.method = Srv!Method(conn.req)]
        BY <2>s DEF Srv!Method
      <4>13. message.req = [conn.req EXCEPT !.method = Srv!Method(conn.req)]
        BY <2>p DEF AtServe
      <4>14. AtServe'
        BY <2>r, <2>s, <3>p, <4>7, <4>10, <4>12, <4>13 DEF AtServe, Opened
      <4> QED BY <4>9, <4>11, <4>14, Elsewhere DEF ServerInv, ServerPlaces
    <3> QED BY <3>1, <3>2
  <2> QED BY <1>4, <2>1, <2>2, <2>3
<1> QED BY <1>1, <1>2, <1>3, <1>4 DEF Srv!HttpserverCpp

LEMMA ServerNext == ServerInv /\ Srv!Next => ServerInv'
BY AcceptStep, ReadStep, ProcessStep, BodyStep, SendStep, CppStep
   DEF Srv!Next, Srv!Httpserver1

LEMMA SequentialServers == SeqSpec => []ServerInv
<1>1. SeqInit => ServerInv
  BY ServerInit DEF SeqInit
<1>2. ServerInv /\ [SeqNext]_seqVars => ServerInv'
  BY ServerNext, ServerStutter DEF SeqNext, InLog, InServers, InShell, InHistory, seqVars
<1> QED BY <1>1, <1>2, PTL DEF SeqSpec

\* Whatever came before on the connections of either server, a request in
\* order gets the status it deserves, and changes no file if it is refused.
THEOREM EachForItself == SeqSpec => []AnsweredForItself
<1>1. ServerInv => AnsweredForItself
  BY DEF ServerInv, ServerPlaces, AtClose, AnsweredForItself
<1> QED BY <1>1, SequentialServers, PTL

\* A body that arrived is stored, and a file is sent, without a unit missing,
\* added or changed, for every length and every size of the buffer.
THEOREM NothingIsLost == SeqSpec => []BodiesWhole
<1>1. ServerInv => BodiesWhole
  BY DEF ServerInv, ServerPlaces, AtClose, BodiesWhole
<1> QED BY <1>1, SequentialServers, PTL
-----------------------------------------------------------------------------
(* A history: what every step keeps. *)

History ==
    [slp : Nat, run : Nat, ticks : Nat, since : Nat, span : Nat,
     at : {"cpu", "queue", "sleep", "none"}, slept : Nat]

\* A thread has used no more than its time, and that is limited.
Shares(h) == h \in History /\ h.span < Hist!TICK_MAX /\ h.ticks <= h.span * Hist!SHIFT
Kept(h)   == Shares(h) /\ (h.at = "cpu" => h.since = 0)
Bounded(h) == h.run + h.slp <= Hist!SLP_RUN_MAX + 1

HistoryInv ==
    /\ overslept \in BOOLEAN
    /\ th \in [{"parent", "child"} -> History]
    /\ \A t \in {"parent", "child"} : Kept(th[t]) /\ (~overslept => Bounded(th[t]))

LEMMA Widths ==
    /\ 2 ^ Width \in Nat /\ 2 ^ (Width - 1) \in Nat
    /\ 44 * hz * 1024 <= 2 ^ Width /\ 22 * hz * 1024 <= 2 ^ (Width - 1)
    /\ hz \in Nat /\ hz >= 2
    /\ Hist!SHIFT = 1024 /\ Hist!TICK_TARG = 10 * hz /\ Hist!TICK_MAX = 11 * hz
    /\ Hist!SLP_RUN_MAX = 5 * hz * 1024
BY HistoryAssumption DEF Hist!SHIFT, Hist!TICK_TARG, Hist!TICK_MAX, Hist!SLP_RUN_MAX

LEMMA Unsigned ==
    ASSUME NEW x \in Nat
    PROVE  Hist!U(x) \in Nat /\ (x < 2 ^ Width => Hist!U(x) = x)
<1>1. 2 ^ Width \in Nat /\ 2 ^ Width > 0
  BY Widths
<1> QED BY <1>1, ModSmall, ModNat DEF Hist!U

LEMMA Signed ==
    ASSUME NEW x \in Nat, x < 2 ^ (Width - 1)
    PROVE  Hist!S(x) = x
<1>1. x < 2 ^ Width
  BY Widths, HistoryAssumption
<1> QED BY <1>1, Unsigned DEF Hist!S

LEMMA Clocks ==
    /\ Hist!realstathz \in Nat /\ Hist!realstathz > 0
    /\ Hist!tickincr \in Nat /\ Hist!tickincr <= hz * 1024
    /\ \A d \in {hz \div Hist!realstathz, (hz + Hist!realstathz - 1) \div Hist!realstathz} :
          d \in Nat /\ d <= hz
<1> DEFINE z == Hist!realstathz
<1>1. z \in Nat /\ z > 0
  BY HistoryAssumption DEF Hist!realstathz
<1>2. Hist!tickincr \in Nat /\ Hist!tickincr <= hz * 1024
  <2> HIDE DEF z
  <2>1. hz * 1024 \in Nat /\ hz * 1024 >= 1
    BY Widths
  <2>2. (hz * 1024) \div z \in Nat /\ (hz * 1024) \div z <= hz * 1024
    BY <1>1, <2>1, DivNat
  <2> QED BY <2>1, <2>2 DEF Hist!tickincr, Hist!Larger, Hist!SHIFT, z
<1>3. hz \div z \in Nat /\ hz \div z <= hz
  <2> HIDE DEF z
  <2> QED BY <1>1, Widths, DivNat
<1>4. (hz + z - 1) \div z \in Nat /\ (hz + z - 1) \div z <= hz
  <2> HIDE DEF z
  <2>1. hz + z - 1 \in Nat /\ hz + z - 1 <= hz * z
    BY <1>1, Widths
  <2> QED BY <1>1, <2>1, Widths, DivNat, DivUpTo
<1> QED BY <1>1, <1>2, <1>3, <1>4

LEMMA PctcpuKeeps ==
    ASSUME NEW h, Shares(h), NEW run \in BOOLEAN, run => h.since <= Hist!TICK_TARG,
           NEW g, g = Hist!sched_pctcpu_update(h, run)
    PROVE  /\ Shares(g) /\ g.since = 0
           /\ g.run = h.run /\ g.slp = h.slp /\ g.at = h.at /\ g.slept = h.slept
<1> DEFINE idle  == h.since >= Hist!TICK_TARG
           long  == ~idle /\ Hist!S(h.since + h.span) >= Hist!TICK_MAX
           kept  == IF idle THEN 0
                    ELSE IF long THEN (h.ticks \div h.span) * (Hist!TICK_TARG - h.since)
                    ELSE h.ticks
           sum   == kept + IF run THEN h.since * Hist!SHIFT ELSE 0
           span  == IF idle \/ long THEN Hist!TICK_TARG ELSE h.since + h.span
<1>1. /\ h \in History /\ h.since \in Nat /\ h.span \in Nat /\ h.ticks \in Nat
      /\ h.span < Hist!TICK_MAX /\ h.ticks <= h.span * 1024
  BY Widths DEF Shares, History
<1>2. g = [h EXCEPT !.ticks = Hist!S(sum), !.span = span, !.since = 0]
  BY Zenon DEF Hist!sched_pctcpu_update
<1>3. ~idle => Hist!S(h.since + h.span) = h.since + h.span
  <2>1. ~idle => h.since + h.span \in Nat /\ h.since + h.span < 2 ^ (Width - 1)
    BY <1>1, Widths
  <2> QED BY <2>1, Signed
<1>4. long => (h.ticks \div h.span) \in Nat /\ h.ticks \div h.span <= 1024
  <2>1. long => h.span > 0
    BY <1>1, <1>3, Widths
  <2> QED BY <1>1, <2>1, DivNat, DivUpTo
<1>5. sum \in Nat /\ sum <= span * 1024 /\ span \in Nat /\ span < Hist!TICK_MAX
  <2> DEFINE more == IF run THEN h.since * 1024 ELSE 0
  <2>1. more \in Nat /\ more <= h.since * 1024 /\ (run => h.since <= Hist!TICK_TARG)
    BY <1>1
  <2>2. sum = kept + more
    BY Widths
  <2>3. CASE idle
    <3>1. kept = 0 /\ span = Hist!TICK_TARG
      BY <2>3
    <3>2. more <= Hist!TICK_TARG * 1024
      BY <1>1, Widths
    <3> QED BY <2>1, <2>2, <3>1, <3>2, Widths
  <2>4. CASE long
    <3> DEFINE q == h.ticks \div h.span
    <3>1. kept = q * (Hist!TICK_TARG - h.since) /\ span = Hist!TICK_TARG
      BY <2>4
    <3>2. q \in Nat /\ q <= 1024 /\ Hist!TICK_TARG - h.since \in Nat
      BY <1>1, <1>4, <2>4, Widths
    <3> HIDE DEF q
    <3>3. kept \in Nat /\ kept <= 1024 * (Hist!TICK_TARG - h.since)
      <4>1. \A a \in Nat : q * a \in Nat /\ q * a <= 1024 * a
        BY <3>2
      <4> QED BY <3>1, <3>2, <4>1
    <3> HIDE DEF kept, more, span
    <3> QED BY <1>1, <2>1, <2>2, <3>1, <3>2, <3>3, Widths
  <2>5. CASE ~idle /\ ~long
    <3>1. kept = h.ticks /\ span = h.since + h.span
      BY <2>5
    <3>2. h.since + h.span < Hist!TICK_MAX
      BY <1>1, <1>3, <2>5, Widths
    <3> HIDE DEF kept, more, span
    <3> QED BY <1>1, <2>1, <2>2, <3>1, <3>2
  <2> QED BY <2>3, <2>4, <2>5
<1>6. Hist!S(sum) = sum
  <2>1. sum < 2 ^ (Width - 1)
    <3> HIDE DEF sum, span
    <3> QED BY <1>5, Widths
  <2> HIDE DEF sum
  <2> QED BY <1>5, <2>1, Signed
<1> HIDE DEF sum, span
<1>7. g = [slp |-> h.slp, run |-> h.run, ticks |-> sum, since |-> 0, span |-> span,
           at |-> h.at, slept |-> h.slept]
  BY <1>1, <1>2, <1>6 DEF History
<1>8. /\ h.slp \in Nat /\ h.run \in Nat /\ h.at \in {"cpu", "queue", "sleep", "none"}
      /\ h.slept \in Nat
  BY <1>1 DEF History
<1>9. g \in History
  BY <1>5, <1>7, <1>8 DEF History
<1> QED BY <1>5, <1>7, <1>9, Widths DEF Shares

\* g is h but for the running and sleeping time.
SameBut(g, h, run, slp) ==
    g = [slp |-> slp, run |-> run, ticks |-> h.ticks, since |-> h.since, span |-> h.span,
         at |-> h.at, slept |-> h.slept]

LEMMA SameButKeeps ==
    ASSUME NEW h, Shares(h), NEW g, NEW run \in Nat, NEW slp \in Nat, SameBut(g, h, run, slp)
    PROVE  /\ Shares(g) /\ g.since = h.since /\ g.at = h.at /\ g.slept = h.slept
           /\ g.run = run /\ g.slp = slp
<1>1. h.ticks \in Nat /\ h.since \in Nat /\ h.span \in Nat /\ h.slept \in Nat
      /\ h.at \in {"cpu", "queue", "sleep", "none"}
  BY DEF Shares, History
<1>2. g \in History
  BY <1>1 DEF SameBut, History
<1> QED BY <1>2 DEF SameBut, Shares

LEMMA UpdateKeeps ==
    ASSUME NEW h, Shares(h), NEW g, g = Hist!sched_interact_update(h)
    PROVE  /\ Shares(g) /\ g.since = h.since /\ g.at = h.at /\ g.slept = h.slept
           /\ h.run + h.slp < 2 ^ Width => Bounded(g)
<1> DEFINE M   == Hist!SLP_RUN_MAX
           sum == Hist!U(h.run + h.slp)
<1>1. h \in History /\ h.run \in Nat /\ h.slp \in Nat
  BY DEF Shares, History
<1>2. M \in Nat /\ M \div 5 = hz * 1024 /\ M = 5 * hz * 1024
  BY Widths
<1>3. sum \in Nat /\ (h.run + h.slp < 2 ^ Width => sum = h.run + h.slp)
  BY <1>1, Unsigned
<1> HIDE DEF M, sum
<1> DEFINE Ends(run, slp) ==
        /\ run \in Nat /\ slp \in Nat /\ SameBut(g, h, run, slp)
        /\ h.run + h.slp < 2 ^ Width => run + slp <= M + 1
<1>4. ASSUME NEW run, NEW slp, Ends(run, slp)
      PROVE  /\ Shares(g) /\ g.since = h.since /\ g.at = h.at /\ g.slept = h.slept
             /\ h.run + h.slp < 2 ^ Width => Bounded(g)
  BY <1>4, SameButKeeps DEF Bounded, M
<1>5. CASE sum < M
  <2>1. g = h
    BY <1>5 DEF Hist!sched_interact_update, M, sum
  <2>2. SameBut(g, h, h.run, h.slp)
    BY <1>1, <2>1 DEF SameBut, History
  <2>3. Ends(h.run, h.slp)
    BY <1>1, <1>2, <1>3, <1>5, <2>2
  <2> QED BY <1>4, <2>3
<1>6. CASE sum > M * 2
  <2>1. CASE h.run > h.slp
    <3>1. g = [h EXCEPT !.run = M, !.slp = 1]
      BY <1>2, <1>3, <1>6, <2>1 DEF Hist!sched_interact_update, M, sum
    <3>2. SameBut(g, h, M, 1)
      BY <1>1, <3>1 DEF SameBut, History
    <3>3. Ends(M, 1)
      BY <1>2, <3>2
    <3> QED BY <1>4, <3>3
  <2>2. CASE ~(h.run > h.slp)
    <3>1. g = [h EXCEPT !.slp = M, !.run = 1]
      BY <1>2, <1>3, <1>6, <2>2 DEF Hist!sched_interact_update, M, sum
    <3>2. SameBut(g, h, 1, M)
      BY <1>1, <3>1 DEF SameBut, History
    <3>3. Ends(1, M)
      BY <1>2, <3>2
    <3> QED BY <1>4, <3>3
  <2> QED BY <2>1, <2>2
<1>7. CASE sum > (M \div 5) * 6 /\ ~(sum > M * 2)
  <2>0. ~(sum < M)
    BY <1>2, <1>3, <1>7, Widths
  <2>1. g = [h EXCEPT !.run = h.run \div 2, !.slp = h.slp \div 2]
    BY <1>7, <2>0 DEF Hist!sched_interact_update, M, sum
  <2>2. SameBut(g, h, h.run \div 2, h.slp \div 2)
    BY <1>1, <2>1 DEF SameBut, History
  <2>3. Ends(h.run \div 2, h.slp \div 2)
    BY <1>1, <1>2, <1>3, <1>7, <2>2
  <2> QED BY <1>4, <2>3
<1>8. CASE ~(sum < M) /\ ~(sum > (M \div 5) * 6)
  <2>1. g = [h EXCEPT !.run = (h.run \div 5) * 4, !.slp = (h.slp \div 5) * 4]
    BY <1>2, <1>3, <1>8 DEF Hist!sched_interact_update, M, sum
  <2>2. SameBut(g, h, (h.run \div 5) * 4, (h.slp \div 5) * 4)
    BY <1>1, <2>1 DEF SameBut, History
  <2>3. Ends((h.run \div 5) * 4, (h.slp \div 5) * 4)
    BY <1>1, <1>2, <1>3, <1>8, <2>2
  <2> QED BY <1>4, <2>3
<1> QED BY <1>2, <1>3, <1>5, <1>6, <1>7, <1>8

LEMMA ForkKeeps ==
    ASSUME NEW h, Shares(h), NEW g, g = Hist!sched_interact_fork(h)
    PROVE  /\ Shares(g) /\ g.since = h.since /\ g.at = h.at /\ g.slept = h.slept
           /\ Bounded(h) => Bounded(g)
<1> DEFINE sum == Hist!U(h.run + h.slp)
           ratio == sum \div Hist!SLP_RUN_FORK
<1>1. h \in History /\ h.run \in Nat /\ h.slp \in Nat
  BY DEF Shares, History
<1>2. sum \in Nat
  BY <1>1, Unsigned
<1>3. Hist!SLP_RUN_FORK \in Nat /\ Hist!SLP_RUN_FORK > 0
  BY HistoryAssumption DEF Hist!SLP_RUN_FORK, Hist!SHIFT
<1> HIDE DEF sum
<1>4. CASE sum > Hist!SLP_RUN_FORK
  <2>1. g = [h EXCEPT !.run = h.run \div ratio, !.slp = h.slp \div ratio]
    BY <1>4 DEF Hist!sched_interact_fork, sum
  <2>2. ratio \in Nat /\ ratio > 0
    BY <1>2, <1>3, <1>4
  <2> HIDE DEF ratio
  <2>3. /\ h.run \div ratio \in Nat /\ h.run \div ratio <= h.run
        /\ h.slp \div ratio \in Nat /\ h.slp \div ratio <= h.slp
    BY <1>1, <2>2, DivNat
  <2>4. SameBut(g, h, h.run \div ratio, h.slp \div ratio)
    BY <1>1, <2>1 DEF SameBut, History
  <2>5. /\ Shares(g) /\ g.since = h.since /\ g.at = h.at /\ g.slept = h.slept
        /\ g.run = h.run \div ratio /\ g.slp = h.slp \div ratio
    BY <2>3, <2>4, SameButKeeps
  <2> QED BY <1>1, <2>3, <2>5, Widths DEF Bounded
<1>5. CASE ~(sum > Hist!SLP_RUN_FORK)
  BY <1>5 DEF Hist!sched_interact_fork, sum
<1> QED BY <1>4, <1>5

LEMMA LaterKeeps ==
    ASSUME NEW h, Shares(h), NEW d \in Nat, NEW g, g = Hist!Later(h, d)
    PROVE  /\ Shares(g) /\ g.run = h.run /\ g.slp = h.slp /\ g.at = h.at
           /\ h.at # "none" /\ h.since + d < 2 ^ Width => g.since = h.since + d
<1>1. /\ h \in History /\ h.since \in Nat /\ h.slept \in Nat
      /\ h.slp \in Nat /\ h.run \in Nat /\ h.ticks \in Nat /\ h.span \in Nat
      /\ h.at \in {"cpu", "queue", "sleep", "none"}
  BY DEF Shares, History
<1>2. CASE h.at = "none"
  <2>1. g = h
    BY <1>2 DEF Hist!Later
  <2> QED BY <1>2, <2>1
<1>3. CASE h.at # "none"
  <2> DEFINE since == Hist!U(h.since + d)
             slept == IF h.at = "sleep" THEN Hist!U(h.slept + d) ELSE 0
  <2>1. g = [h EXCEPT !.since = since, !.slept = slept]
    BY <1>3 DEF Hist!Later
  <2>2. /\ since \in Nat /\ slept \in Nat
        /\ h.since + d < 2 ^ Width => since = h.since + d
    BY <1>1, Unsigned
  <2> HIDE DEF since, slept
  <2>3. g = [slp |-> h.slp, run |-> h.run, ticks |-> h.ticks, since |-> since,
             span |-> h.span, at |-> h.at, slept |-> slept]
    BY <1>1, <2>1 DEF History
  <2>4. g \in History
    BY <1>1, <2>2, <2>3 DEF History
  <2> QED BY <2>2, <2>3, <2>4 DEF Shares
<1> QED BY <1>2, <1>3

\* More running time, by what it takes until the next interrupt or what a
\* child has used.
LEMMA RunMore ==
    ASSUME NEW h, Shares(h), NEW n \in Nat,
           NEW e, e = [h EXCEPT !.run = Hist!U(h.run + n)],
           NEW g, g = Hist!sched_interact_update(e)
    PROVE  /\ Shares(g) /\ g.since = h.since /\ g.at = h.at
           /\ Bounded(h) /\ n <= 6 * hz * 1024 => Bounded(g)
<1>1. h \in History /\ h.run \in Nat /\ h.slp \in Nat
  BY DEF Shares, History
<1> DEFINE run == Hist!U(h.run + n)
<1>2. run \in Nat /\ (h.run + n < 2 ^ Width => run = h.run + n)
  BY <1>1, Unsigned
<1> HIDE DEF run
<1>3. SameBut(e, h, run, h.slp)
  BY <1>1 DEF SameBut, History, run
<1>4. Shares(e) /\ e.since = h.since /\ e.at = h.at /\ e.run = run /\ e.slp = h.slp
  <2>1. run \in Nat /\ h.slp \in Nat /\ SameBut(e, h, run, h.slp)
    BY <1>1, <1>2, <1>3
  <2> QED BY ONLY Shares(h), <2>1, SameButKeeps
<1>5. Bounded(h) /\ n <= 6 * hz * 1024 => e.run + e.slp < 2 ^ Width
  BY <1>1, <1>2, <1>4, Widths DEF Bounded
<1> QED BY <1>4, <1>5, UpdateKeeps, ZenonT(60)

LEMMA ChargedKeeps ==
    ASSUME NEW h, Shares(h), h.since <= Hist!TICK_TARG, NEW g, g = Hist!Charged(h)
    PROVE  Shares(g) /\ g.since = 0 /\ g.at = h.at /\ (Bounded(h) => Bounded(g))
<1> DEFINE p == Hist!sched_pctcpu_update(h, TRUE)
           e == [p EXCEPT !.run = Hist!U(p.run + Hist!tickincr)]
<1>1. g = Hist!sched_interact_update(e)
  BY DEF Hist!Charged
<1>2. Shares(p) /\ p.since = 0 /\ p.run = h.run /\ p.slp = h.slp /\ p.at = h.at
  BY PctcpuKeeps
<1>3. Hist!tickincr \in Nat /\ Hist!tickincr <= 6 * hz * 1024
  BY Clocks, Widths
<1> HIDE DEF p
<1>4. /\ Shares(g) /\ g.since = p.since /\ g.at = p.at
      /\ Bounded(p) => Bounded(g)
  BY <1>1, <1>2, <1>3, RunMore
<1> QED BY <1>2, <1>4 DEF Bounded

\* A thread on a cpu is charged for the ticks of one clock interrupt.
LEMMA ChargedLater ==
    ASSUME NEW h, Kept(h), h.at = "cpu", NEW d \in Nat, d <= hz,
           NEW g, g = Hist!Charged(Hist!Later(h, d))
    PROVE  Kept(g) /\ g.at = "cpu" /\ (Bounded(h) => Bounded(g))
<1> DEFINE l == Hist!Later(h, d)
<1>1. /\ Shares(l) /\ l.run = h.run /\ l.slp = h.slp /\ l.at = h.at
      /\ h.since + d < 2 ^ Width => l.since = h.since + d
  BY LaterKeeps DEF Kept
<1>2. h.since = 0
  BY DEF Kept
<1> HIDE DEF l
<1>3. l.since <= Hist!TICK_TARG
  BY <1>1, <1>2, Widths
<1>4. Shares(g) /\ g.since = 0 /\ g.at = l.at /\ (Bounded(l) => Bounded(g))
  BY <1>1, <1>3, ChargedKeeps DEF l
<1> QED BY <1>1, <1>4 DEF Kept, Bounded

\* The history of a thread that has only been running, by induction over the
\* interrupts.
LEMMA RunningKeeps ==
    ASSUME NEW n \in Nat
    PROVE  Kept(Hist!Running(n)) /\ Bounded(Hist!Running(n))
<1> DEFINE first   == [Hist!New EXCEPT !.at = "cpu"]
           tick    == hz \div Hist!realstathz
           Next1(h) == Hist!Charged(Hist!Later(h, tick))
           Runs(f, m) == f = [k \in 0 .. m |-> IF k = 0 THEN first ELSE Next1(f[k - 1])]
           OK(h)   == Kept(h) /\ h.at = "cpu" /\ Bounded(h)
<1>1. tick \in Nat /\ tick <= hz
  BY Clocks
<1>2. OK(first)
  <2>1. first = [slp |-> 0, run |-> 0, ticks |-> 0, since |-> 0, span |-> 0, at |-> "cpu",
                 slept |-> 0]
    BY DEF Hist!New
  <2>2. first \in History
    BY <2>1 DEF History
  <2> QED BY <2>1, <2>2, Widths DEF Kept, Shares, Bounded
<1>3. ASSUME NEW h, OK(h) PROVE OK(Next1(h))
  BY <1>1, <1>3, ChargedLater
<1> HIDE DEF first, tick, Next1
<1>4. \E f : Runs(f, n)
  <2> DEFINE T == {m \in Nat : \E f : Runs(f, m)}
  <2>1. 0 \in T
    <3>1. Runs([k \in 0 .. 0 |-> first], 0)
      OBVIOUS
    <3> QED BY <3>1
  <2>2. ASSUME NEW m \in T PROVE m + 1 \in T
    <3>1. PICK f : Runs(f, m)
      BY <2>2
    <3> DEFINE e == [k \in 0 .. m + 1 |-> IF k <= m THEN f[k] ELSE Next1(f[m])]
    <3>2. \A k \in 0 .. m : e[k] = f[k]
      OBVIOUS
    <3>3. \A k \in 0 .. m + 1 : e[k] = IF k = 0 THEN first ELSE Next1(e[k - 1])
      <4> SUFFICES ASSUME NEW k \in 0 .. m + 1
                   PROVE  e[k] = IF k = 0 THEN first ELSE Next1(e[k - 1])
        OBVIOUS
      <4>1. CASE k = m + 1
        <5>1. e[k] = Next1(f[m]) /\ e[k - 1] = f[m] /\ k # 0
          BY <4>1, <3>2
        <5> QED BY <5>1
      <4>2. CASE k \in 0 .. m
        <5>1. e[k] = f[k]
          BY <3>2, <4>2
        <5>2. f[k] = IF k = 0 THEN first ELSE Next1(f[k - 1])
          BY <3>1, <4>2
        <5>3. k # 0 => e[k - 1] = f[k - 1]
          BY <3>2, <4>2
        <5> QED BY <5>1, <5>2, <5>3
      <4> QED BY <4>1, <4>2
    <3>4. Runs(e, m + 1)
      BY <3>3
    <3> HIDE DEF e
    <3> QED BY <3>4
  <2> HIDE DEF T
  <2>3. T \in SUBSET Nat
    BY DEF T
  <2>4. T = Nat
    BY <2>1, <2>2, <2>3, Induction
  <2> QED BY <2>4 DEF T
<1>5. PICK f : Runs(f, n) /\ Hist!Running(n) = f[n]
  <2> DEFINE f == CHOOSE f : Runs(f, n)
  <2>1. Runs(f, n)
    BY <1>4
  <2>2. Hist!Running(n) = f[n]
    BY DEF Hist!Running, first, Next1, tick
  <2> QED BY <2>1, <2>2
<1>6. \A k \in 0 .. n : OK(f[k])
  <2> DEFINE T == {k \in Nat : k <= n => OK(f[k])}
  <2>1. 0 \in T
    BY <1>2, <1>5
  <2>2. ASSUME NEW k \in T PROVE k + 1 \in T
    <3>1. CASE k + 1 <= n
      <4>1. f[k + 1] = Next1(f[k]) /\ OK(f[k])
        BY <1>5, <2>2, <3>1
      <4> HIDE DEF OK
      <4> QED BY <1>3, <4>1
    <3>2. CASE ~(k + 1 <= n)
      BY <3>2
    <3> QED BY <3>1, <3>2
  <2> HIDE DEF T
  <2>3. T \in SUBSET Nat
    BY DEF T
  <2>4. T = Nat
    BY <2>1, <2>2, <2>3, Induction
  <2> QED BY <2>4 DEF T
<1> QED BY <1>5, <1>6

-----------------------------------------------------------------------------
(* Every step of a history keeps the invariant. *)

Both == {"parent", "child"}

LEMMA GoneKeeps == Kept(Hist!Gone) /\ Bounded(Hist!Gone)
<1>1. Hist!Gone = [slp |-> 0, run |-> 0, ticks |-> 0, since |-> 0, span |-> 0, at |-> "none",
                   slept |-> 0]
  BY DEF Hist!Gone, Hist!New
<1>2. Hist!Gone \in History
  BY <1>1 DEF History
<1> QED BY <1>1, <1>2, Widths DEF Kept, Shares, Bounded

LEMMA HistoryInit ==
    ASSUME IF part = "history" THEN Hist!Init ELSE HistOff /\ overslept = FALSE /\ steps = 0
    PROVE  HistoryInv
<1>1. CASE part = "history"
  <2>1. PICK n \in Ran :
            th = [t \in Both |-> IF t = "parent" THEN Hist!Running(n) ELSE Hist!Gone]
    BY <1>1 DEF Hist!Init, Both
  <2>2. Kept(Hist!Running(n)) /\ Bounded(Hist!Running(n))
    BY <2>1, HistoryAssumption, RunningKeeps
  <2>3. \A t \in Both : th[t] \in History /\ Kept(th[t]) /\ Bounded(th[t])
    BY <2>1, <2>2, GoneKeeps DEF Kept, Shares
  <2>4. overslept = FALSE
    BY <1>1 DEF Hist!Init
  <2> QED BY <2>1, <2>3, <2>4 DEF HistoryInv, Both
<1>2. CASE part # "history"
  <2>1. th = [t \in Both |-> Hist!Gone] /\ overslept = FALSE
    BY <1>2 DEF HistOff, Both
  <2>2. \A t \in Both : th[t] \in History /\ Kept(th[t]) /\ Bounded(th[t])
    BY <2>1, GoneKeeps DEF Kept, Shares
  <2> QED BY <2>1, <2>2 DEF HistoryInv, Both
<1> QED BY <1>1, <1>2

\* Both threads change, or one.
LEMMA BothChange ==
    ASSUME HistoryInv, overslept' = overslept, th' = [t \in Both |-> th'[t]],
           \A t \in Both :
              Kept(th'[t]) /\ (Bounded(th["parent"]) /\ Bounded(th["child"]) => Bounded(th'[t]))
    PROVE  HistoryInv'
<1>1. \A t \in Both : th'[t] \in History
  BY DEF Kept, Shares
<1>2. th' \in [Both -> History]
  BY <1>1
<1>3. ~overslept => Bounded(th["parent"]) /\ Bounded(th["child"])
  BY DEF HistoryInv
<1> QED BY <1>2, <1>3 DEF HistoryInv, Both

LEMMA OneChanges ==
    ASSUME HistoryInv, NEW t \in Both, NEW h, Hist!Set(t, h), Kept(h),
           overslept' \in BOOLEAN, overslept => overslept', ~overslept' => Bounded(h)
    PROVE  HistoryInv'
<1>1. th' = [th EXCEPT ![t] = h] /\ h \in History
  BY DEF Hist!Set, Kept, Shares
<1>2. th' \in [Both -> History]
  BY <1>1 DEF HistoryInv, Both
<1>3. \A s \in Both : Kept(th'[s]) /\ (~overslept' => Bounded(th'[s]))
  BY <1>1 DEF HistoryInv, Both
<1> QED BY <1>2, <1>3 DEF HistoryInv, Both

LEMMA PlaceKeeps ==
    ASSUME NEW h, Shares(h), NEW to \in {"cpu", "queue", "sleep", "none"},
           NEW g, g = [h EXCEPT !.at = to]
    PROVE  /\ Shares(g) /\ g.since = h.since /\ g.at = to
           /\ Bounded(h) => Bounded(g)
<1>1. h \in History
  BY DEF Shares
<1>2. g \in History /\ g.since = h.since /\ g.at = to /\ g.run = h.run /\ g.slp = h.slp
      /\ g.span = h.span /\ g.ticks = h.ticks
  BY <1>1 DEF History
<1> QED BY <1>2 DEF Shares, Bounded

LEMMA ClockStep == HistoryInv /\ (Hist!sched_clock \/ Hist!Pass) => HistoryInv'
<1> SUFFICES ASSUME HistoryInv, Hist!sched_clock \/ Hist!Pass PROVE HistoryInv'
  OBVIOUS
<1>d. DOMAIN th = Both /\ \A t \in Both : Kept(th[t]) /\ Shares(th[t])
  BY DEF HistoryInv, Both, Kept
<1>1. CASE Hist!sched_clock
  <2>1. PICK d \in {hz \div Hist!realstathz, (hz + Hist!realstathz - 1) \div Hist!realstathz} :
            th' = [t \in DOMAIN th |-> IF th[t].at = "cpu" THEN Hist!Charged(Hist!Later(th[t], d))
                                       ELSE Hist!Later(th[t], d)]
    BY <1>1 DEF Hist!sched_clock
  <2>2. d \in Nat /\ d <= hz
    BY <2>1, Clocks
  <2>3. ASSUME NEW t \in Both
        PROVE  Kept(th'[t]) /\ (Bounded(th[t]) => Bounded(th'[t]))
    <3>1. CASE th[t].at = "cpu"
      <4>1. th'[t] = Hist!Charged(Hist!Later(th[t], d))
        BY <1>d, <2>1, <3>1
      <4> QED BY <1>d, <2>2, <3>1, <4>1, ChargedLater
    <3>2. CASE th[t].at # "cpu"
      <4>1. th'[t] = Hist!Later(th[t], d)
        BY <1>d, <2>1, <3>2
      <4>2. /\ Shares(th'[t]) /\ th'[t].run = th[t].run /\ th'[t].slp = th[t].slp
            /\ th'[t].at = th[t].at
        BY <1>d, <2>2, <4>1, LaterKeeps
      <4> QED BY <3>2, <4>2 DEF Kept, Bounded
    <3> QED BY <3>1, <3>2
  <2>4. th' = [t \in Both |-> th'[t]] /\ overslept' = overslept
    BY <1>1, <1>d, <2>1 DEF Hist!sched_clock
  <2> QED BY <2>3, <2>4, BothChange DEF Both
<1>2. CASE Hist!Pass
  <2>1. PICK d \in Delay : th' = [t \in DOMAIN th |-> Hist!Later(th[t], d)]
    BY <1>2 DEF Hist!Pass
  <2>2. d \in Nat
    BY <2>1, HistoryAssumption
  <2>3. ASSUME NEW t \in Both
        PROVE  Kept(th'[t]) /\ (Bounded(th[t]) => Bounded(th'[t]))
    <3>1. th'[t] = Hist!Later(th[t], d) /\ th[t].at # "cpu"
      BY <1>2, <1>d, <2>1 DEF Hist!Pass
    <3>2. /\ Shares(th'[t]) /\ th'[t].run = th[t].run /\ th'[t].slp = th[t].slp
          /\ th'[t].at = th[t].at
      BY <1>d, <2>2, <3>1, LaterKeeps
    <3> QED BY <3>1, <3>2 DEF Kept, Bounded
  <2>4. th' = [t \in Both |-> th'[t]] /\ overslept' = overslept
    BY <1>2, <1>d, <2>1 DEF Hist!Pass
  <2> QED BY <2>3, <2>4, BothChange DEF Both
<1> QED BY <1>1, <1>2

LEMMA SwitchStep ==
    ASSUME HistoryInv, NEW t \in Both, Hist!sched_switch(t)
    PROVE  HistoryInv'
<1>d. /\ Kept(th[t]) /\ Shares(th[t]) /\ (~overslept => Bounded(th[t])) /\ overslept \in BOOLEAN
      /\ overslept' = overslept
  BY DEF HistoryInv, Both, Kept, Hist!sched_switch
<1>1. PICK run \in BOOLEAN, to \in {"queue", "sleep", "cpu"} :
        /\ run => th[t].since <= Hist!TICK_TARG
        /\ Hist!Set(t, [Hist!sched_pctcpu_update(th[t], run) EXCEPT !.at = to])
  <2>1. CASE /\ th[t].at = "cpu"
             /\ \E to \in {"queue", "sleep"} :
                   Hist!Set(t, [Hist!sched_pctcpu_update(th[t], TRUE) EXCEPT !.at = to])
    <3>1. th[t].since <= Hist!TICK_TARG
      BY <1>d, <2>1, Widths DEF Kept
    <3> QED BY <2>1, <3>1
  <2>2. CASE Hist!Set(t, [Hist!sched_pctcpu_update(th[t], FALSE) EXCEPT !.at = "cpu"])
    BY <2>2
  <2> QED BY <2>1, <2>2 DEF Hist!sched_switch
<1> DEFINE p == Hist!sched_pctcpu_update(th[t], run)
           h == [p EXCEPT !.at = to]
<1>2. Shares(p) /\ p.since = 0 /\ p.run = th[t].run /\ p.slp = th[t].slp
  BY <1>d, <1>1, PctcpuKeeps
<1>3. Hist!Set(t, h)
  BY <1>1
<1> HIDE DEF p
<1>4. Shares(h) /\ h.since = p.since /\ (Bounded(p) => Bounded(h))
  BY <1>2, PlaceKeeps
<1> HIDE DEF h
<1>5. Kept(h) /\ (~overslept => Bounded(h))
  BY <1>d, <1>2, <1>4 DEF Kept, Bounded
<1> QED BY <1>d, <1>3, <1>5, OneChanges

LEMMA WokenIs ==
    ASSUME NEW h \in History, NEW place, NEW slept
    PROVE  [h EXCEPT !.at = place, !.slept = slept] =
              [slp |-> h.slp, run |-> h.run, ticks |-> h.ticks, since |-> h.since,
               span |-> h.span, at |-> place, slept |-> slept]
<1> DEFINE g == [h EXCEPT !.at = place]
<1>1. g = [slp |-> h.slp, run |-> h.run, ticks |-> h.ticks, since |-> h.since,
           span |-> h.span, at |-> place, slept |-> h.slept]
  BY DEF History
<1>2. [h EXCEPT !.at = place, !.slept = slept] = [g EXCEPT !.slept = slept]
  BY DEF History
<1> HIDE DEF g
<1> QED BY <1>1, <1>2

LEMMA WakeupStep ==
    ASSUME HistoryInv, NEW t \in Both, Hist!sched_wakeup(t)
    PROVE  HistoryInv'
<1> DEFINE h == [th[t] EXCEPT !.at = "queue", !.slept = 0]
           slept == [h EXCEPT !.slp = Hist!U(h.slp + th[t].slept * Hist!SHIFT)]
           long == h.slp + th[t].slept * Hist!SHIFT + h.run >= 2 ^ Width
<1>d. /\ Kept(th[t]) /\ Shares(th[t]) /\ (~overslept => Bounded(th[t])) /\ overslept \in BOOLEAN
      /\ th[t] \in History
  BY DEF HistoryInv, Both, Kept, Shares
<1>1. h = [slp |-> th[t].slp, run |-> th[t].run, ticks |-> th[t].ticks, since |-> th[t].since,
           span |-> th[t].span, at |-> "queue", slept |-> 0]
  BY <1>d, WokenIs
<1>2. h \in History
  BY <1>d, <1>1 DEF History
<1>3. /\ Kept(h) /\ Shares(h) /\ (~overslept => Bounded(h))
      /\ h.run \in Nat /\ h.slp \in Nat /\ th[t].slept \in Nat
  BY <1>d, <1>1, <1>2 DEF Kept, Shares, Bounded, History
<1>4. CASE Hist!Set(t, h) /\ overslept' = overslept
  <2> HIDE DEF h
  <2> QED BY <1>d, <1>3, <1>4, OneChanges
<1>5. CASE /\ Hist!Set(t, Hist!sched_pctcpu_update(Hist!sched_interact_update(slept), FALSE))
           /\ overslept' = (overslept \/ long)
  <2> DEFINE more == th[t].slept * Hist!SHIFT
             slp  == Hist!U(h.slp + more)
             s    == Hist!sched_interact_update(slept)
             g    == Hist!sched_pctcpu_update(s, FALSE)
  <2>1. more \in Nat
    BY <1>3, Widths
  <2> HIDE DEF h, more
  <2>2. slp \in Nat /\ (h.slp + more < 2 ^ Width => slp = h.slp + more)
    BY <1>3, <2>1, Unsigned
  <2>3. SameBut(slept, h, h.run, slp)
    BY <1>3 DEF SameBut, Shares, History, more
  <2> HIDE DEF slept, slp
  <2>4. Shares(slept) /\ slept.run = h.run /\ slept.slp = slp
    BY <1>3, <2>2, <2>3, SameButKeeps
  <2>5. Shares(s) /\ (slept.run + slept.slp < 2 ^ Width => Bounded(s))
    BY <2>4, UpdateKeeps
  <2>6. ~long => slept.run + slept.slp < 2 ^ Width
    BY <1>3, <2>1, <2>2, <2>4, Widths DEF more
  <2>7. Hist!Set(t, g)
    BY <1>5
  <2> HIDE DEF s
  <2>8. Shares(g) /\ g.since = 0 /\ g.run = s.run /\ g.slp = s.slp
    BY <2>5, PctcpuKeeps
  <2> HIDE DEF g, long
  <2>9. Kept(g) /\ (~long => Bounded(g))
    BY <2>5, <2>6, <2>8 DEF Kept, Bounded
  <2>10. overslept' \in BOOLEAN /\ (overslept => overslept') /\ (~overslept' => ~long)
    BY <1>5, <1>d
  <2> QED BY <2>7, <2>9, <2>10, OneChanges
<1> QED BY <1>4, <1>5 DEF Hist!sched_wakeup

LEMMA ForkStep == HistoryInv /\ (Hist!sched_fork \/ Hist!sched_exit) => HistoryInv'
<1> SUFFICES ASSUME HistoryInv, Hist!sched_fork \/ Hist!sched_exit PROVE HistoryInv'
  OBVIOUS
<1>d. /\ DOMAIN th = Both /\ "parent" \in Both /\ "child" \in Both
      /\ \A t \in Both : Kept(th[t]) /\ Shares(th[t]) /\ th[t] \in History
  BY DEF HistoryInv, Both, Kept, Shares
<1>1. CASE Hist!sched_fork
  <2> DEFINE h == Hist!sched_pctcpu_update(th["parent"], TRUE)
             e == [h EXCEPT !.run = Hist!U(h.run + Hist!tickincr)]
             p == Hist!sched_interact_update(e)
             f == Hist!sched_interact_fork(h)
             c == [f EXCEPT !.at = "queue"]
  <2>1. th' = [t \in DOMAIN th |-> IF t = "parent" THEN p ELSE c] /\ overslept' = overslept
    BY <1>1 DEF Hist!sched_fork
  <2>2. th["parent"].since <= Hist!TICK_TARG
    BY <1>1, <1>d, Widths DEF Hist!sched_fork, Kept
  <2>3. /\ Shares(h) /\ h.since = 0 /\ h.run = th["parent"].run /\ h.slp = th["parent"].slp
    BY <1>d, <2>2, PctcpuKeeps
  <2>4. Hist!tickincr \in Nat /\ Hist!tickincr <= 6 * hz * 1024
    BY Clocks, Widths
  <2> HIDE DEF h
  <2>5. Shares(p) /\ p.since = 0 /\ (Bounded(h) => Bounded(p))
    BY <2>3, <2>4, RunMore
  <2>6. Shares(f) /\ (Bounded(h) => Bounded(f))
    BY <2>3, ForkKeeps
  <2> HIDE DEF f
  <2>7. Shares(c) /\ c.at = "queue" /\ (Bounded(f) => Bounded(c))
    BY <2>6, PlaceKeeps
  <2> HIDE DEF p, c
  <2>8. th'["parent"] = p /\ th'["child"] = c /\ th' = [t \in Both |-> th'[t]]
    BY <1>d, <2>1
  <2>9. Bounded(th["parent"]) => Bounded(p) /\ Bounded(c)
    BY <2>3, <2>5, <2>6, <2>7 DEF Bounded
  <2>10. Kept(p) /\ Kept(c)
    BY <2>5, <2>7 DEF Kept
  <2> QED BY <2>1, <2>8, <2>9, <2>10, BothChange DEF Both
<1>2. CASE Hist!sched_exit
  <2> DEFINE h == th["parent"]
             n == th["child"].run
             e == [h EXCEPT !.run = Hist!U(h.run + n)]
             p == Hist!sched_interact_update(e)
  <2>1. th' = [t \in DOMAIN th |-> IF t = "child" THEN Hist!Gone ELSE Hist!sched_interact_update(
                  [th[t] EXCEPT !.run = Hist!U(th[t].run + n)])] /\ overslept' = overslept
    BY <1>2 DEF Hist!sched_exit
  <2>2. th'["parent"] = p /\ th'["child"] = Hist!Gone /\ th' = [t \in Both |-> th'[t]]
    BY <1>d, <2>1
  <2>3. n \in Nat /\ th["child"].slp \in Nat /\ Shares(h) /\ Kept(h)
    BY <1>d DEF History
  <2> HIDE DEF h, n
  <2>4. Shares(p) /\ p.since = h.since /\ p.at = h.at
        /\ (Bounded(h) /\ n <= 6 * hz * 1024 => Bounded(p))
    BY <2>3, RunMore
  <2>5. Bounded(th["child"]) => n <= 6 * hz * 1024
    BY <2>3, Widths DEF Bounded, n
  <2> HIDE DEF p
  <2>6. Kept(p)
    BY <2>3, <2>4 DEF Kept
  <2> QED BY <2>1, <2>2, <2>4, <2>5, <2>6, GoneKeeps, BothChange DEF Both, h
<1> QED BY <1>1, <1>2

LEMMA HistoryNext == HistoryInv /\ Hist!Next => HistoryInv'
<1>1. HistoryInv => DOMAIN th = Both
  BY DEF HistoryInv, Both
<1> QED BY <1>1, ClockStep, SwitchStep, WakeupStep, ForkStep DEF Hist!Next

LEMMA SequentialHistory == SeqSpec => []HistoryInv
<1>1. SeqInit => HistoryInv
  BY HistoryInit DEF SeqInit
<1>2. HistoryInv /\ UNCHANGED thVars => HistoryInv'
  BY DEF HistoryInv, thVars
<1>3. HistoryInv /\ [SeqNext]_seqVars => HistoryInv'
  BY <1>2, HistoryNext DEF SeqNext, InLog, InServers, InShell, InHistory, seqVars
<1> QED BY <1>1, <1>3, PTL DEF SeqSpec

\* What the scheduler remembers of a thread stays limited, and a thread has
\* used no more than the time it was there, for every hz, stathz and width of
\* an int that holds the ticks of a history.
THEOREM HistoryIsBounded == SeqSpec => []HistoryBounded
<1>1. HistoryInv => HistoryBounded
  <2> SUFFICES ASSUME HistoryInv, NEW t \in DOMAIN th
               PROVE  /\ ~overslept => th[t].run + th[t].slp <= Hist!SLP_RUN_MAX + 1
                      /\ th[t].ticks \in 0 .. th[t].span * Hist!SHIFT
    BY DEF HistoryBounded, Hist!HistoryBounded
  <2>1. Kept(th[t]) /\ (~overslept => Bounded(th[t]))
    BY DEF HistoryInv
  <2> QED BY <2>1, Widths DEF Kept, Shares, History, Bounded
<1> QED BY <1>1, SequentialHistory, PTL

-----------------------------------------------------------------------------
(* The priority that is made of a history. *)

\* Whatever a thread has run and slept, the score is a percentage.
LEMMA ScoreInRange ==
    ASSUME NEW h \in History, NEW interact
    PROVE  Hist!sched_interact_score(h, interact) \in 0 .. 100
<1>1. h.run \in Nat /\ h.slp \in Nat
  BY DEF History
<1>2. ASSUME NEW a \in Nat, NEW b \in Nat, b < a
      PROVE  b \div Hist!Larger(1, a \div 50) \in 0 .. 99
  <2>1. CASE a < 50
    <3>1. Hist!Larger(1, a \div 50) = 1
      BY <2>1 DEF Hist!Larger
    <3> QED BY <1>2, <2>1, <3>1
  <2>2. CASE a >= 50
    <3> DEFINE q == a \div 50
    <3>1. q \in Nat /\ q >= 1 /\ a < 100 * q
      BY <2>2
    <3> HIDE DEF q
    <3>2. Hist!Larger(1, q) = q
      BY <3>1 DEF Hist!Larger
    <3>3. b \div q \in Nat /\ b \div q < 100
      BY <1>2, <3>1, DivNat, DivBelow
    <3> QED BY <3>2, <3>3 DEF q
  <2> QED BY <2>1, <2>2
<1>3. CASE interact <= 50 /\ h.run >= h.slp
  BY <1>3 DEF Hist!sched_interact_score, Hist!HALF
<1>4. CASE ~(interact <= 50 /\ h.run >= h.slp) /\ h.run > h.slp
  <2> DEFINE x == h.slp \div Hist!Larger(1, h.run \div 50)
  <2>1. x \in 0 .. 99
    BY <1>1, <1>2, <1>4
  <2>2. Hist!sched_interact_score(h, interact) = 2 * 50 - x
    BY <1>4 DEF Hist!sched_interact_score, Hist!HALF
  <2> HIDE DEF x
  <2> QED BY <2>1, <2>2
<1>5. CASE h.slp > h.run
  <2> DEFINE x == h.run \div Hist!Larger(1, h.slp \div 50)
  <2>1. x \in 0 .. 99
    BY <1>1, <1>2, <1>5
  <2>2. Hist!sched_interact_score(h, interact) = x
    BY <1>1, <1>5 DEF Hist!sched_interact_score, Hist!HALF
  <2> HIDE DEF x
  <2> QED BY <2>1, <2>2
<1>6. CASE ~(interact <= 50 /\ h.run >= h.slp) /\ h.run = h.slp
  BY <1>1, <1>6 DEF Hist!sched_interact_score, Hist!HALF
<1> QED BY <1>1, <1>3, <1>4, <1>5, <1>6

LEMMA PriorityConstants ==
    /\ Hist!PRI_MIN_INTERACT = 120 /\ Hist!PRI_MAX_INTERACT = 151
    /\ Hist!PRI_MIN_BATCH = 152 /\ Hist!PRI_MAX_BATCH = 223
    /\ Hist!SCHED_PRI_MIN = 172 /\ Hist!SCHED_PRI_RANGE = 32
BY DEF Hist!PRI_MIN_INTERACT, Hist!PRI_MAX_INTERACT, Hist!PRI_MIN_BATCH, Hist!PRI_MAX_BATCH,
       Hist!PRI_NHALF, Hist!SCHED_PRI_MIN, Hist!SCHED_PRI_RANGE

\* The 32 interactive priorities are divided among the scores below the limit.
LEMMA InteractiveInRange ==
    ASSUME NEW score \in Nat, NEW interact \in Int, score < interact
    PROVE  120 + (32 \div interact) * score \in 120 .. 151
<1>1. interact \in Nat /\ interact > 0
  OBVIOUS
<1> DEFINE q == 32 \div interact
<1>2. q \in Nat /\ q * interact <= 32
  BY <1>1
<1> HIDE DEF q
<1>3. q * score \in Nat /\ q * score <= q * interact /\ (q > 0 => q * score < q * interact)
  BY <1>1, <1>2
<1>4. q = 0 => q * score = 0
  BY <1>2
<1>5. q * score \in Nat /\ q * score <= 31
  BY <1>2, <1>3, <1>4
<1> QED BY <1>5 DEF q

\* The priority that sched_priority computes passes its assertions, with any
\* nice value and any setting of kern.sched.interact.
THEOREM PriorityIsInRange == SeqSpec => []PriorityInRange
<1>1. HistoryInv => PriorityInRange
  <2> SUFFICES ASSUME HistoryInv, NEW t \in DOMAIN th, NEW nice \in Nice, NEW interact \in Interact
               PROVE  LET pri == Hist!sched_priority(th[t], nice, interact) IN
                      /\ Hist!sched_interact_score(th[t], interact) \in 0 .. 100
                      /\ IF Hist!Score(th[t], nice, interact) < interact
                         THEN pri \in Hist!PRI_MIN_INTERACT .. Hist!PRI_MAX_INTERACT
                         ELSE pri \in Hist!PRI_MIN_BATCH .. Hist!PRI_MAX_BATCH
    BY DEF PriorityInRange, Hist!PriorityInRange
  <2> DEFINE h     == th[t]
             score == Hist!Score(h, nice, interact)
             share == IF h.ticks = 0 THEN 0
                      ELSE Hist!Smaller(Hist!PRI_TICKS(h), Hist!SCHED_PRI_RANGE - 1)
  <2>1. Kept(h) /\ h \in History
    BY DEF HistoryInv, Kept, Shares
  <2>2. nice \in -20 .. 20 /\ interact \in Int
    BY HistoryAssumption
  <2>3. Hist!sched_interact_score(h, interact) \in 0 .. 100
    BY <2>1, ScoreInRange
  <2>4. score \in Nat
    BY <2>2, <2>3 DEF Hist!Score, Hist!Larger
  <2>5. share \in 0 .. 31
    <3> DEFINE total == Hist!Larger(h.span, hz)
               per   == (total + 32 - 1) \div 32
    <3>1. total \in Nat /\ total >= 1
      BY <2>1, Widths DEF Hist!Larger, History
    <3>2. per \in Nat /\ per > 0
      <4> HIDE DEF total
      <4> QED BY <3>1
    <3>3. h.ticks \in Nat /\ h.ticks \div 1024 \in Nat
      BY <2>1 DEF History
    <3>4. (h.ticks \div 1024) \div per \in Nat
      <4> HIDE DEF per
      <4> QED BY <3>2, <3>3, DivNat
    <3>5. Hist!PRI_TICKS(h) = (h.ticks \div 1024) \div per
      BY Widths, PriorityConstants DEF Hist!PRI_TICKS
    <3> HIDE DEF per
    <3> QED BY <3>4, <3>5, PriorityConstants DEF Hist!Smaller
  <2>6. Hist!sched_priority(h, nice, interact) =
            IF score < interact THEN 120 + (32 \div interact) * score ELSE 172 + nice + share
    BY PriorityConstants DEF Hist!sched_priority
  <2> HIDE DEF score, share
  <2>7. score < interact => Hist!sched_priority(h, nice, interact) \in 120 .. 151
    BY <2>2, <2>4, <2>6, InteractiveInRange
  <2>8. ~(score < interact) => Hist!sched_priority(h, nice, interact) \in 152 .. 223
    BY <2>2, <2>5, <2>6
  <2> QED BY <2>3, <2>7, <2>8, PriorityConstants DEF score
<1> QED BY <1>1, SequentialHistory, PTL

-----------------------------------------------------------------------------
(* The log record. *)

\* Bytes the loop has added after k rounds.
Dumped(k) == IF k = 0 THEN 0 ELSE 3 * k + 9 * ((k + 19) \div 20) - 1

\* lcount at each point of the program; HEAD has no loop.
RecordProgress ==
    /\ pc = "bytes" => method # "HEAD" /\ lcount = line + Dumped(i)
    /\ pc = "end" => lcount + 9 = WrittenLen(line, method, original_length)
    /\ pc = "done" => lcount = WrittenLen(line, method, original_length)

RecordInv == TypeOK /\ RecordProgress

\* One more byte costs three characters, and a line start every twenty.
LEMMA DumpedGrows ==
    ASSUME NEW k \in Nat
    PROVE  /\ Dumped(k) \in Nat
           /\ Dumped(k + 1) = Dumped(k) + 3 +
                 (IF k % 20 # 0 THEN 0 ELSE IF k = 0 THEN 8 ELSE 9)
<1> DEFINE q == k \div 20
           r == k % 20
           q1 == (k + 1) \div 20
           r1 == (k + 1) % 20
           p == (k + 19) \div 20
           p1 == (k + 20) \div 20
<1>1. q \in Nat /\ r \in 0 .. 19 /\ k = 20 * q + r
  BY DivTwenty
<1>2. q1 \in Nat /\ r1 \in 0 .. 19 /\ k + 1 = 20 * q1 + r1
  <2>1. k + 1 \in Nat
    OBVIOUS
  <2> QED BY <2>1, DivTwenty
<1>3. p \in Nat /\ p = q + (IF r = 0 THEN 0 ELSE 1)
  BY LinesOf
<1>4. p1 \in Nat /\ p1 = q1 + (IF r1 = 0 THEN 0 ELSE 1)
  <2>1. k + 1 \in Nat /\ (k + 1) + 19 = k + 20
    OBVIOUS
  <2> QED BY <2>1, LinesOf
<1>5. Dumped(k) = IF k = 0 THEN 0 ELSE 3 * k + 9 * p - 1
  BY DEF Dumped
<1>6. Dumped(k + 1) = 3 * (k + 1) + 9 * p1 - 1
  <2>1. (k + 1) + 19 = k + 20 /\ k + 1 # 0
    OBVIOUS
  <2> QED BY <2>1 DEF Dumped
<1> HIDE DEF q, r, q1, r1, p, p1
<1>7. p1 = q + 1
  BY <1>1, <1>2, <1>4
<1>8. Dumped(k) \in Nat
  BY <1>1, <1>3, <1>5
<1>9. Dumped(k + 1) = Dumped(k) + 3 + (IF r # 0 THEN 0 ELSE IF k = 0 THEN 8 ELSE 9)
  BY <1>1, <1>3, <1>5, <1>6, <1>7
<1> QED BY <1>8, <1>9 DEF r

\* The dump is below the reserved extent all the time.
LEMMA DumpedFits ==
    ASSUME NEW n \in Nat, NEW k \in Nat
    PROVE  k + Dumped(n) + 10 <= ReservedLen(k, n)
<1> DEFINE q == n \div 20
           r == n % 20
           p == (n + 19) \div 20
<1>1. q \in Nat /\ r \in 0 .. 19 /\ n = 20 * q + r
  BY DivTwenty
<1>2. p \in Nat /\ p = q + (IF r = 0 THEN 0 ELSE 1)
  BY LinesOf
<1>3. ReservedLen(k, n) = k + q * 69 + r * 3 + 18
  BY DEF ReservedLen
<1>4. Dumped(n) = IF n = 0 THEN 0 ELSE 3 * n + 9 * p - 1
  BY DEF Dumped
<1> HIDE DEF q, r, p
<1> QED BY <1>1, <1>2, <1>3, <1>4

\* The loop starts with the first line in the buffer.
LEMMA RecordInit == Init => RecordInv
BY LengthsAssumption DEF Init, RecordInv, TypeOK, RecordProgress, Dumped, WrittenLen

\* Every snprintf keeps the count of bytes in step.
LEMMA RecordNext == RecordInv /\ [Next]_vars => RecordInv'
<1> SUFFICES ASSUME RecordInv, [Next]_vars PROVE RecordInv'
  OBVIOUS
<1>t. original_length \in Nat /\ line \in Nat /\ i \in Nat /\ lcount \in Nat
  BY LengthsAssumption DEF RecordInv, TypeOK
<1>1. CASE Byte
  <2>1. lcount' = line + Dumped(i) + LineStart + 3
    BY <1>1 DEF Byte, RecordInv, RecordProgress
  <2>2. line + Dumped(i + 1) = line + Dumped(i) + LineStart + 3
    <3>1. Dumped(i) \in Nat /\ Dumped(i + 1) = Dumped(i) + 3 + LineStart
      BY <1>t, DumpedGrows DEF LineStart
    <3>2. LineStart \in Nat
      BY DEF LineStart
    <3> QED BY <1>t, <3>1, <3>2
  <2>3. lcount' \in Nat
    BY <1>t, <1>1 DEF Byte, LineStart
  <2>4. TypeOK'
    BY <1>t, <1>1, <2>3 DEF Byte, RecordInv, TypeOK
  <2> QED BY <1>1, <2>1, <2>2, <2>4 DEF Byte, RecordInv, RecordProgress
<1>2. CASE LastByte
  <2>1. lcount + 10 = WrittenLen(line, method, original_length)
    BY <1>t, <1>2 DEF LastByte, RecordInv, RecordProgress, Dumped, WrittenLen
  <2> QED BY <1>t, <1>2, <2>1 DEF LastByte, RecordInv, TypeOK, RecordProgress, WrittenLen
<1>3. CASE End
  BY <1>t, <1>3 DEF End, RecordInv, TypeOK, RecordProgress, WrittenLen
<1>4. CASE UNCHANGED vars
  BY <1>4 DEF vars, RecordInv, TypeOK, RecordProgress
<1> QED BY <1>1, <1>2, <1>3, <1>4 DEF Next

LEMMA SequentialRecord == SeqSpec => []RecordInv
<1>1. SeqInit => RecordInv
  BY RecordInit DEF SeqInit
<1>2. RecordInv /\ [SeqNext]_seqVars => RecordInv'
  <2>1. Next => [Next]_vars
    OBVIOUS
  <2>2. [SeqNext]_seqVars => Next \/ UNCHANGED vars
    BY DEF SeqNext, InLog, InServers, InShell, InHistory, seqVars, logVars
  <2> QED BY <2>1, <2>2, RecordNext
<1> QED BY <1>1, <1>2, PTL DEF SeqSpec

\* For every file and every first line: the extent that handle_task reserves
\* (totallen) is never smaller than the record it builds, so that the records
\* of two requests do not overlap in the log.
THEOREM RecordFits == SeqSpec => [](FitsReserved /\ WrittenIsWrittenLen)
<1>1. RecordInv => FitsReserved /\ WrittenIsWrittenLen
  <2> SUFFICES ASSUME RecordInv PROVE FitsReserved /\ WrittenIsWrittenLen
    OBVIOUS
  <2>t. /\ original_length \in Nat /\ line \in Nat /\ i \in 0 .. original_length /\ lcount \in Nat
        /\ pc \in {"bytes", "end", "done"}
    BY LengthsAssumption DEF RecordInv, TypeOK
  <2>d. line + Dumped(original_length) + 10 <= ReservedLen(line, original_length)
    BY <2>t, DumpedFits
  <2>n. Dumped(i) \in Nat /\ Dumped(original_length) \in Nat
    BY <2>t, DumpedGrows
  <2>r. ReservedLen(line, original_length) \in Int
    BY <2>t DEF ReservedLen
  <2>1. CASE pc = "bytes"
    <3>1. Dumped(i) <= Dumped(original_length)
      BY <2>t DEF Dumped
    <3>2. lcount = line + Dumped(i)
      BY <2>1 DEF RecordInv, RecordProgress
    <3>3. FitsReserved
      BY <2>t, <2>d, <2>n, <2>r, <3>1, <3>2 DEF FitsReserved
    <3> QED BY <2>1, <3>3 DEF WrittenIsWrittenLen
  <2>2. CASE pc \in {"end", "done"}
    <3>1. WrittenLen(line, method, original_length) =
              line + (IF method = "HEAD" THEN 9 ELSE Dumped(original_length) + 10)
      BY <2>t DEF WrittenLen, Dumped
    <3>2. lcount <= WrittenLen(line, method, original_length)
      BY <2>t, <2>2, <2>n, <3>1 DEF RecordInv, RecordProgress
    <3>3. FitsReserved
      BY <2>t, <2>d, <2>n, <2>r, <3>1, <3>2 DEF FitsReserved
    <3> QED BY <2>2, <3>3 DEF RecordInv, RecordProgress, WrittenIsWrittenLen
  <2> QED BY <2>t, <2>1, <2>2
<1> QED BY <1>1, SequentialRecord, PTL

-----------------------------------------------------------------------------
(* The shell. *)

Thing == {Sh!Closed, Sh!Tty} \cup ({"file", "read", "write"} \X Nat)
Table == [0 .. MaxFd -> Thing]
Extra == 3 .. MaxFd
TokenList(list) == list = [k \in 0 .. Sh!Longest |-> list[k]]
Index == [argc : Nat, ind : Nat, nxt : Nat, cur : Nat]

ShellTypes ==
    /\ at_shell \in {"prompt", "scan", "fork", "wait", "dead"}
    /\ shell_line \in Seq(STRING) /\ Len(shell_line) <= Sh!Longest
    /\ TokenList(args) /\ at \in Index
    /\ flag \in [pIn : BOOLEAN, pOut : BOOLEAN, semi : BOOLEAN, redirErr : BOOLEAN]
    /\ file \in [in : Int, out : Int]
    /\ fdPipe1 \in Nat \X Nat /\ fdPipe2 \in Nat \X Nat
    /\ fd \in Table /\ fd[0] = Sh!Tty /\ fd[1] = Sh!Tty /\ fd[2] = Sh!Tty

\* A descriptor that is one end of the pipe of a "|" that was read.
ReadEnd(n) ==
    n \in Extra /\ \E k \in 0 .. Sh!Longest : args[k] = "NULL" /\ fd[n] = << "read", k >>
FileAt(n) == n \in Extra /\ fd[n][1] = "file"

\* What the variables name is open: files, and the ends to read from.
Named ==
    /\ file.in # -1 => FileAt(file.in)
    /\ file.out # -1 => FileAt(file.out)
    /\ flag.pIn => ReadEnd(fdPipe1[1]) /\ fdPipe1[2] \in Extra
    /\ flag.pOut => ReadEnd(fdPipe2[1]) /\ fdPipe2[2] \in Extra /\ fdPipe2[1] # fdPipe2[2]

\* The only end to write to is that of the command under way, and not of the
\* pipe it reads from.
Writes ==
    \A n \in 0 .. MaxFd : fd[n][1] = "write" =>
        /\ at_shell \in {"fork", "wait"} /\ flag.pOut /\ n = fdPipe2[2]
        /\ flag.pIn => fd[n][2] # fd[fdPipe1[1]][2]

Forked == at_shell = "wait" => child = Sh!ChildOut(Sh!ChildIn)

ShellInv == ShellTypes /\ Named /\ Writes /\ Forked

-----------------------------------------------------------------------------
(* The shell: descriptors. *)

LEMMA LongestIs ==
    Sh!Longest \in Nat /\ \A l \in Lines : l \in Seq(STRING) /\ Len(l) + 2 <= Sh!Longest
<1> DEFINE S == {Len(l) : l \in Lines}
           IsLongest(n) == \A l \in Lines : Len(l) <= n
           top == CHOOSE n \in S : IsLongest(n)
<1>1. \E n \in S : IsLongest(n)
  BY ShellAssumption
<1>2. top \in S /\ IsLongest(top)
  <2> HIDE DEF S, IsLongest
  <2> QED BY <1>1
<1>3. Sh!Longest = 2 + top
  BY DEF Sh!Longest
<1>4. top \in Nat
  BY <1>2, ShellAssumption
<1> HIDE DEF top
<1> QED BY <1>2, <1>3, <1>4, ShellAssumption

LEMMA FreeIs ==
    ASSUME NEW table
    PROVE  /\ Sh!Free(table) \in 0 .. MaxFd + 1
           /\ Sh!Free(table) <= MaxFd => table[Sh!Free(table)] = Sh!Closed
<1> DEFINE S == {n \in 0 .. MaxFd : table[n] = Sh!Closed} \cup {MaxFd + 1}
           least == CHOOSE n \in S : \A m \in S : n <= m
<1>1. \E n \in S : \A m \in S : n <= m
  <2>1. MaxFd + 1 \in Nat /\ S \in SUBSET (0 .. MaxFd + 1) /\ S # {}
    BY ShellAssumption
  <2> HIDE DEF S
  <2> QED BY <2>1, LeastElement
<1>2. least \in S
  <2> HIDE DEF S
  <2> QED BY <1>1
<1>3. Sh!Free(table) = least
  BY DEF Sh!Free
<1> HIDE DEF least
<1> QED BY <1>2, <1>3, ShellAssumption

LEMMA OpenIs ==
    ASSUME NEW table \in Table, NEW x \in Thing, Sh!Free(table) <= MaxFd
    PROVE  /\ Sh!Open(table, x) \in Table
           /\ Sh!Free(table) \in 0 .. MaxFd /\ table[Sh!Free(table)] = Sh!Closed
           /\ Sh!Open(table, x)[Sh!Free(table)] = x
           /\ \A n \in 0 .. MaxFd : table[n] # Sh!Closed => Sh!Open(table, x)[n] = table[n]
           /\ \A n \in 0 .. MaxFd : n # Sh!Free(table) => Sh!Open(table, x)[n] = table[n]
<1>1. Sh!Free(table) \in 0 .. MaxFd /\ table[Sh!Free(table)] = Sh!Closed
  BY FreeIs, ShellAssumption
<1> QED BY <1>1 DEF Sh!Open, Table

LEMMA ShutIs ==
    ASSUME NEW table \in Table, NEW n \in 0 .. MaxFd
    PROVE  /\ Sh!Shut(table, n) \in Table /\ Sh!Shut(table, n)[n] = Sh!Closed
           /\ \A m \in 0 .. MaxFd : m # n => Sh!Shut(table, n)[m] = table[m]
BY DEF Sh!Shut, Table, Thing

LEMMA DupIs ==
    ASSUME NEW table \in Table, NEW low \in 0 .. MaxFd, NEW n \in 0 .. MaxFd
    PROVE  /\ Sh!Dup(table, low, n) \in Table /\ Sh!Dup(table, low, n)[low] = table[n]
           /\ \A m \in 0 .. MaxFd : m # low => Sh!Dup(table, low, n)[m] = table[m]
BY DEF Sh!Dup, Sh!Shut, Table, Thing

\* What a table holds is what the shell has open, or nothing.
Copied(table) ==
    /\ table \in Table
    /\ \A n \in 0 .. MaxFd : table[n] = Sh!Closed \/ \E m \in 0 .. MaxFd : table[n] = fd[m]

LEMMA CopiedKept ==
    ASSUME NEW table, Copied(table), NEW low \in 0 .. MaxFd, NEW n \in 0 .. MaxFd
    PROVE  Copied(Sh!Shut(table, n)) /\ Copied(Sh!Dup(table, low, n))
<1>1. table \in Table
  BY DEF Copied
<1>2. Copied(Sh!Shut(table, n))
  <2> DEFINE shut == Sh!Shut(table, n)
  <2>1. shut \in Table /\ shut[n] = Sh!Closed /\ \A m \in 0 .. MaxFd : m # n => shut[m] = table[m]
    BY <1>1, ShutIs
  <2> HIDE DEF shut
  <2>2. \A m \in 0 .. MaxFd : shut[m] \in {Sh!Closed, table[m]}
    BY ONLY <2>1
  <2> QED BY <2>1, <2>2 DEF Copied, shut
<1> DEFINE dup == Sh!Dup(table, low, n)
<1>3. dup \in Table /\ dup[low] = table[n] /\ \A m \in 0 .. MaxFd : m # low => dup[m] = table[m]
  BY <1>1, DupIs
<1> HIDE DEF dup
<1>4. \A m \in 0 .. MaxFd : dup[m] \in {table[m], table[n]}
  BY <1>3
<1>5. Copied(dup)
  BY <1>3, <1>4 DEF Copied
<1> QED BY <1>2, <1>5 DEF dup

\* The command's input: the terminal, a file, or the pipe of the one before.
LEMMA ChildInIs ==
    ASSUME ShellTypes, Named
    PROVE  /\ Copied(Sh!ChildIn)
           /\ Sh!ChildIn[0][1] = "read" => (flag.pIn /\ Sh!ChildIn[0] = fd[fdPipe1[1]])
<1> DEFINE t == IF file.in # -1 THEN Sh!Dup(fd, 0, file.in) ELSE fd
<1>0. 0 \in 0 .. MaxFd
  BY ShellAssumption
<1>1. fd \in Table /\ Copied(fd) /\ fd[0] = Sh!Tty
  BY DEF ShellTypes, Copied
<1>2. Copied(t) /\ t[0][1] # "read"
  <2>1. CASE file.in # -1
    <3>1. file.in \in 0 .. MaxFd /\ fd[file.in][1] = "file"
      BY <2>1 DEF Named, FileAt, Extra
    <3> QED BY <1>0, <1>1, <2>1, <3>1, CopiedKept, DupIs
  <2>2. CASE file.in = -1
    BY <1>1, <2>2 DEF Sh!Tty
  <2> QED BY <2>1, <2>2
<1> HIDE DEF t
<1>3. CASE file.out = -1 /\ flag.pIn
  <2> DEFINE u == Sh!Dup(t, 0, fdPipe1[1])
             v == Sh!Shut(u, fdPipe1[1])
  <2>1. /\ fdPipe1[1] \in 0 .. MaxFd /\ fdPipe1[1] # 0
        /\ fdPipe1[2] \in 0 .. MaxFd /\ fdPipe1[2] # 0
    BY <1>3 DEF Named, ReadEnd, Extra
  <2>2. t[fdPipe1[1]] = fd[fdPipe1[1]]
    <3>1. CASE file.in # -1
      <4>1. file.in \in 0 .. MaxFd
        BY <3>1 DEF Named, FileAt, Extra
      <4>2. t = Sh!Dup(fd, 0, file.in)
        BY <3>1 DEF t
      <4>3. \A m \in 0 .. MaxFd : m # 0 => Sh!Dup(fd, 0, file.in)[m] = fd[m]
        BY <1>0, <1>1, <4>1, DupIs
      <4> QED BY ONLY <2>1, <4>2, <4>3
    <3>2. CASE file.in = -1
      BY <3>2 DEF t
    <3> QED BY <3>1, <3>2
  <2>t. t \in Table
    BY <1>2 DEF Copied
  <2>3. Copied(u) /\ u \in Table /\ u[0] = fd[fdPipe1[1]]
    BY ONLY <1>0, <1>2, <2>t, <2>1, <2>2, CopiedKept, DupIs, ZenonT(60)
  <2> HIDE DEF u
  <2>4. Copied(v) /\ v \in Table /\ v[0] = u[0]
    BY ONLY <1>0, <2>1, <2>3, CopiedKept, ShutIs
  <2>5. Sh!ChildIn = Sh!Shut(v, fdPipe1[2])
    BY <1>3 DEF Sh!ChildIn, t, u
  <2> HIDE DEF v
  <2>6. Copied(Sh!ChildIn) /\ Sh!ChildIn[0] = v[0]
    BY <1>0, <2>1, <2>4, <2>5, CopiedKept, ShutIs
  <2> QED BY <1>3, <2>3, <2>4, <2>6
<1>4. CASE ~(file.out = -1 /\ flag.pIn)
  <2>1. Sh!ChildIn = t
    BY <1>4 DEF Sh!ChildIn, t
  <2> QED BY <1>2, <2>1
<1> QED BY <1>3, <1>4

LEMMA ChildOutIs ==
    ASSUME ShellTypes, Named, NEW t, Copied(t)
    PROVE  Copied(Sh!ChildOut(t)) /\ Sh!ChildOut(t)[0] = t[0]
<1>0. 0 \in 0 .. MaxFd /\ 1 \in 1 .. MaxFd /\ 2 \in 1 .. MaxFd /\ t \in Table
  BY ShellAssumption DEF Copied
<1> DEFINE KeepsInput(u) == Copied(u) /\ u \in Table /\ u[0] = t[0]
<1>1. \A u : \A low, n \in 1 .. MaxFd :
        KeepsInput(u) => KeepsInput(Sh!Dup(u, low, n)) /\ KeepsInput(Sh!Shut(u, n))
  <2> SUFFICES ASSUME NEW u, NEW low \in 1 .. MaxFd, NEW n \in 1 .. MaxFd, KeepsInput(u)
               PROVE  KeepsInput(Sh!Dup(u, low, n)) /\ KeepsInput(Sh!Shut(u, n))
    OBVIOUS
  <2>1. low \in 0 .. MaxFd /\ n \in 0 .. MaxFd /\ low # 0 /\ n # 0
    OBVIOUS
  <2>2. KeepsInput(Sh!Dup(u, low, n))
    BY <1>0, <2>1, CopiedKept, DupIs
  <2>3. KeepsInput(Sh!Shut(u, n))
    BY <1>0, <2>1, CopiedKept, ShutIs
  <2> QED BY <2>2, <2>3
<1>2. KeepsInput(t)
  BY <1>0
<1>3. CASE file.out # -1
  <2>1. file.out \in 1 .. MaxFd
    BY <1>3 DEF Named, FileAt, Extra
  <2> HIDE DEF KeepsInput
  <2>2. KeepsInput(Sh!ChildOut(t))
    BY <1>0, <1>1, <1>2, <1>3, <2>1 DEF Sh!ChildOut
  <2> QED BY <2>2 DEF KeepsInput
<1>4. CASE file.out = -1 /\ flag.pOut
  <2>1. fdPipe2[1] \in 1 .. MaxFd /\ fdPipe2[2] \in 1 .. MaxFd
    BY <1>4 DEF Named, ReadEnd, Extra
  <2> HIDE DEF KeepsInput
  <2>2. KeepsInput(Sh!ChildOut(t))
    BY <1>0, <1>1, <1>2, <1>4, <2>1 DEF Sh!ChildOut
  <2> QED BY <2>2 DEF KeepsInput
<1>5. CASE file.out = -1 /\ ~flag.pOut
  BY <1>2, <1>5 DEF Sh!ChildOut
<1> QED BY <1>3, <1>4, <1>5

-----------------------------------------------------------------------------
(* The shell: every step keeps the invariant. *)

LEMMA ShellInit == Sh!Init => ShellInv
<1> SUFFICES ASSUME Sh!Init PROVE ShellInv
  OBVIOUS
<1>1. fd \in Table /\ fd[0] = Sh!Tty /\ fd[1] = Sh!Tty /\ fd[2] = Sh!Tty
  BY ShellAssumption DEF Sh!Init, Table, Thing
<1>2. /\ shell_line \in Seq(STRING) /\ Len(shell_line) <= Sh!Longest
      /\ TokenList(args)
  BY LongestIs DEF Sh!Init, TokenList
<1>3. /\ at \in Index /\ file \in [in : Int, out : Int]
      /\ flag \in [pIn : BOOLEAN, pOut : BOOLEAN, semi : BOOLEAN, redirErr : BOOLEAN]
      /\ file.in = -1 /\ file.out = -1 /\ ~flag.pIn /\ ~flag.pOut
  BY DEF Sh!Init, Sh!Place, Sh!NoFile, Sh!Flags, Index
<1>4. fdPipe1 \in Nat \X Nat /\ fdPipe2 \in Nat \X Nat /\ at_shell = "prompt"
  BY DEF Sh!Init
<1>5. \A n \in 0 .. MaxFd : fd[n][1] # "write"
  BY DEF Sh!Init, Sh!Closed, Sh!Tty
<1> QED BY <1>1, <1>2, <1>3, <1>4, <1>5 DEF ShellInv, ShellTypes, Named, Writes, Forked

LEMMA ShellStutter == ShellInv /\ UNCHANGED shVars => ShellInv'
<1> SUFFICES ASSUME ShellInv, UNCHANGED shVars PROVE ShellInv'
  OBVIOUS
<1>1. (Sh!ChildOut(Sh!ChildIn))' = Sh!ChildOut(Sh!ChildIn)
  BY DEF shVars, Sh!ChildOut, Sh!ChildIn
<1>2. ShellTypes' /\ Named' /\ Writes'
  BY DEF shVars, ShellInv, ShellTypes, Named, Writes, ReadEnd, FileAt
<1> QED BY <1>1, <1>2 DEF shVars, ShellInv, Forked

\* Where no descriptor that is open changes, nor what was read of the line,
\* what is named stays.
LEMMA NamesKept ==
    ASSUME NEW n \in Nat,
           \A m \in 0 .. MaxFd : fd[m] # Sh!Closed => fd'[m] = fd[m],
           \A k \in 0 .. Sh!Longest : args[k] = "NULL" => args'[k] = "NULL"
    PROVE  /\ ReadEnd(n) => ReadEnd(n)' /\ fd'[n] = fd[n]
           /\ FileAt(n) => FileAt(n)'
<1>1. ASSUME ReadEnd(n) PROVE ReadEnd(n)' /\ fd'[n] = fd[n]
  <2>1. n \in 0 .. MaxFd
    BY <1>1 DEF ReadEnd, Extra
  <2>2. fd[n] # Sh!Closed
    BY <1>1 DEF ReadEnd, Sh!Closed
  <2> QED BY <1>1, <2>1, <2>2 DEF ReadEnd, Extra
<1>2. ASSUME FileAt(n) PROVE FileAt(n)'
  BY <1>2 DEF FileAt, Extra, Sh!Closed
<1> QED BY <1>1, <1>2

\* Places and tokens of the line, as the steps change them.
LEMMA IndexKept ==
    ASSUME NEW a \in Index
    PROVE  /\ [a EXCEPT !.argc = @ + 1, !.ind = @ + 1] \in Index
           /\ [a EXCEPT !.argc = @ + 1, !.ind = @ + 2] \in Index
           /\ [a EXCEPT !.nxt = a.argc + 1, !.ind = @ + 1] \in Index
<1>1. a.argc \in Nat /\ a.ind \in Nat
  BY DEF Index
<1>2. \A m, n \in Nat : [a EXCEPT !.argc = m, !.ind = n] \in Index
  <2> TAKE m, n \in Nat
  <2> DEFINE b == [a EXCEPT !.argc = m]
  <2>1. b \in Index
    BY DEF Index
  <2>2. [a EXCEPT !.argc = m, !.ind = n] = [b EXCEPT !.ind = n]
    OBVIOUS
  <2> HIDE DEF b
  <2>3. [b EXCEPT !.ind = n] \in Index
    BY <2>1 DEF Index
  <2> QED BY <2>2, <2>3
<1>3. \A m, n \in Nat : [a EXCEPT !.nxt = m, !.ind = n] \in Index
  <2> TAKE m, n \in Nat
  <2> DEFINE b == [a EXCEPT !.nxt = m]
  <2>1. b \in Index
    BY DEF Index
  <2>2. [a EXCEPT !.nxt = m, !.ind = n] = [b EXCEPT !.ind = n]
    OBVIOUS
  <2> HIDE DEF b
  <2>3. [b EXCEPT !.ind = n] \in Index
    BY <2>1 DEF Index
  <2> QED BY <2>2, <2>3
<1>4. a.argc + 1 \in Nat /\ a.ind + 1 \in Nat /\ a.ind + 2 \in Nat
  BY <1>1
<1>5. [a EXCEPT !.argc = a.argc + 1, !.ind = a.ind + 1] \in Index
  BY ONLY <1>2, <1>4
<1>6. [a EXCEPT !.argc = a.argc + 1, !.ind = a.ind + 2] \in Index
  BY ONLY <1>2, <1>4
<1>7. [a EXCEPT !.nxt = a.argc + 1, !.ind = a.ind + 1] \in Index
  BY ONLY <1>3, <1>4
<1> QED BY ONLY <1>5, <1>6, <1>7

LEMMA Nulled ==
    ASSUME NEW list, TokenList(list), NEW k
    PROVE  /\ TokenList([list EXCEPT ![k] = "NULL"])
           /\ \A j \in 0 .. Sh!Longest : list[j] = "NULL" => [list EXCEPT ![k] = "NULL"][j] = "NULL"
           /\ k \in 0 .. Sh!Longest => [list EXCEPT ![k] = "NULL"][k] = "NULL"
BY DEF TokenList

\* A new line forgets the one before.
LEMMA ReadLineStep == ShellInv /\ Sh!ReadLine => ShellInv'
<1> SUFFICES ASSUME ShellInv, Sh!ReadLine PROVE ShellInv'
  OBVIOUS
<1> USE DEF ShellInv
<1>1. PICK l \in Lines :
        /\ shell_line' = l
        /\ args' = [k \in DOMAIN args |->
                      IF k < Len(l) THEN l[k + 1] ELSE IF k = Len(l) THEN "NULL" ELSE args[k]]
  BY DEF Sh!ReadLine, Sh!NULL
<1>2. l \in Seq(STRING) /\ Len(l) <= Sh!Longest /\ Len(l) \in Nat /\ Sh!Longest \in Nat
  BY LongestIs
<1>3. TokenList(args')
  <2>1. TokenList(args)
    BY DEF ShellTypes
  <2> QED BY <1>1, <2>1 DEF TokenList
<1>4. /\ at' \in Index /\ file' \in [in : Int, out : Int]
      /\ flag' \in [pIn : BOOLEAN, pOut : BOOLEAN, semi : BOOLEAN, redirErr : BOOLEAN]
      /\ file'.in = -1 /\ file'.out = -1 /\ ~flag'.pIn /\ ~flag'.pOut
  BY DEF Sh!ReadLine, Sh!Place, Sh!NoFile, Sh!Flags, Index
<1>5. /\ at_shell = "prompt" /\ at_shell' \in {"dead", "scan"}
      /\ UNCHANGED << fdPipe1, fdPipe2, fd >>
  BY DEF Sh!ReadLine, Sh!Goto
<1>6. ShellTypes'
  BY <1>1, <1>2, <1>3, <1>4, <1>5 DEF ShellTypes
<1>7. Named' /\ Forked'
  BY <1>4, <1>5 DEF Named, Forked
<1>8. Writes'
  BY <1>5 DEF Writes
<1> QED BY <1>6, <1>7, <1>8

\* Steps of the scan that open nothing and do not start a command.
LEMMA QuietSteps ==
    ShellInv /\ (Sh!Word \/ Sh!Semicolon \/ Sh!EndOfLine \/ Sh!Die) => ShellInv'
<1> SUFFICES ASSUME ShellInv, Sh!Word \/ Sh!Semicolon \/ Sh!EndOfLine \/ Sh!Die PROVE ShellInv'
  OBVIOUS
<1> USE DEF ShellInv
<1>1. /\ at_shell = "scan" /\ at_shell' \in {"scan", "fork", "dead"}
      /\ UNCHANGED << shell_line, file, fdPipe1, fdPipe2, fd >>
  BY DEF Sh!Word, Sh!Semicolon, Sh!EndOfLine, Sh!Die, Sh!Scanning, Sh!Goto, Sh!reading, Sh!state
<1>2. at' \in Index
  <2>1. at \in Index
    BY DEF ShellTypes
  <2>2. \/ at' = at
        \/ at' = [at EXCEPT !.argc = @ + 1, !.ind = @ + 1]
        \/ at' = [at EXCEPT !.nxt = at.argc + 1, !.ind = @ + 1]
    BY DEF Sh!Word, Sh!Semicolon, Sh!EndOfLine, Sh!Die, Sh!Further, Sh!state
  <2> QED BY <2>1, <2>2, IndexKept
<1>3. /\ flag' \in [pIn : BOOLEAN, pOut : BOOLEAN, semi : BOOLEAN, redirErr : BOOLEAN]
      /\ flag'.pIn = flag.pIn /\ flag'.pOut = flag.pOut
  <2>1. flag \in [pIn : BOOLEAN, pOut : BOOLEAN, semi : BOOLEAN, redirErr : BOOLEAN]
    BY DEF ShellTypes
  <2>2. flag' = flag \/ flag' = [flag EXCEPT !.semi = TRUE]
    BY DEF Sh!Word, Sh!Semicolon, Sh!EndOfLine, Sh!Die, Sh!state
  <2> QED BY <2>1, <2>2
<1>4. TokenList(args') /\ \A k \in 0 .. Sh!Longest : args[k] = "NULL" => args'[k] = "NULL"
  <2>1. TokenList(args)
    BY DEF ShellTypes
  <2>2. args' = args \/ args' = [args EXCEPT ![at.argc] = "NULL"]
    BY DEF Sh!Word, Sh!Semicolon, Sh!EndOfLine, Sh!Die, Sh!reading, Sh!NULL
  <2> QED BY <2>1, <2>2, Nulled
<1>5. ShellTypes'
  BY <1>1, <1>2, <1>3, <1>4 DEF ShellTypes
<1>6. Named'
  BY <1>1, <1>3, <1>4 DEF Named, ReadEnd, FileAt
<1>7. Writes' /\ Forked'
  BY <1>1 DEF Writes, Forked
<1> QED BY <1>5, <1>6, <1>7

\* A file takes a descriptor that was not open.
LEMMA RedirectStep == ShellInv /\ Sh!Redirect => ShellInv'
<1> SUFFICES ASSUME ShellInv, Sh!Redirect PROVE ShellInv'
  OBVIOUS
<1> USE DEF ShellInv
<1> DEFINE x == << "file", at.argc + 1 >>
<1>n. PICK n : n = Sh!Free(fd)
  OBVIOUS
<1>t. ShellTypes
  OBVIOUS
<1>0. at.argc \in Nat /\ fd \in Table
  BY DEF ShellTypes, Index
<1>1. x \in Thing
  BY <1>0 DEF Thing
<1>2. /\ fd' = Sh!Open(fd, x) /\ n <= MaxFd
      /\ at_shell = "scan" /\ at_shell' \in {"scan", "fork"}
      /\ UNCHANGED << shell_line, fdPipe1, fdPipe2 >>
      /\ args' = [args EXCEPT ![at.argc] = "NULL"]
      /\ file' = [file EXCEPT !.in = n] \/ file' = [file EXCEPT !.out = n]
      /\ at' = [at EXCEPT !.argc = @ + 1, !.ind = @ + 2]
  BY <1>n DEF Sh!Redirect, Sh!Scanning, Sh!Goto, Sh!Further, Sh!NULL
<1>3. /\ fd' \in Table /\ n \in 0 .. MaxFd /\ fd[n] = Sh!Closed /\ fd'[n] = x
      /\ \A m \in 0 .. MaxFd : fd[m] # Sh!Closed => fd'[m] = fd[m]
      /\ \A m \in 0 .. MaxFd : m # n => fd'[m] = fd[m]
  BY <1>n, <1>0, <1>1, <1>2, OpenIs
<1>4. n \in Extra /\ fd'[0] = Sh!Tty /\ fd'[1] = Sh!Tty /\ fd'[2] = Sh!Tty
  <2>1. fd[0] = Sh!Tty /\ fd[1] = Sh!Tty /\ fd[2] = Sh!Tty /\ Sh!Tty # Sh!Closed
    BY DEF ShellTypes, Sh!Tty, Sh!Closed
  <2>2. {0, 1, 2} \subseteq 0 .. MaxFd
    BY ShellAssumption
  <2> QED BY <1>3, <2>1, <2>2 DEF Extra
<1>5. /\ flag' \in [pIn : BOOLEAN, pOut : BOOLEAN, semi : BOOLEAN, redirErr : BOOLEAN]
      /\ flag'.pIn = flag.pIn /\ flag'.pOut = flag.pOut
  <2>1. flag \in [pIn : BOOLEAN, pOut : BOOLEAN, semi : BOOLEAN, redirErr : BOOLEAN]
    BY DEF ShellTypes
  <2> DEFINE both == (flag.redirErr \/ Sh!Token = ">&")
  <2>2. flag' = [flag EXCEPT !.redirErr = both] /\ both \in BOOLEAN
    BY DEF Sh!Redirect
  <2> QED BY <2>1, <2>2
<1>6. TokenList(args') /\ \A k \in 0 .. Sh!Longest : args[k] = "NULL" => args'[k] = "NULL"
  <2>1. TokenList(args)
    BY DEF ShellTypes
  <2>2. args' = [args EXCEPT ![at.argc] = "NULL"]
    BY <1>2
  <2> QED BY ONLY <2>1, <2>2, Nulled, ZenonT(60)
<1>7. /\ file' \in [in : Int, out : Int] /\ file'.in \in {file.in, n} /\ file'.out \in {file.out, n}
      /\ at' \in Index
  <2>1. file \in [in : Int, out : Int] /\ at \in Index /\ n \in Int
    BY <1>3 DEF ShellTypes
  <2>2. at' \in Index
    BY <1>2, <2>1, IndexKept
  <2>3. CASE file' = [file EXCEPT !.in = n]
    BY <2>1, <2>2, <2>3
  <2>4. CASE file' = [file EXCEPT !.out = n]
    BY <2>1, <2>2, <2>4
  <2> QED BY <1>2, <2>3, <2>4
<1>8. ShellTypes'
  BY <1>t, <1>2, <1>3, <1>4, <1>5, <1>6, <1>7 DEF ShellTypes
<1>9. Named'
  <2>1. \A m \in Nat : (ReadEnd(m) => ReadEnd(m)' /\ fd'[m] = fd[m]) /\ (FileAt(m) => FileAt(m)')
    BY <1>3, <1>6, NamesKept
  <2>2. FileAt(n)'
    BY <1>3, <1>4 DEF FileAt, Extra
  <2>3. fdPipe1[1] \in Nat /\ fdPipe2[1] \in Nat
    BY DEF ShellTypes
  <2>4. \A m : FileAt(m) => m \in Nat
    BY DEF FileAt, Extra
  <2> QED BY <1>2, <1>5, <1>7, <2>1, <2>2, <2>3, <2>4 DEF Named
<1>10. Writes'
  <2>1. \A m \in 0 .. MaxFd : fd'[m][1] # "write"
    BY <1>2, <1>3 DEF Writes
  <2> QED BY <2>1 DEF Writes
<1>11. Forked'
  BY <1>2 DEF Forked
<1> QED BY <1>8, <1>9, <1>10, <1>11

\* A pipe takes two descriptors that were not open.  The line has a "|" where
\* it has been read up to now, and none where an earlier pipe was.
LEMMA PipeStep == ShellInv /\ Sh!Pipe => ShellInv'
<1> SUFFICES ASSUME ShellInv, Sh!Pipe PROVE ShellInv'
  OBVIOUS
<1> USE DEF ShellInv
<1> DEFINE here == at.argc
<1>n. PICK r, w, once : /\ r = Sh!Free(fd) /\ once = Sh!Open(fd, << "read", here >>)
                        /\ w = Sh!Free(once)
  OBVIOUS
<1>t. ShellTypes
  OBVIOUS
<1>0. /\ here \in Nat /\ fd \in Table /\ Len(shell_line) \in Nat /\ Sh!Longest \in Nat
      /\ Len(shell_line) <= Sh!Longest
  BY LongestIs DEF ShellTypes, Index
<1>1. /\ r < MaxFd /\ w <= MaxFd /\ fd' = Sh!Open(once, << "write", here >>)
      /\ at_shell = "scan" /\ at_shell' = "fork" /\ here < Len(shell_line) /\ args[here] = "|"
      /\ fdPipe2' = << r, w >> /\ flag' = [flag EXCEPT !.pOut = TRUE]
      /\ args' = [args EXCEPT ![here] = "NULL"]
      /\ at' = [at EXCEPT !.nxt = at.argc + 1, !.ind = @ + 1]
      /\ UNCHANGED << shell_line, file, fdPipe1 >>
  BY <1>n DEF Sh!Pipe, Sh!Scanning, Sh!Goto, Sh!NULL, Sh!Token
<1>2. << "read", here >> \in Thing /\ << "write", here >> \in Thing
  BY <1>0 DEF Thing
<1>3. /\ once \in Table /\ r \in 0 .. MaxFd /\ fd[r] = Sh!Closed /\ once[r] = << "read", here >>
      /\ \A m \in 0 .. MaxFd : fd[m] # Sh!Closed => once[m] = fd[m]
      /\ \A m \in 0 .. MaxFd : m # r => once[m] = fd[m]
  <2>1. Sh!Free(fd) <= MaxFd
    BY <1>n, <1>1, FreeIs, ShellAssumption
  <2> QED BY <1>n, <1>0, <1>2, <2>1, OpenIs
<1>4. /\ fd' \in Table /\ w \in 0 .. MaxFd /\ once[w] = Sh!Closed /\ fd'[w] = << "write", here >>
      /\ \A m \in 0 .. MaxFd : once[m] # Sh!Closed => fd'[m] = once[m]
      /\ \A m \in 0 .. MaxFd : m # w => fd'[m] = once[m]
  BY <1>n, <1>1, <1>2, <1>3, OpenIs
<1>5. r # w /\ fd'[r] = << "read", here >>
  BY <1>3, <1>4 DEF Sh!Closed
<1>6. /\ \A m \in 0 .. MaxFd : fd[m] # Sh!Closed => fd'[m] = fd[m]
      /\ \A m \in 0 .. MaxFd : m \notin {r, w} => fd'[m] = fd[m]
  BY <1>3, <1>4
<1>7. /\ r \in Extra /\ w \in Extra
      /\ fd'[0] = Sh!Tty /\ fd'[1] = Sh!Tty /\ fd'[2] = Sh!Tty
  <2>1. fd[0] = Sh!Tty /\ fd[1] = Sh!Tty /\ fd[2] = Sh!Tty /\ Sh!Tty # Sh!Closed
    BY DEF ShellTypes, Sh!Tty, Sh!Closed
  <2>2. {0, 1, 2} \subseteq 0 .. MaxFd
    BY ShellAssumption
  <2>3. fd'[0] = Sh!Tty /\ fd'[1] = Sh!Tty /\ fd'[2] = Sh!Tty
    BY <1>6, <2>1, <2>2
  <2>4. fd'[r][1] # "terminal" /\ fd'[w][1] # "terminal"
    BY <1>4, <1>5
  <2> QED BY <1>3, <1>4, <2>3, <2>4 DEF Extra, Sh!Tty
<1>8. /\ flag' \in [pIn : BOOLEAN, pOut : BOOLEAN, semi : BOOLEAN, redirErr : BOOLEAN]
      /\ flag'.pIn = flag.pIn /\ flag'.pOut
  BY <1>1 DEF ShellTypes
<1>9. /\ TokenList(args')
      /\ \A k \in 0 .. Sh!Longest : args[k] = "NULL" => args'[k] = "NULL"
      /\ here \in 0 .. Sh!Longest /\ args'[here] = "NULL"
  <2>1. TokenList(args) /\ here \in 0 .. Sh!Longest
    BY <1>0, <1>1 DEF ShellTypes
  <2> QED BY <1>1, <2>1, Nulled, ZenonT(60)
<1>10. ShellTypes'
  <2>1. at' \in Index
    BY <1>1, IndexKept DEF ShellTypes
  <2>2. fdPipe2' \in Nat \X Nat
    BY <1>1, <1>3, <1>4
  <2> QED BY <1>t, <1>1, <1>4, <1>7, <1>8, <1>9, <2>1, <2>2 DEF ShellTypes
<1>11. \A m \in Nat : (ReadEnd(m) => ReadEnd(m)' /\ fd'[m] = fd[m]) /\ (FileAt(m) => FileAt(m)')
  BY <1>6, <1>9, NamesKept
<1>12. Named'
  <2>1. ReadEnd(r)'
    BY <1>5, <1>7, <1>9 DEF ReadEnd, Extra
  <2>2. fdPipe1[1] \in Nat
    BY DEF ShellTypes
  <2>3. \A m : FileAt(m) => m \in Nat
    BY DEF FileAt, Extra
  <2>4. fdPipe2'[1] = r /\ fdPipe2'[2] = w
    BY <1>1
  <2>5. ReadEnd(fdPipe2[1])'
    BY <2>1, <2>4 DEF ReadEnd
  <2> QED BY <1>1, <1>5, <1>7, <1>8, <1>11, <2>2, <2>3, <2>4, <2>5 DEF Named, Extra
<1>13. Writes'
  <2>1. \A m \in 0 .. MaxFd : fd'[m][1] = "write" => m = w
    <3>1. \A m \in 0 .. MaxFd : fd[m][1] # "write"
      BY <1>1 DEF Writes
    <3> QED BY <1>5, <1>6, <3>1
  <2>2. ASSUME flag.pIn PROVE fd'[fdPipe1[1]][2] # here
    <3>1. ReadEnd(fdPipe1[1]) /\ fdPipe1[1] \in Nat
      BY <2>2 DEF Named, ShellTypes
    <3>2. fd'[fdPipe1[1]] = fd[fdPipe1[1]]
      BY <1>11, <3>1
    <3>3. PICK k \in 0 .. Sh!Longest : args[k] = "NULL" /\ fd[fdPipe1[1]] = << "read", k >>
      BY <3>1 DEF ReadEnd
    <3>4. k # here
      BY <1>1, <3>3
    <3> QED BY <3>2, <3>3, <3>4
  <2>3. fdPipe2'[2] = w /\ fdPipe1' = fdPipe1 /\ fd'[w][2] = here
    BY <1>1, <1>4
  <2> QED BY <1>1, <1>8, <2>1, <2>2, <2>3 DEF Writes
<1>14. Forked'
  BY <1>1 DEF Forked
<1> QED BY <1>10, <1>12, <1>13, <1>14

LEMMA ForkStep2 == ShellInv /\ Sh!Fork => ShellInv'
<1> SUFFICES ASSUME ShellInv, Sh!Fork PROVE ShellInv'
  OBVIOUS
<1> USE DEF ShellInv
<1>1. /\ at_shell = "fork" /\ at_shell' = "wait" /\ child' = Sh!ChildOut(Sh!ChildIn)
      /\ UNCHANGED << shell_line, args, at, flag, file, fdPipe1, fdPipe2, fd >>
  BY DEF Sh!Fork, Sh!Goto, Sh!reading, Sh!state
<1>2. ShellTypes' /\ Named'
  BY <1>1 DEF ShellTypes, Named, ReadEnd, FileAt
<1>3. Writes'
  BY <1>1 DEF Writes
<1>4. Forked'
  BY <1>1 DEF Forked, Sh!ChildOut, Sh!ChildIn
<1> QED BY <1>2, <1>3, <1>4

\* The shell gives up the end that the command wrote to, and what is left of
\* that pipe is what the next command reads.
LEMMA WaitStep == ShellInv /\ Sh!Wait => ShellInv'
<1> SUFFICES ASSUME ShellInv, Sh!Wait PROVE ShellInv'
  OBVIOUS
<1> USE DEF ShellInv
<1>t. ShellTypes
  OBVIOUS
<1>1. /\ at_shell = "wait" /\ at_shell' \in {"prompt", "scan"} /\ file' = Sh!NoFile
      /\ UNCHANGED << shell_line, args, fdPipe2 >>
  BY DEF Sh!Wait, Sh!Goto, Sh!reading
<1>2. /\ flag' \in [pIn : BOOLEAN, pOut : BOOLEAN, semi : BOOLEAN, redirErr : BOOLEAN]
      /\ flag'.pIn = (flag.pIn \/ flag.pOut) /\ flag'.pOut = flag.pOut
  <2>1. flag \in [pIn : BOOLEAN, pOut : BOOLEAN, semi : BOOLEAN, redirErr : BOOLEAN]
    BY DEF ShellTypes
  <2>2. CASE flag.pOut
    <3>1. flag' = [flag EXCEPT !.pIn = TRUE, !.redirErr = FALSE]
      BY <2>2 DEF Sh!Wait
    <3> QED BY <2>1, <2>2, <3>1
  <2>3. CASE ~flag.pOut
    <3>1. flag' = [flag EXCEPT !.redirErr = FALSE]
      BY <2>3 DEF Sh!Wait
    <3> QED BY <2>1, <2>3, <3>1
  <2> QED BY <2>2, <2>3
<1>3. at' \in Index
  <2> DEFINE cur == IF flag.pOut \/ flag.semi THEN at.nxt ELSE at.cur
  <2>1. at \in Index /\ at.nxt \in Nat /\ cur \in Nat
    BY DEF ShellTypes, Index
  <2>2. at' = [at EXCEPT !.argc = at.nxt, !.cur = cur]
    BY DEF Sh!Wait
  <2> HIDE DEF cur
  <2> DEFINE a == [at EXCEPT !.argc = at.nxt]
  <2>3. a \in Index
    BY <2>1 DEF Index
  <2>4. at' = [a EXCEPT !.cur = cur]
    BY <2>2
  <2> HIDE DEF a
  <2> QED BY <2>1, <2>3, <2>4 DEF Index
<1>4. file' \in [in : Int, out : Int] /\ file'.in = -1 /\ file'.out = -1
  BY <1>1 DEF Sh!NoFile
<1>5. Forked'
  BY <1>1 DEF Forked
<1>6. CASE flag.pOut
  <2>1. /\ fd' = Sh!Shut(fd, fdPipe2[2]) /\ fdPipe1' = fdPipe2
    BY <1>6 DEF Sh!Wait
  <2>2. /\ ReadEnd(fdPipe2[1]) /\ fdPipe2[1] \in 3 .. MaxFd
        /\ fdPipe2[2] \in 3 .. MaxFd /\ fdPipe2[1] # fdPipe2[2]
    BY <1>6 DEF Named, ReadEnd, Extra
  <2>3. /\ fd' \in Table /\ fd'[fdPipe2[2]] = Sh!Closed
        /\ \A m \in 0 .. MaxFd : m # fdPipe2[2] => fd'[m] = fd[m]
    <3>1. fd \in Table
      BY DEF ShellTypes
    <3>2. fdPipe2[2] \in 0 .. MaxFd
      BY <2>2
    <3> QED BY <2>1, <3>1, <3>2, ShutIs, Zenon
  <2>4. ShellTypes'
    <3>1. fd'[0] = fd[0] /\ fd'[1] = fd[1] /\ fd'[2] = fd[2]
      BY <2>2, <2>3, ShellAssumption
    <3> QED BY <1>t, <1>1, <1>2, <1>3, <1>4, <2>1, <2>3, <3>1 DEF ShellTypes
  <2>5. Named'
    <3>1. fd'[fdPipe2[1]] = fd[fdPipe2[1]]
      BY <2>2, <2>3
    <3>2. ReadEnd(fdPipe2[1])' /\ ReadEnd(fdPipe1[1])'
      BY <1>1, <2>1, <2>2, <3>1 DEF ReadEnd
    <3> QED BY <1>1, <1>4, <2>1, <2>2, <3>2 DEF Named, Extra
  <2>6. \A m \in 0 .. MaxFd : fd'[m][1] # "write"
    <3> TAKE m \in 0 .. MaxFd
    <3>1. CASE m = fdPipe2[2]
      BY <2>3, <3>1 DEF Sh!Closed
    <3>2. CASE m # fdPipe2[2]
      BY <2>3, <3>2 DEF Writes
    <3> QED BY <3>1, <3>2
  <2> QED BY <1>5, <2>4, <2>5, <2>6 DEF Writes
<1>7. CASE ~flag.pOut
  <2>1. fd' = fd /\ fdPipe1' = fdPipe1
    BY <1>7 DEF Sh!Wait
  <2>2. ShellTypes'
    BY <1>t, <1>1, <1>2, <1>3, <1>4, <2>1 DEF ShellTypes
  <2>3. Named'
    BY <1>1, <1>2, <1>4, <1>7, <2>1 DEF Named, ReadEnd
  <2>4. \A m \in 0 .. MaxFd : fd'[m][1] # "write"
    BY <1>7, <2>1 DEF Writes
  <2> QED BY <1>5, <2>2, <2>3, <2>4 DEF Writes
<1> QED BY <1>6, <1>7

LEMMA ShellNext == ShellInv /\ Sh!Next => ShellInv'
BY ReadLineStep, QuietSteps, RedirectStep, PipeStep, ForkStep2, WaitStep DEF Sh!Next

LEMMA SequentialShell == SeqSpec => []ShellInv
<1>1. SeqInit => ShellInv
  BY ShellInit DEF SeqInit
<1>2. ShellInv /\ [SeqNext]_seqVars => ShellInv'
  BY ShellNext, ShellStutter DEF SeqNext, InLog, InServers, InShell, InHistory, seqVars
<1> QED BY <1>1, <1>2, PTL DEF SeqSpec

\* Whatever lines came before and whatever is redirected: when the shell waits
\* for a command that reads from a pipe, the end to write to is open nowhere,
\* neither in the shell nor in the command, so that the input ends.
THEOREM PipesComeToAnEnd == SeqSpec => []EndOfInputComes
<1>1. ShellInv => EndOfInputComes
  <2> SUFFICES ASSUME ShellInv, at_shell = "wait", child[0][1] = "read", NEW n \in 0 .. MaxFd
               PROVE  << "write", child[0][2] >> \notin {fd[n], child[n]}
    BY DEF EndOfInputComes, Sh!EndOfInputComes
  <2>1. ShellTypes /\ Named /\ child = Sh!ChildOut(Sh!ChildIn)
    BY DEF ShellInv, Forked
  <2>2. /\ Copied(Sh!ChildIn)
        /\ Sh!ChildIn[0][1] = "read" => (flag.pIn /\ Sh!ChildIn[0] = fd[fdPipe1[1]])
    BY <2>1, ChildInIs
  <2>3. Copied(child) /\ child[0] = Sh!ChildIn[0]
    BY <2>1, <2>2, ChildOutIs
  <2>4. flag.pIn /\ child[0] = fd[fdPipe1[1]]
    BY <2>2, <2>3
  <2>5. \A m \in 0 .. MaxFd : fd[m] # << "write", child[0][2] >>
    BY <2>4 DEF ShellInv, Writes
  <2>6. child[n] # << "write", child[0][2] >>
    BY <2>3, <2>5 DEF Copied, Sh!Closed
  <2> QED BY <2>5, <2>6
<1> QED BY <1>1, SequentialShell, PTL
=============================================================================
