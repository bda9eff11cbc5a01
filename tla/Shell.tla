------------------------------- MODULE Shell --------------------------------
(***************************************************************************)
(* The shell of CS111: one process that reads a line, and for each command *)
(* on it opens files and pipes, forks, and waits.  A line is a sequence of *)
(* tokens: words ("w"), "cd", "exit" and separators.  What is kept is      *)
(* where it is in the line and who has which descriptor open on what; the  *)
(* directory that "cd" changes before the command of that name fails is    *)
(* left out, as are the spellings of separators that act alike.            *)
(*                                                                         *)
(* The array of tokens is static: a line overwrites the one before it and  *)
(* ends it with a NULL, and what was behind that is still there.           *)
(***************************************************************************)
EXTENDS Integers, Sequences, SequencesExt

CONSTANTS
    Lines,          \* the lines that are read
    MaxLines,       \* bound on their number
    MaxFd           \* the highest descriptor

NULL   == "NULL"
Closed == << "closed", 0 >>
Tty    == << "terminal", 0 >>

VARIABLES
    line, lines,    \* the line and how many there were
    args,           \* the static array
    at,             \* argc, ind, nxtCmdIndex and curIndex
    flag,           \* pIn, pOut, semicolCheck and redirErr
    file,           \* fdIn and fdOut, -1 for none
    fdPipe1, fdPipe2,
    fd,             \* the shell's descriptors
    child,          \* those of the child, << >> for none
    ran,            \* the commands of the line that were executed: the index
                    \*   of the first token, and what 0, 1 and 2 were
    pc

reading == << line, lines, args >>
state == << at, flag, file, fdPipe1, fdPipe2 >>
vars == << reading, state, fd, child, ran, pc >>

Place == [argc |-> 0, ind |-> 0, nxt |-> 0, cur |-> 0]
Flags == [pIn |-> FALSE, pOut |-> FALSE, semi |-> FALSE, redirErr |-> FALSE]
NoFile == [in |-> -1, out |-> -1]
Longest == 2 + CHOOSE n \in {Len(l) : l \in Lines} : \A l \in Lines : Len(l) <= n

Init ==
    /\ line = << >> /\ lines = 0
    /\ args = [k \in 0 .. Longest |-> NULL]
    /\ at = Place /\ flag = Flags /\ file = NoFile
    /\ fdPipe1 = << 0, 0 >> /\ fdPipe2 = << 0, 0 >>
    /\ fd = [n \in 0 .. MaxFd |-> IF n <= 2 THEN Tty ELSE Closed]
    /\ child = << >> /\ ran = << >> /\ pc = "prompt"

Goto(l) == pc' = l

\* The lowest free descriptor of a table, MaxFd + 1 if there is none.
Free(table) ==
    LET free == {n \in 0 .. MaxFd : table[n] = Closed} \cup {MaxFd + 1}
    IN  CHOOSE n \in free : \A m \in free : n <= m
Open(table, x) == [table EXCEPT ![Free(table)] = x]

\* close, and dup of n into the lowest free descriptor, low.  Neither does
\* anything with a descriptor that is not open.
Shut(table, n) == [table EXCEPT ![n] = Closed]
Dup(table, low, n) == [Shut(table, low) EXCEPT ![low] = table[n]]

-----------------------------------------------------------------------------
\* Mutant: the flags of the line before are kept.
ReadLineKeepsFlags ==
    /\ pc = "prompt" /\ lines < MaxLines
    /\ \E l \in Lines :
          /\ line' = l /\ lines' = lines + 1
          /\ args' = [k \in DOMAIN args |->
                        IF k < Len(l) THEN l[k + 1] ELSE IF k = Len(l) THEN NULL ELSE args[k]]
    /\ at' = Place /\ flag' = flag /\ file' = NoFile
    /\ ran' = << >>
    /\ Goto(IF args'[0] = "exit" THEN "dead" ELSE "scan")
    /\ UNCHANGED << fdPipe1, fdPipe2, fd, child >>

\* getArgs, and the variables that are set at the start of a line.
ReadLine ==
    /\ pc = "prompt" /\ lines < MaxLines
    /\ \E l \in Lines :
          /\ line' = l /\ lines' = lines + 1
          /\ args' = [k \in DOMAIN args |->
                        IF k < Len(l) THEN l[k + 1] ELSE IF k = Len(l) THEN NULL ELSE args[k]]
    /\ at' = Place /\ flag' = Flags /\ file' = NoFile
    /\ ran' = << >>
    /\ Goto(IF args'[0] = "exit" THEN "dead" ELSE "scan")
    /\ UNCHANGED << fdPipe1, fdPipe2, fd, child >>

\* The token that is looked at.
Token == args[at.argc]
Scanning(tokens) == pc = "scan" /\ at.argc < Len(line) /\ Token \in tokens
Further(n) == at' = [at EXCEPT !.argc = @ + 1, !.ind = @ + n]

Word ==
    /\ Scanning({"w", "cd"})
    /\ Further(1)
    /\ UNCHANGED << reading, flag, file, fdPipe1, fdPipe2, fd, child, ran, pc >>

\* A redirection; only that by ">" alone does not end the command.  The name
\* is looked at as well as opened.
Redirect ==
    /\ Scanning({"<", ">", ">&", ">>"}) /\ args[at.argc + 1] # NULL /\ Free(fd) <= MaxFd
    /\ args' = [args EXCEPT ![at.argc] = NULL]
    /\ fd' = Open(fd, << "file", at.argc + 1 >>)
    /\ file' = IF Token = "<" THEN [file EXCEPT !.in = Free(fd)] ELSE [file EXCEPT !.out = Free(fd)]
    /\ flag' = [flag EXCEPT !.redirErr = @ \/ Token = ">&"]
    /\ Further(2)
    /\ Goto(IF Token = ">" THEN "scan" ELSE "fork")
    /\ UNCHANGED << line, lines, fdPipe1, fdPipe2, child, ran >>

Pipe ==
    /\ Scanning({"|"})
    /\ LET once == Open(fd, << "read", at.argc >>) IN
       /\ Free(fd) < MaxFd /\ Free(once) <= MaxFd
       /\ fd' = Open(once, << "write", at.argc >>)
       /\ fdPipe2' = << Free(fd), Free(once) >>
    /\ args' = [args EXCEPT ![at.argc] = NULL]
    /\ flag' = [flag EXCEPT !.pOut = TRUE]
    /\ at' = [at EXCEPT !.nxt = at.argc + 1, !.ind = @ + 1]
    /\ Goto("fork")
    /\ UNCHANGED << line, lines, file, fdPipe1, child, ran >>

Semicolon ==
    /\ Scanning({";"})
    /\ args' = [args EXCEPT ![at.argc] = NULL]
    /\ flag' = [flag EXCEPT !.semi = TRUE]
    /\ at' = [at EXCEPT !.nxt = at.argc + 1, !.ind = @ + 1]
    /\ Goto("fork")
    /\ UNCHANGED << line, lines, file, fdPipe1, fdPipe2, fd, child, ran >>

EndOfLine ==
    /\ pc = "scan" /\ at.argc = Len(line)
    /\ Goto("fork")
    /\ UNCHANGED << reading, state, fd, child, ran >>

\* A file cannot be opened or has no name, there is no descriptor left for a
\* pipe, or a token is compared that has been replaced by NULL.
Die ==
    /\ pc = "scan" /\ at.argc < Len(line)
    /\ \/ Token = NULL
       \/ Token \in {"<", ">", ">&", ">>"}
       \/ Token = "|" /\ Free(fd) >= MaxFd
    /\ Goto("dead")
    /\ UNCHANGED << reading, state, fd, child, ran >>

\* What the child does to its descriptors before it becomes the command.
ChildIn ==
    LET table == IF file.in # -1 THEN Dup(fd, 0, file.in) ELSE fd IN
    IF file.out = -1 /\ flag.pIn
    THEN Shut(Shut(Dup(table, 0, fdPipe1[1]), fdPipe1[1]), fdPipe1[2]) ELSE table
ChildOut(table) ==
    IF file.out # -1
    THEN IF flag.redirErr THEN Dup(Dup(table, 1, file.out), 2, file.out) ELSE Dup(table, 1, file.out)
    ELSE IF flag.pOut
    THEN Shut(Shut(Dup(table, 1, fdPipe2[2]), fdPipe2[1]), fdPipe2[2]) ELSE table

Fork ==
    /\ pc = "fork"
    /\ LET table == ChildOut(ChildIn) IN
       /\ child' = table
       /\ ran' = IF args[at.cur] = NULL THEN ran
                 ELSE Append(ran, [cmd |-> at.cur, std |-> << table[0], table[1], table[2] >>])
    /\ Goto("wait")
    /\ UNCHANGED << reading, state, fd >>

\* Mutant: the shell keeps the end of the pipe that the command wrote to.
WaitKeepsPipe ==
    /\ pc = "wait"
    /\ child' = << >>
    /\ IF flag.pOut
       THEN /\ fd' = fd /\ fdPipe1' = fdPipe2
            /\ flag' = [flag EXCEPT !.pIn = TRUE, !.redirErr = FALSE]
       ELSE fd' = fd /\ fdPipe1' = fdPipe1 /\ flag' = [flag EXCEPT !.redirErr = FALSE]
    /\ LET cur == IF flag.pOut \/ flag.semi THEN at.nxt ELSE at.cur
       IN  at' = [at EXCEPT !.argc = at.nxt, !.cur = cur]
    /\ file' = NoFile
    /\ Goto(IF args[at.ind] = NULL THEN "prompt" ELSE "scan")
    /\ UNCHANGED << reading, fdPipe2, ran >>

\* The child has ended, and the shell goes on with the line, or is done.
Wait ==
    /\ pc = "wait"
    /\ child' = << >>
    /\ IF flag.pOut
       THEN /\ fd' = Shut(fd, fdPipe2[2]) /\ fdPipe1' = fdPipe2
            /\ flag' = [flag EXCEPT !.pIn = TRUE, !.redirErr = FALSE]
       ELSE fd' = fd /\ fdPipe1' = fdPipe1 /\ flag' = [flag EXCEPT !.redirErr = FALSE]
    /\ LET cur == IF flag.pOut \/ flag.semi THEN at.nxt ELSE at.cur
       IN  at' = [at EXCEPT !.argc = at.nxt, !.cur = cur]
    /\ file' = NoFile
    /\ Goto(IF args[at.ind] = NULL THEN "prompt" ELSE "scan")
    /\ UNCHANGED << reading, fdPipe2, ran >>

Next ==
    \/ ReadLine \/ Word \/ Redirect \/ Pipe \/ Semicolon \/ EndOfLine \/ Die \/ Fork \/ Wait

Spec == Init /\ [][Next]_vars

-----------------------------------------------------------------------------
\* The commands of a line that is separated by one kind of separator.
Separators == {k \in DOMAIN line : line[k] \notin {"w", "cd"}}
OnlyBy(s) == /\ line # << >> /\ line[1] = "w" /\ line[Len(line)] = "w"
             /\ \A k \in Separators : line[k] = s /\ line[k + 1] = "w"
Starts == SetToSortSeq({0} \cup Separators, <)

\* A line of commands separated by ";" runs each of them once, in order and
\* on the terminal, whatever lines there were before; one of a pipeline runs
\* each once, in order, reading what the one before has written.
RunsAsWritten ==
    /\ pc = "prompt" /\ OnlyBy(";") =>
          ran = [k \in DOMAIN Starts |-> [cmd |-> Starts[k], std |-> << Tty, Tty, Tty >>]]
    /\ pc = "prompt" /\ OnlyBy("|") =>
          /\ [k \in DOMAIN ran |-> ran[k].cmd] = Starts
          /\ \A k \in 2 .. Len(ran) : /\ ran[k].std[1] = << "read", Starts[k] - 1 >>
                                      /\ ran[k - 1].std[2] = << "write", Starts[k] - 1 >>

\* When a command reads from a pipe nobody has its other end open, the shell
\* and the command included, or the end of the input would never come.
EndOfInputComes ==
    pc = "wait" /\ child[0][1] = "read" =>
        \A n \in 0 .. MaxFd : << "write", child[0][2] >> \notin {fd[n], child[n]}
=============================================================================
