---- MODULE HttpServerProofs ----
(***************************************************************************)
(* The HTTP server with any number of listening sockets, clients, threads  *)
(* and plugins and any requests: until a scan finds two sockets ready at    *)
(* once, a connection has one thread, memory goes from the server to that  *)
(* thread alone, and a client gets one answer, but for the exceptions that *)
(* OneAnswer names. Afterwards two threads may share one block.            *)
(***************************************************************************)
EXTENDS HttpServer, TLAPS

OneReady == \A r, s \in ready : r = s

HeapType == [Blocks -> [used : BOOLEAN, fd : Conns \cup {None}]]
Steps    == {"none", "start", "request", "headers", "line", "check", "answer", "stream",
             "wait", "write", "close"}
Early    == {"start", "request", "headers", "line", "check", "answer"}

TypesOK ==
    /\ conn \in [Conns -> {"away", "open"} \cup Sockets]
    /\ serverPc \in {"loop", "select", "scan", "ended"}
    /\ ready \subseteq Sockets
    /\ pcfd \in Blocks \cup {None}
    /\ heap \in HeapType
    /\ pc \in [Threads -> Steps]
    /\ arg \in [Threads -> Blocks \cup {None}]
    /\ lcfd \in [Threads -> Conns \cup {None}]
    /\ req \in [Threads -> Requests \cup {Unread}]
    /\ answers \in [Conns -> 0..2]

\* There is a block to visit sockets with, and one for each thread that starts.
GivenOK ==
    /\ serverPc \in {"select", "scan"} => pcfd \in Blocks
    /\ \A t \in Threads : pc[t] = "start" => arg[t] \in Blocks
    /\ \A t \in Threads : pc[t] \in {"none", "start"} => lcfd[t] = None

FlagsOK == stop \in BOOLEAN /\ camera \in BOOLEAN /\ corrupt \in BOOLEAN /\ crowded \in BOOLEAN

\* The server thread has a block from malloc to pthread_create.
ServerHas == serverPc = "select" \/ (serverPc = "scan" /\ ready # {})

\* A block belongs to the server thread or to the one thread it was given to.
BlocksOK ==
    /\ ServerHas => heap[pcfd].used
    /\ \A t \in Threads : pc[t] = "start" =>
         /\ heap[arg[t]].used
         /\ ServerHas => arg[t] # pcfd
         /\ \A u \in Threads : pc[u] = "start" /\ arg[u] = arg[t] => u = t

\* The connection of a thread.
Fd(t) == IF pc[t] = "start" THEN heap[arg[t]].fd ELSE lcfd[t]
Has(t, c) == pc[t] # "none" /\ Fd(t) = c

ConnsOK ==
    \A c \in Conns :
        /\ \A t \in Threads : Has(t, c) => conn[c] = "open"
        /\ \A t, u \in Threads : Has(t, c) /\ Has(u, c) => t = u
        /\ conn[c] = "open" => \E t \in Threads : Has(t, c)

Doubled(t) == req[t].type = "take" /\ ~req[t].named
Streams(t) == req[t].type = "stream"

\* When a thread has written no status line yet, by where it is.
Counted(t, c) ==
    /\ pc[t] \in Early => answers[c] = 0
    /\ pc[t] = "stream" => Streams(t)
    /\ pc[t] = "wait" => answers[c] = 0 \/ Doubled(t) \/ Streams(t)

AnswersOK ==
    \A c \in Conns :
        /\ conn[c] # "open" => answers[c] = 0
        /\ \A t \in Threads : Has(t, c) => Counted(t, c)

Intact  == corrupt = FALSE
TypeInv == TypesOK /\ GivenOK
HttpInv == TypeInv /\ Intact /\ BlocksOK /\ ConnsOK /\ AnswersOK

LEMMA HttpInit == Init => HttpInv /\ FlagsOK /\ OneReady
<1> SUFFICES ASSUME Init PROVE HttpInv /\ FlagsOK /\ OneReady
  OBVIOUS
<1> USE ServerAssumption
<1>1. TypeInv
  BY DEF Init, TypeInv, TypesOK, GivenOK, HeapType, Steps, Free
<1>2. FlagsOK /\ Intact
  BY Zenon DEF Init, FlagsOK, Intact
<1>3. BlocksOK /\ ConnsOK /\ AnswersOK /\ OneReady
  BY DEF Init, BlocksOK, ServerHas, ConnsOK, AnswersOK, Has, OneReady
<1> QED BY <1>1, <1>2, <1>3 DEF HttpInv

-----------------------------------------------------------------------------
(* The types, whatever the scans find.                                     *)

\* What a thread does between the copy of its block and its end.
Handles(t) ==
    \/ ReadRequest(t) \/ ReadLine(t) \/ GiveUp(t) \/ Write(t)
    \/ ReadHeaders(t) \/ Refuse(t) \/ Pick(t) \/ SendText(t) \/ SendFile(t)
    \/ BeginStream(t) \/ StreamTest(t) \/ AwaitSnapshot(t) \/ Take(t)
    \/ CopyFrame(t) \/ NoMemory(t)

LEMMA HandlesKind ==
    ASSUME NEW t \in Threads, Handles(t)
    PROVE  /\ Only /\ pc[t] \notin {"none", "start"}
           /\ \E to \in Steps \ {"none", "start"} : pc' = [pc EXCEPT ![t] = to]
           /\ answers' = answers \/ Answer(t)
           /\ req' = req \/ \E r \in Requests : req' = [req EXCEPT ![t] = r]
<1>1. CASE ReadRequest(t) \/ ReadLine(t) \/ GiveUp(t) \/ Write(t) \/ ReadHeaders(t)
  BY <1>1 DEF ReadRequest, ReadLine, GiveUp, Write, ReadHeaders, Goto, Steps
<1>2. CASE Refuse(t) \/ Pick(t) \/ SendText(t) \/ SendFile(t) \/ BeginStream(t)
  BY <1>2 DEF Refuse, Pick, SendText, SendFile, BeginStream, Is, Goto, Steps
<1>3. CASE StreamTest(t) \/ AwaitSnapshot(t) \/ Take(t) \/ CopyFrame(t) \/ NoMemory(t)
  BY <1>3 DEF StreamTest, AwaitSnapshot, Take, CopyFrame, NoMemory, Is, Goto, Steps
<1> QED BY <1>1, <1>2, <1>3 DEF Handles

LEMMA AnswerTyped ==
    ASSUME TypesOK, NEW t \in Threads, answers' = answers \/ Answer(t)
    PROVE  /\ answers' \in [Conns -> 0..2]
           /\ \A c \in Conns : c # lcfd[t] => answers'[c] = answers[c]
<1>1. CASE answers' = answers
  BY <1>1 DEF TypesOK
<1>2. CASE Answer(t)
  <2>1. answers' = [answers EXCEPT ![lcfd[t]] = IF @ < 2 THEN @ + 1 ELSE @]
    BY <1>2 DEF Answer
  <2>2. \A c \in Conns : answers'[c] \in 0..2 /\ (c # lcfd[t] => answers'[c] = answers[c])
    BY <2>1 DEF TypesOK
  <2>3. DOMAIN answers' = Conns /\ answers' = [c \in Conns |-> answers'[c]]
    BY <2>1 DEF TypesOK
  <2> QED BY <2>2, <2>3
<1> QED BY <1>1, <1>2

LEMMA TypesStep == TypeInv /\ [Next]_vars => TypeInv'
<1> SUFFICES ASSUME TypeInv, [Next]_vars PROVE TypeInv'
  OBVIOUS
<1> USE ServerAssumption DEF TypeInv
<1>1. CASE LoopTest
  <2>1. /\ UNCHANGED <<ready, pc, arg, lcfd, req, answers>>
        /\ serverPc' \in {"ended", "select"}
        /\ \/ serverPc' = "ended" /\ UNCHANGED <<pcfd, heap>>
           \/ \E b \in Blocks : pcfd' = b /\ heap' = [heap EXCEPT ![b].used = TRUE]
        /\ conn' = conn \/ conn' = [c \in Conns |-> IF conn[c] = "open" THEN "open" ELSE "away"]
    BY <1>1 DEF LoopTest, threadVars
  <2>2. heap' \in HeapType
    <3>1. CASE heap' = heap
      BY <3>1 DEF TypesOK
    <3>2. ASSUME NEW b \in Blocks, heap' = [heap EXCEPT ![b].used = TRUE] PROVE heap' \in HeapType
      BY <3>2 DEF TypesOK, HeapType
    <3> QED BY <2>1, <3>1, <3>2
  <2>3. conn' \in [Conns -> {"away", "open"} \cup Sockets]
    BY <2>1 DEF TypesOK
  <2>4. pcfd' \in Blocks \cup {None} /\ (serverPc' \in {"select", "scan"} => pcfd' \in Blocks)
    BY <2>1 DEF TypesOK
  <2> QED BY <2>1, <2>2, <2>3, <2>4 DEF TypesOK, GivenOK
<1>2. CASE Select \/ ScanDone \/ Stop \/ CameraEnds
  <2>1. UNCHANGED <<conn, heap, pc, arg, lcfd, req, answers>>
    BY <1>2 DEF Select, ScanDone, Stop, CameraEnds, threadVars
  <2>2. /\ ready' \subseteq Sockets
        /\ serverPc' \in {"loop", "select", "scan", "ended"} /\ pcfd' \in {pcfd, None}
        /\ serverPc' \in {"select", "scan"} =>
             serverPc \in {"select", "scan"} /\ pcfd' = pcfd
    BY <1>2 DEF Select, ScanDone, Stop, CameraEnds, serverVars, TypesOK
  <2> QED BY <2>1, <2>2 DEF TypesOK, GivenOK
<1>3. ASSUME NEW s \in Sockets, Accepting(s) PROVE TypeInv'
  <2>1. /\ serverPc = "scan" /\ ready' = ready \ {s} /\ UNCHANGED <<serverPc, pcfd, req, answers, lcfd>>
        /\ \E fd \in Conns \cup {None} :
             heap' = [heap EXCEPT ![pcfd].fd = fd] \/ heap' = [heap EXCEPT ![pcfd] = Free]
        /\ conn' = conn \/ \E c \in Conns, v \in {"open", "away"} : conn' = [conn EXCEPT ![c] = v]
        /\ \/ UNCHANGED <<pc, arg>>
           \/ \E t \in Threads : /\ pc[t] = "none" /\ pc' = [pc EXCEPT ![t] = "start"]
                                 /\ arg' = [arg EXCEPT ![t] = pcfd]
    BY <1>3 DEF Accepting, Accept, AcceptFails, NoThread, Visit, Launch, threadVars
  <2>2. heap' \in HeapType
    <3>1. ASSUME NEW fd \in Conns \cup {None}, heap' = [heap EXCEPT ![pcfd].fd = fd]
          PROVE  heap' \in HeapType
      BY <3>1 DEF TypesOK, HeapType
    <3>2. CASE heap' = [heap EXCEPT ![pcfd] = Free]
      BY <3>2 DEF TypesOK, HeapType, Free
    <3> QED BY <2>1, <3>1, <3>2
  <2>6. conn' \in [Conns -> {"away", "open"} \cup Sockets]
    BY <2>1 DEF TypesOK
  <2>3. pc' \in [Threads -> Steps] /\ arg' \in [Threads -> Blocks \cup {None}]
    BY <2>1 DEF TypesOK, Steps
  <2>4. pcfd \in Blocks
    BY <2>1 DEF GivenOK
  <2>5. GivenOK'
    BY <2>1, <2>4 DEF TypesOK, GivenOK
  <2> QED BY <2>1, <2>2, <2>3, <2>5, <2>6 DEF TypesOK
<1>4. ASSUME NEW c \in Conns, Connect(c) PROVE TypeInv'
  <2>1. /\ \E s \in Sockets : conn' = [conn EXCEPT ![c] = s]
        /\ UNCHANGED <<serverPc, ready, pcfd, heap, pc, arg, lcfd, req, answers>>
    BY <1>4 DEF Connect, serverVars, threadVars
  <2> QED BY <2>1 DEF TypesOK, GivenOK
<1>5. ASSUME NEW t \in Threads, Start(t) PROVE TypeInv'
  <2>1. /\ pc[t] = "start" /\ pc' = [pc EXCEPT ![t] = "request"]
        /\ lcfd' = [lcfd EXCEPT ![t] = heap[arg[t]].fd]
        /\ heap' = [heap EXCEPT ![arg[t]] = Free] /\ arg' = [arg EXCEPT ![t] = None]
        /\ UNCHANGED <<conn, serverPc, ready, pcfd, req, answers>>
    BY <1>5 DEF Start, Goto, serverVars
  <2>2. heap[arg[t]].fd \in Conns \cup {None} /\ heap' \in HeapType
    BY <2>1 DEF TypesOK, GivenOK, HeapType, Free
  <2>3. GivenOK'
    BY <2>1 DEF TypesOK, GivenOK
  <2> QED BY <2>1, <2>2, <2>3 DEF TypesOK, Steps
<1>6. ASSUME NEW t \in Threads, Handles(t) PROVE TypeInv'
  <2>1. UNCHANGED <<conn, serverPc, ready, pcfd, heap, arg, lcfd>>
    BY <1>6, HandlesKind DEF Only, serverVars
  <2>2. PICK to \in Steps \ {"none", "start"} : pc' = [pc EXCEPT ![t] = to]
    BY <1>6, HandlesKind
  <2>3. req' \in [Threads -> Requests \cup {Unread}]
    BY <1>6, HandlesKind DEF TypesOK
  <2>4. answers' \in [Conns -> 0..2]
    BY <1>6, HandlesKind, AnswerTyped
  <2>5. GivenOK'
    BY <1>6, <2>1, <2>2, HandlesKind DEF TypesOK, GivenOK
  <2> QED BY <2>1, <2>2, <2>3, <2>4, <2>5 DEF TypesOK
<1>7. ASSUME NEW t \in Threads, Close(t) PROVE TypeInv'
  <2>1. /\ pc' = [pc EXCEPT ![t] = "none"]
        /\ conn' = [c \in Conns |-> IF c = lcfd[t] THEN "away" ELSE conn[c]]
        /\ answers' = [c \in Conns |-> IF c = lcfd[t] THEN 0 ELSE answers[c]]
        /\ lcfd' = [lcfd EXCEPT ![t] = None] /\ req' = [req EXCEPT ![t] = Unread]
        /\ UNCHANGED <<serverPc, ready, pcfd, heap, arg>>
    BY <1>7 DEF Close, Goto, serverVars
  <2>2. conn' \in [Conns -> {"away", "open"} \cup Sockets] /\ answers' \in [Conns -> 0..2]
    BY <2>1 DEF TypesOK
  <2>3. GivenOK'
    BY <2>1 DEF TypesOK, GivenOK
  <2> QED BY <2>1, <2>2, <2>3 DEF TypesOK, Steps
<1>8. CASE UNCHANGED vars
  BY <1>8 DEF vars, serverVars, threadVars, TypesOK, GivenOK
<1> QED BY <1>1, <1>2, <1>3, <1>4, <1>5, <1>6, <1>7, <1>8 DEF Next, Client, Serve, Handles

LEMMA FlagsStep == FlagsOK /\ [Next]_vars => FlagsOK'
<1> SUFFICES ASSUME FlagsOK, [Next]_vars PROVE FlagsOK'
  OBVIOUS
<1> USE DEF FlagsOK
<1>1. CASE LoopTest \/ Select \/ ScanDone \/ Stop \/ CameraEnds
  BY <1>1, Zenon DEF LoopTest, Select, ScanDone, Stop, CameraEnds, serverVars
<1>2. ASSUME NEW s \in Sockets, Accepting(s) PROVE FlagsOK'
  BY <1>2, Zenon DEF Accepting, Accept, AcceptFails, NoThread, Visit
<1>3. ASSUME NEW c \in Conns, Connect(c) PROVE FlagsOK'
  BY <1>3, Zenon DEF Connect, serverVars
<1>4. ASSUME NEW t \in Threads, Start(t) \/ Close(t) PROVE FlagsOK'
  BY <1>4, Zenon DEF Start, Close, serverVars
<1>5. ASSUME NEW t \in Threads, Handles(t) PROVE FlagsOK'
  <2>1. Only
    BY <1>5, HandlesKind
  <2> QED BY <2>1, Zenon DEF Only, serverVars
<1>6. CASE UNCHANGED vars
  BY <1>6, Zenon DEF vars, serverVars
<1> QED BY <1>1, <1>2, <1>3, <1>4, <1>5, <1>6, Zenon DEF Next, Client, Serve, Handles

-----------------------------------------------------------------------------
(* The server thread.                                                      *)

\* A thread keeps its connection where its place, its block and its copy stay.
LEMMA SameFd ==
    ASSUME NEW t \in Threads, pc'[t] = pc[t], lcfd'[t] = lcfd[t], arg'[t] = arg[t],
           pc[t] = "start" => heap'[arg[t]] = heap[arg[t]], NEW c
    PROVE  Has(t, c)' <=> Has(t, c)
  BY DEF Has, Fd

LEMMA LoopKeeps == HttpInv /\ TypeInv' /\ LoopTest => HttpInv'
<1> SUFFICES ASSUME HttpInv, TypeInv', LoopTest PROVE HttpInv'
  OBVIOUS
<1> USE ServerAssumption DEF HttpInv, TypeInv
<1>1. UNCHANGED <<ready, corrupt, pc, arg, lcfd, req, answers>> /\ serverPc = "loop"
  BY DEF LoopTest, threadVars
<1>2. Intact'
  BY <1>1 DEF Intact
<1>3. CASE stop
  <2>1. /\ serverPc' = "ended" /\ UNCHANGED <<pcfd, heap>>
        /\ conn' = [c \in Conns |-> IF conn[c] = "open" THEN "open" ELSE "away"]
    BY <1>3 DEF LoopTest
  <2>3. \A c \in Conns : conn'[c] = "open" <=> conn[c] = "open"
    BY <2>1
  <2>4. BlocksOK' /\ ConnsOK' /\ AnswersOK'
    BY <1>1, <2>1, <2>3 DEF BlocksOK, ServerHas, ConnsOK, AnswersOK, Counted, Has, Fd, Doubled, Streams
  <2> QED BY <1>2, <2>4
<1>4. CASE ~stop
  <2>1. PICK b \in Blocks : /\ ~heap[b].used /\ pcfd' = b
                            /\ heap' = [heap EXCEPT ![b].used = TRUE]
    BY <1>4 DEF LoopTest
  <2>2. serverPc' = "select" /\ conn' = conn
    BY <1>4 DEF LoopTest
  <2>3. heap'[b].used /\ \A d \in Blocks : d # b => heap'[d] = heap[d]
    BY <2>1 DEF TypesOK, HeapType
  <2>5. \A t \in Threads : pc[t] = "start" => arg[t] \in Blocks /\ arg[t] # b
    BY <2>1 DEF BlocksOK, GivenOK
  <2>6. BlocksOK'
    BY <1>1, <2>1, <2>3, <2>5 DEF BlocksOK, ServerHas
  <2>7. \A t \in Threads, c \in Conns : Has(t, c)' <=> Has(t, c)
    BY <1>1, <2>3, <2>5, SameFd
  <2>8. ConnsOK' /\ AnswersOK'
    BY <1>1, <2>2, <2>7 DEF ConnsOK, AnswersOK, Counted, Doubled, Streams
  <2> QED BY <1>2, <2>6, <2>8
<1> QED BY <1>3, <1>4

LEMMA ScanKeeps == HttpInv /\ TypeInv' /\ (Select \/ ScanDone \/ Stop \/ CameraEnds) => HttpInv'
<1> SUFFICES ASSUME HttpInv, TypeInv', Select \/ ScanDone \/ Stop \/ CameraEnds PROVE HttpInv'
  OBVIOUS
<1> USE ServerAssumption DEF HttpInv
<1>1. UNCHANGED <<conn, heap, corrupt, pc, arg, lcfd, req, answers>>
  BY DEF Select, ScanDone, Stop, CameraEnds, threadVars
<1>2. Intact'
  BY <1>1 DEF Intact
<1>3. ServerHas' => ServerHas /\ pcfd' = pcfd
  BY DEF Select, ScanDone, Stop, CameraEnds, serverVars, ServerHas
<1>5. BlocksOK'
  BY <1>1, <1>3 DEF BlocksOK
<1>6. \A t \in Threads, c \in Conns : Has(t, c)' <=> Has(t, c)
  BY <1>1, SameFd
<1>7. ConnsOK' /\ AnswersOK'
  BY <1>1, <1>6 DEF ConnsOK, AnswersOK, Counted, Doubled, Streams
<1> QED BY <1>2, <1>5, <1>7

\* The one ready socket is visited: the block gets the descriptor, and goes to a
\* new thread, or back.
LEMMA AcceptKeeps ==
    ASSUME HttpInv, TypeInv', OneReady, NEW s \in Sockets, Accepting(s)
    PROVE  HttpInv'
<1> USE ServerAssumption DEF HttpInv, TypeInv
<1>1. /\ serverPc = "scan" /\ s \in ready /\ ready' = {} /\ ServerHas /\ ~ServerHas'
      /\ UNCHANGED <<serverPc, pcfd, req, answers, lcfd>>
  BY DEF Accepting, Accept, AcceptFails, NoThread, Visit, Launch, threadVars, ServerHas, OneReady, TypesOK
<1>2. pcfd \in Blocks /\ heap[pcfd].used
  BY <1>1 DEF BlocksOK, GivenOK
<1>3. Intact'
  <2>1. corrupt' = (corrupt \/ ~heap[pcfd].used)
    BY Zenon DEF Accepting, Accept, AcceptFails, NoThread, Visit
  <2> QED BY <1>2, <2>1, Zenon DEF Intact
<1>4. \A t \in Threads : pc[t] = "start" => arg[t] \in Blocks /\ arg[t] # pcfd
  BY <1>1 DEF BlocksOK, GivenOK
<1>5. CASE NoThread(s)
  <2>1. PICK c \in Conns : conn[c] = s /\ conn' = [conn EXCEPT ![c] = "away"]
    BY <1>5 DEF NoThread
  <2>2. heap' = [heap EXCEPT ![pcfd] = Free] /\ UNCHANGED <<pc, arg>>
    BY <1>5 DEF NoThread, threadVars
  <2>3. \A d \in Blocks : d # pcfd => heap'[d] = heap[d]
    BY <2>2 DEF TypesOK, HeapType
  <2>5. BlocksOK'
    BY <1>1, <1>4, <2>2, <2>3 DEF BlocksOK
  <2>6. \A t \in Threads, d \in Conns : Has(t, d)' <=> Has(t, d)
    BY <1>1, <1>4, <2>2, <2>3, SameFd
  <2>7. \A d \in Conns : conn'[d] = "open" <=> conn[d] = "open"
    BY <2>1 DEF TypesOK
  <2> QED BY <1>1, <1>3, <2>2, <2>5, <2>6, <2>7 DEF ConnsOK, AnswersOK, Counted, Doubled, Streams
<1>6. CASE Accept(s) \/ AcceptFails(s)
  <2>1. PICK fd \in Conns \cup {None} :
          /\ heap' = [heap EXCEPT ![pcfd].fd = fd]
          /\ \/ fd = None /\ conn' = conn
             \/ fd # None /\ conn[fd] = s /\ conn' = [conn EXCEPT ![fd] = "open"]
    BY <1>6 DEF Accept, AcceptFails, Visit
  <2>2. PICK t \in Threads : /\ pc[t] = "none" /\ pc' = [pc EXCEPT ![t] = "start"]
                             /\ arg' = [arg EXCEPT ![t] = pcfd]
    BY <1>6 DEF Accept, AcceptFails, Launch
  <2>3. /\ heap'[pcfd].used /\ heap'[pcfd].fd = fd
        /\ \A d \in Blocks : d # pcfd => heap'[d] = heap[d]
    BY <1>2, <2>1 DEF TypesOK, HeapType
  <2>4. /\ pc'[t] = "start" /\ arg'[t] = pcfd
        /\ \A u \in Threads : u # t => pc'[u] = pc[u] /\ arg'[u] = arg[u]
    BY <2>2 DEF TypesOK
  <2>6. BlocksOK'
    BY <1>1, <1>2, <1>4, <2>2, <2>3, <2>4 DEF BlocksOK
  <2>7. \A u \in Threads, c \in Conns : u # t => (Has(u, c)' <=> Has(u, c))
    BY <1>1, <1>4, <2>3, <2>4, SameFd
  <2>8. \A c \in Conns : ~Has(t, c) /\ (Has(t, c)' <=> c = fd)
    BY <2>2, <2>3, <2>4 DEF Has, Fd
  <2>9. fd # None => conn[fd] # "open" /\ \A u \in Threads : ~Has(u, fd)
    BY <2>1 DEF ConnsOK
  <2>10. \A c \in Conns : conn'[c] = IF c = fd THEN "open" ELSE conn[c]
    BY <2>1 DEF TypesOK
  <2>11. ConnsOK'
    BY <2>7, <2>8, <2>9, <2>10 DEF ConnsOK
  <2>12. AnswersOK'
    <3>1. ASSUME NEW c \in Conns, NEW u \in Threads, Has(u, c)' PROVE Counted(u, c)'
      <4>1. CASE u = t
        BY <1>1, <2>4, <2>8, <2>9, <3>1, <4>1 DEF AnswersOK, Counted
      <4>2. CASE u # t
        BY <1>1, <2>4, <2>7, <3>1, <4>2 DEF AnswersOK, Counted, Doubled, Streams
      <4> QED BY <4>1, <4>2
    <3> QED BY <1>1, <2>10, <3>1 DEF AnswersOK
  <2> QED BY <1>3, <2>6, <2>11, <2>12
<1> QED BY <1>5, <1>6 DEF Accepting

LEMMA ConnectKeeps ==
    ASSUME HttpInv, TypeInv', NEW c \in Conns, Connect(c)
    PROVE  HttpInv'
<1> USE ServerAssumption DEF HttpInv, TypeInv
<1>1. PICK s \in Sockets : conn[c] = "away" /\ conn' = [conn EXCEPT ![c] = s]
  BY DEF Connect
<1>2. UNCHANGED <<serverPc, ready, pcfd, heap, corrupt, pc, arg, lcfd, req, answers>>
  BY DEF Connect, serverVars, threadVars
<1>3. Intact' /\ BlocksOK'
  BY <1>2 DEF Intact, BlocksOK, ServerHas
<1>5. \A d \in Conns : conn'[d] = "open" <=> conn[d] = "open"
  BY <1>1 DEF TypesOK
<1>6. \A t \in Threads, d \in Conns : Has(t, d)' <=> Has(t, d)
  BY <1>2, SameFd
<1> QED BY <1>2, <1>3, <1>5, <1>6 DEF ConnsOK, AnswersOK, Counted, Doubled, Streams

-----------------------------------------------------------------------------
(* The client threads.                                                     *)

\* The thread takes the descriptor from its block and frees it.
LEMMA StartKeeps ==
    ASSUME HttpInv, TypeInv', NEW t \in Threads, Start(t)
    PROVE  HttpInv'
<1> USE ServerAssumption DEF HttpInv, TypeInv
<1>1. /\ pc[t] = "start" /\ pc' = [pc EXCEPT ![t] = "request"]
      /\ lcfd' = [lcfd EXCEPT ![t] = heap[arg[t]].fd]
      /\ heap' = [heap EXCEPT ![arg[t]] = Free] /\ arg' = [arg EXCEPT ![t] = None]
      /\ UNCHANGED <<conn, serverPc, ready, pcfd, req, answers>>
  BY DEF Start, Goto, serverVars
<1>2. /\ arg[t] \in Blocks /\ heap[arg[t]].used /\ (ServerHas => arg[t] # pcfd)
      /\ \A u \in Threads : u # t /\ pc[u] = "start" => arg[u] \in Blocks /\ arg[u] # arg[t]
  BY <1>1 DEF BlocksOK, GivenOK
<1>3. Intact'
  <2>1. corrupt' = (corrupt \/ ~heap[arg[t]].used)
    BY Zenon DEF Start
  <2> QED BY <1>2, <2>1, Zenon DEF Intact
<1>4. \A d \in Blocks : d # arg[t] => heap'[d] = heap[d]
  BY <1>1, <1>2 DEF TypesOK, HeapType
<1>5. /\ pc'[t] = "request" /\ lcfd'[t] = heap[arg[t]].fd
      /\ \A u \in Threads : u # t => pc'[u] = pc[u] /\ lcfd'[u] = lcfd[u] /\ arg'[u] = arg[u]
  BY <1>1, <1>2 DEF TypesOK
<1>7. BlocksOK'
  <2>1. ServerHas' <=> ServerHas
    BY <1>1 DEF ServerHas
  <2>2. ServerHas => pcfd \in Blocks
    BY DEF ServerHas, GivenOK
  <2> QED BY <1>1, <1>2, <1>4, <1>5, <2>1, <2>2 DEF BlocksOK
<1>8. \A u \in Threads, c \in Conns : Has(u, c)' <=> Has(u, c)
  <2>1. \A c \in Conns : Has(t, c)' <=> Has(t, c)
    BY <1>1, <1>5 DEF Has, Fd
  <2>2. \A u \in Threads, c \in Conns : u # t => (Has(u, c)' <=> Has(u, c))
    BY <1>2, <1>4, <1>5, SameFd
  <2> QED BY <2>1, <2>2
<1>9. ConnsOK'
  BY <1>1, <1>8 DEF ConnsOK
<1>10. AnswersOK'
  <2>1. ASSUME NEW c \in Conns, NEW u \in Threads, Has(u, c) PROVE Counted(u, c)'
    <3>1. Counted(u, c)
      BY <2>1 DEF AnswersOK
    <3> QED BY <1>1, <1>5, <3>1 DEF Counted, Early, Doubled, Streams
  <2> QED BY <1>1, <1>8, <2>1 DEF AnswersOK
<1> QED BY <1>3, <1>7, <1>9, <1>10

\* What a thread may do with the answers of the connection it has.
Proper(t) ==
    \A c \in Conns : Has(t, c) =>
        /\ Counted(t, c)'
        /\ \/ answers'[c] = answers[c]
           \/ answers[c] = 0
           \/ pc[t] = "wait" /\ (Doubled(t) \/ (Streams(t) /\ pc'[t] = "close"))

LEMMA HandlesProperly ==
    ASSUME HttpInv, NEW t \in Threads, Handles(t)
    PROVE  Proper(t)
<1> USE DEF HttpInv, TypeInv
<1> SUFFICES ASSUME NEW c \in Conns, Has(t, c)
             PROVE  /\ Counted(t, c)'
                    /\ \/ answers'[c] = answers[c]
                       \/ answers[c] = 0
                       \/ pc[t] = "wait" /\ (Doubled(t) \/ (Streams(t) /\ pc'[t] = "close"))
  BY DEF Proper
<1>1. Counted(t, c) /\ pc \in [Threads -> Steps] /\ req \in [Threads -> Requests \cup {Unread}]
  BY DEF AnswersOK, TypesOK
<1>2. CASE ReadRequest(t)
  BY <1>1, <1>2 DEF ReadRequest, Goto, Counted, Early, Steps
<1>3. CASE ReadLine(t) \/ GiveUp(t) \/ ReadHeaders(t) \/ StreamTest(t)
  BY <1>1, <1>3 DEF ReadLine, GiveUp, ReadHeaders, StreamTest, Goto, Counted, Early, Steps, Doubled, Streams
<1>4. CASE Write(t)
  BY <1>1, <1>4 DEF Write, Goto, Counted, Early, Steps, Doubled, Streams
<1>5. CASE Refuse(t) \/ SendText(t) \/ SendFile(t)
  BY <1>1, <1>5 DEF Refuse, SendText, SendFile, Is, Goto, Counted, Early, Steps
<1>6. CASE Pick(t)
  BY <1>1, <1>6 DEF Pick, Goto, Counted, Early, Steps
<1>7. CASE BeginStream(t) \/ AwaitSnapshot(t)
  BY <1>1, <1>7 DEF BeginStream, AwaitSnapshot, Is, Goto, Counted, Early, Steps, Streams, Doubled
<1>8. CASE Take(t)
  BY <1>1, <1>8 DEF Take, Is, Goto, Counted, Early, Steps, Streams, Doubled
<1>9. CASE CopyFrame(t) \/ NoMemory(t)
  BY <1>1, <1>9 DEF CopyFrame, NoMemory, Goto, Counted, Early, Steps, Streams, Doubled
<1> QED BY <1>2, <1>3, <1>4, <1>5, <1>6, <1>7, <1>8, <1>9 DEF Handles

LEMMA HandlesKeeps ==
    ASSUME HttpInv, TypeInv', NEW t \in Threads, Handles(t)
    PROVE  HttpInv'
<1> USE DEF HttpInv, TypeInv
<1>1. UNCHANGED <<conn, serverPc, ready, pcfd, heap, corrupt, arg, lcfd>>
  BY HandlesKind DEF Only, serverVars
<1>2. PICK to \in Steps \ {"none", "start"} : pc' = [pc EXCEPT ![t] = to]
  BY HandlesKind
<1>3. /\ pc[t] \notin {"none", "start"} /\ pc'[t] = to
      /\ \A u \in Threads : u # t => pc'[u] = pc[u] /\ req'[u] = req[u]
  <2>1. \A u \in Threads : u # t => req'[u] = req[u]
    BY HandlesKind DEF TypesOK
  <2> QED BY <1>2, <2>1, HandlesKind DEF TypesOK
<1>4. \A c \in Conns : c # lcfd[t] => answers'[c] = answers[c]
  BY HandlesKind, AnswerTyped
<1>5. Intact' /\ BlocksOK'
  <2>1. \A u \in Threads : pc'[u] = "start" <=> pc[u] = "start"
    BY <1>2, <1>3
  <2> QED BY <1>1, <2>1 DEF Intact, BlocksOK, ServerHas
<1>6. \A u \in Threads, c \in Conns : Has(u, c)' <=> Has(u, c)
  BY <1>1, <1>2, <1>3 DEF Has, Fd
<1>7. ConnsOK'
  BY <1>1, <1>6 DEF ConnsOK
<1>8. AnswersOK'
  <2>1. ASSUME NEW c \in Conns, conn'[c] # "open" PROVE answers'[c] = 0
    <3>1. ~Has(t, c)
      BY <1>1, <2>1 DEF ConnsOK
    <3>2. c # lcfd[t]
      BY <1>3, <3>1 DEF Has, Fd
    <3> QED BY <1>1, <1>4, <2>1, <3>2 DEF AnswersOK
  <2>2. ASSUME NEW c \in Conns, NEW u \in Threads, Has(u, c) PROVE Counted(u, c)'
    <3>1. CASE u = t
      BY <2>2, <3>1, HandlesProperly DEF Proper
    <3>2. CASE u # t
      <4>1. ~Has(t, c)
        BY <2>2, <3>2 DEF ConnsOK
      <4>2. c # lcfd[t]
        BY <1>3, <4>1 DEF Has, Fd
      <4>3. Counted(u, c)
        BY <2>2 DEF AnswersOK
      <4> QED BY <1>3, <1>4, <3>2, <4>2, <4>3 DEF Counted, Doubled, Streams
    <3> QED BY <3>1, <3>2
  <2> QED BY <1>6, <2>1, <2>2 DEF AnswersOK
<1> QED BY <1>5, <1>7, <1>8

\* The thread closes its connection, which nobody else has.
LEMMA CloseKeeps ==
    ASSUME HttpInv, TypeInv', NEW t \in Threads, Close(t)
    PROVE  HttpInv'
<1> USE ServerAssumption DEF HttpInv, TypeInv
<1>1. /\ pc[t] = "close" /\ pc' = [pc EXCEPT ![t] = "none"]
      /\ lcfd' = [lcfd EXCEPT ![t] = None] /\ req' = [req EXCEPT ![t] = Unread]
      /\ UNCHANGED <<serverPc, ready, pcfd, heap, corrupt, arg>>
  BY DEF Close, Goto, serverVars
<1>2. Intact'
  BY <1>1 DEF Intact
<1>3. /\ pc'[t] = "none" /\ lcfd'[t] = None
      /\ \A u \in Threads : u # t => pc'[u] = pc[u] /\ lcfd'[u] = lcfd[u] /\ req'[u] = req[u]
  BY <1>1 DEF TypesOK
<1>4. \A c \in Conns : IF c = lcfd[t] THEN conn'[c] = "away" /\ answers'[c] = 0
                                     ELSE conn'[c] = conn[c] /\ answers'[c] = answers[c]
  BY DEF Close
<1>6. BlocksOK'
  BY <1>1, <1>3 DEF BlocksOK, ServerHas
<1>7. \A c \in Conns : ~Has(t, c)' /\ (Has(t, c) <=> c = lcfd[t])
  BY <1>1, <1>3 DEF Has, Fd
<1>8. \A u \in Threads, c \in Conns : u # t => (Has(u, c)' <=> Has(u, c))
  BY <1>1, <1>3 DEF Has, Fd
<1>9. \A u \in Threads, c \in Conns : Has(u, c)' => u # t /\ Has(u, c) /\ c # lcfd[t]
  BY <1>7, <1>8 DEF ConnsOK
<1>10. ConnsOK'
  BY <1>4, <1>7, <1>8, <1>9 DEF ConnsOK
<1>11. AnswersOK'
  BY <1>3, <1>4, <1>9 DEF AnswersOK, Counted, Doubled, Streams
<1> QED BY <1>2, <1>6, <1>10, <1>11

-----------------------------------------------------------------------------

LEMMA HttpStep == OneReady /\ HttpInv /\ [Next]_vars => HttpInv'
<1> SUFFICES ASSUME OneReady, HttpInv, [Next]_vars PROVE HttpInv'
  OBVIOUS
<1>t. TypeInv'
  BY TypesStep DEF HttpInv
<1>1. CASE LoopTest
  BY <1>t, <1>1, LoopKeeps
<1>2. CASE Select \/ ScanDone \/ Stop \/ CameraEnds
  BY <1>t, <1>2, ScanKeeps
<1>3. ASSUME NEW s \in Sockets, Accepting(s) PROVE HttpInv'
  BY <1>t, <1>3, AcceptKeeps
<1>4. ASSUME NEW c \in Conns, Connect(c) PROVE HttpInv'
  BY <1>t, <1>4, ConnectKeeps
<1>5. ASSUME NEW t \in Threads, Client(t) \/ Serve(t) PROVE HttpInv'
  <2>1. CASE Start(t)
    BY <1>t, <2>1, StartKeeps
  <2>2. CASE Close(t)
    BY <1>t, <2>2, CloseKeeps
  <2>3. CASE Handles(t)
    BY <1>t, <2>3, HandlesKeeps
  <2> QED BY <1>5, <2>1, <2>2, <2>3 DEF Client, Serve, Handles
<1>6. CASE UNCHANGED vars
  <2>1. UNCHANGED <<conn, serverPc, ready, pcfd, heap, corrupt, pc, arg, lcfd, req, answers>>
    BY <1>6 DEF vars, serverVars, threadVars
  <2> QED BY <1>t, <2>1 DEF HttpInv, Intact, BlocksOK, ServerHas, ConnsOK, AnswersOK, Counted,
                            Has, Fd, Doubled, Streams
<1> QED BY <1>1, <1>2, <1>3, <1>4, <1>5, <1>6 DEF Next

\* Until a scan is crowded, each finds one socket ready at most.
Orderly == ~crowded => OneReady /\ HttpInv

LEMMA OrderlyStep == FlagsOK /\ Orderly /\ [Next]_vars => Orderly'
<1> SUFFICES ASSUME FlagsOK, Orderly, [Next]_vars, ~crowded' PROVE OneReady' /\ HttpInv'
  BY DEF Orderly
<1>1. ~crowded
  <2>1. CASE Select
    BY <2>1, Zenon DEF Select
  <2>2. CASE ~Select
    <3>1. CASE UNCHANGED vars
      BY <3>1, Zenon DEF vars, serverVars
    <3>2. CASE LoopTest \/ ScanDone \/ Stop \/ CameraEnds
      BY <3>2, Zenon DEF LoopTest, ScanDone, Stop, CameraEnds, serverVars
    <3>3. ASSUME NEW s \in Sockets, Accepting(s) PROVE ~crowded
      BY <3>3, Zenon DEF Accepting, Accept, AcceptFails, NoThread, Visit
    <3>4. ASSUME NEW c \in Conns, Connect(c) PROVE ~crowded
      BY <3>4, Zenon DEF Connect, serverVars
    <3>5. ASSUME NEW t \in Threads, Client(t) \/ Serve(t) PROVE ~crowded
      <4>1. CASE Start(t) \/ Close(t)
        BY <4>1, Zenon DEF Start, Close, serverVars
      <4>2. CASE Handles(t)
        BY <4>2, HandlesKind, Zenon DEF Only, serverVars
      <4> QED BY <3>5, <4>1, <4>2, Zenon DEF Client, Serve, Handles
    <3> QED BY <2>2, <3>1, <3>2, <3>3, <3>4, <3>5, Zenon DEF Next
  <2> QED BY <2>1, <2>2
<1>2. OneReady /\ HttpInv
  BY <1>1 DEF Orderly
<1>3. HttpInv'
  BY <1>2, HttpStep
<1>4. OneReady'
  <2>1. CASE Select
    BY <2>1, Zenon DEF Select, OneReady
  <2>2. CASE ~Select
    <3>1. ready' \subseteq ready
      <4>1. CASE UNCHANGED vars
        BY <4>1 DEF vars, serverVars
      <4>2. CASE LoopTest \/ ScanDone \/ Stop \/ CameraEnds
        BY <4>2 DEF LoopTest, ScanDone, Stop, CameraEnds, serverVars
      <4>3. ASSUME NEW s \in Sockets, Accepting(s) PROVE ready' \subseteq ready
        BY <4>3 DEF Accepting, Accept, AcceptFails, NoThread
      <4>4. ASSUME NEW c \in Conns, Connect(c) PROVE ready' \subseteq ready
        BY <4>4 DEF Connect, serverVars
      <4>5. ASSUME NEW t \in Threads, Client(t) \/ Serve(t) PROVE ready' \subseteq ready
        <5>1. CASE Start(t) \/ Close(t)
          BY <5>1 DEF Start, Close, serverVars
        <5>2. CASE Handles(t)
          BY <5>2, HandlesKind DEF Only, serverVars
        <5> QED BY <4>5, <5>1, <5>2, Zenon DEF Client, Serve, Handles
      <4> QED BY <2>2, <4>1, <4>2, <4>3, <4>4, <4>5, Zenon DEF Next
    <3> QED BY <1>2, <3>1 DEF OneReady
  <2> QED BY <2>1, <2>2
<1> QED BY <1>3, <1>4

LEMMA HttpAlways == Spec => [](TypeInv /\ FlagsOK /\ Orderly)
<1>1. Init => TypeInv /\ FlagsOK /\ Orderly
  BY HttpInit DEF HttpInv, Orderly
<1>2. TypeInv /\ FlagsOK /\ Orderly /\ [Next]_vars => (TypeInv /\ FlagsOK /\ Orderly)'
  BY TypesStep, FlagsStep, OrderlyStep
<1> QED BY <1>1, <1>2, PTL DEF Spec

\* The server thread hands its block, and the connection in it, to exactly one
\* client thread, also when accept or pthread_create fails, and no block is used
\* after it was freed, until a scan finds two sockets ready: nothing else, for
\* any number of sockets, breaks it.
THEOREM OneChild == Spec => []OneChildPerClient
<1>1. TypeInv /\ FlagsOK /\ Orderly => OneChildPerClient
  <2> SUFFICES ASSUME TypeInv, FlagsOK, Orderly PROVE OneChildPerClient
    OBVIOUS
  <2>1. TypeOK
    <3>1. {stop, camera, corrupt, crowded} \subseteq BOOLEAN
      BY Zenon DEF FlagsOK
    <3> QED BY <3>1, Zenon DEF TypeInv, TypesOK, GivenOK, HeapType, Steps, TypeOK
  <2>2. corrupt => crowded
    BY Zenon DEF Orderly, HttpInv, Intact
  <2>3. ASSUME ~crowded, NEW c \in Conns, conn[c] = "open"
        PROVE  \E t \in Threads : Holders(c) = {t}
    <3>1. \A t \in Threads : t \in Holders(c) <=> Has(t, c)
      BY DEF Holders, Has, Fd
    <3>2. ConnsOK
      BY <2>3 DEF Orderly, HttpInv
    <3>3. PICK t \in Threads : Has(t, c)
      BY <2>3, <3>2 DEF ConnsOK
    <3>4. \A u \in Holders(c) : u = t
      BY <3>1, <3>2, <3>3 DEF Holders, ConnsOK
    <3>5. t \in Holders(c)
      BY <3>1, <3>3
    <3> QED BY <3>4, <3>5
  <2> QED BY <2>1, <2>2, <2>3, Zenon DEF OneChildPerClient
<1> QED BY <1>1, HttpAlways, PTL

\* No way through the request line, the credentials, the plugin number and the
\* dispatch answers a connection twice, except a take that names no file and a
\* stream that runs out of memory, until a scan finds two sockets ready.
THEOREM OneAnswerEach == Spec => OneAnswer
<1> DEFINE Once(c) ==
      answers[c] > 0 /\ answers'[c] > answers[c] =>
          \E t \in Threads :
              /\ lcfd[t] = c /\ pc[t] = "wait"
              /\ \/ req[t].type = "take" /\ ~req[t].named
                 \/ req[t].type = "stream" /\ pc'[t] = "close"
<1>1. ASSUME TypeInv, Orderly, [Next]_vars, ~crowded, NEW c \in Conns
      PROVE  Once(c)
  <2>1. HttpInv
    BY <1>1 DEF Orderly
  <2>2. answers[c] \in 0..2
    BY <1>1 DEF TypeInv, TypesOK
  <2>3. answers'[c] = answers[c] \/ answers'[c] = 0 => Once(c)
    BY <2>2
  <2>4. ASSUME NEW t \in Threads, Handles(t) PROVE Once(c)
    <3>1. CASE Has(t, c)
      <4>1. Proper(t)
        BY <2>1, <2>4, HandlesProperly
      <4>2. lcfd[t] = c \/ pc[t] = "start"
        BY <3>1 DEF Has, Fd
      <4> QED BY <2>3, <3>1, <4>1, <4>2 DEF Proper, Doubled, Streams
    <3>2. CASE ~Has(t, c)
      <4>1. c # lcfd[t]
        BY <2>4, <3>2, HandlesKind DEF Has, Fd
      <4>2. answers'[c] = answers[c]
        BY <1>1, <2>4, <4>1, HandlesKind, AnswerTyped DEF TypeInv
      <4> QED BY <2>3, <4>2
    <3> QED BY <3>1, <3>2
  <2> HIDE DEF Once
  <2>5. CASE LoopTest \/ Select \/ ScanDone \/ Stop \/ CameraEnds \/ UNCHANGED vars
    BY <2>3, <2>5 DEF LoopTest, Select, ScanDone, Stop, CameraEnds, vars
  <2>6. ASSUME NEW s \in Sockets, Accepting(s) PROVE Once(c)
    BY <2>3, <2>6 DEF Accepting, Accept, AcceptFails, NoThread
  <2>7. ASSUME NEW d \in Conns, Connect(d) PROVE Once(c)
    BY <2>3, <2>7 DEF Connect
  <2>8. ASSUME NEW t \in Threads, Start(t) \/ Close(t) PROVE Once(c)
    BY <2>3, <2>8 DEF Start, Close
  <2> QED BY <1>1, <2>4, <2>5, <2>6, <2>7, <2>8 DEF Next, Client, Serve, Handles
<1>2. TypeInv /\ Orderly /\ [Next]_vars => [~crowded => \A c \in Conns : Once(c)]_vars
  BY <1>1
<1> QED BY <1>2, HttpAlways, PTL DEF Spec, OneAnswer
====
