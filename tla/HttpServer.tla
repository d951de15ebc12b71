---- MODULE HttpServer ----
(***************************************************************************)
(* The HTTP output plugin, httpd.c: the server thread, which accepts       *)
(* connections on its listening sockets and hands each to a new thread in  *)
(* a piece of memory that the thread frees, and the client threads, which  *)
(* read a request and answer it. Pictures come from the buffer modelled in *)
(* FrameBuffer: a thread that waits is served unless the camera is gone.   *)
(*                                                                         *)
(* A file descriptor is the connection it stands for. The compile options  *)
(* MANAGMENT and WXP_COMPAT are off, as they are by default. Memory that is *)
(* used after it was freed ends what can be said: the model stops there.   *)
(***************************************************************************)
EXTENDS Integers

CONSTANTS
    Sockets,     \* listening sockets, one per address family
    Conns,       \* what clients connect with, again and again
    Threads,     \* thread ids; a finished thread's id is used again
    Blocks,      \* pieces of memory malloc may return for a cfd
    None,        \* no connection (a descriptor of -1), no block
    Requests,    \* what clients may ask for
    InCount, OutCount, \* pglobal->incnt, pglobal->outcnt
    AskPassword, \* option -c given
    FileOutput   \* an output_file plugin is loaded

Suffixed == {"snapshot", "stream", "take", "input_json", "output_json"}
Types    == Suffixed \cup {"program_json", "command", "file", "cgi", "malformed"}

\* The request line as the thread understands it; named: a take names a file.
Request == [type : Types, number : 0..9, named : BOOLEAN]

ASSUME ServerAssumption ==
    /\ None \notin Conns \cup Blocks
    /\ Sockets \cap {"away", "open"} = {}
    /\ Requests \subseteq Request
    /\ InCount \in Nat /\ OutCount \in Nat
    /\ AskPassword \in BOOLEAN /\ FileOutput \in BOOLEAN

VARIABLES
    stop,      \* pglobal->stop
    camera,    \* the camera thread still publishes pictures
    conn,      \* each connection: "away", waiting to be accepted, or "open"
    serverPc,  \* where server_thread is
    ready,     \* selectfds: the sockets the scan has yet to visit
    crowded,   \* a scan has found two sockets ready at once (history)
    pcfd,      \* the block server_thread fills in
    heap,      \* each block: allocated or not, and the descriptor in it
    corrupt,   \* a block was used or freed when it was not allocated
    pc,        \* where each client thread is, "none" when there is none
    arg,       \* the block each thread was given
    lcfd,      \* each thread's own copy of the descriptor
    req,       \* the request each thread has read
    answers    \* status lines written to each open connection (history, up to two)

serverVars == <<serverPc, ready, crowded, pcfd>>
threadVars == <<pc, arg, lcfd, req>>
vars == <<stop, camera, conn, serverVars, heap, corrupt, threadVars, answers>>

Unread == [type |-> "malformed", number |-> 0, named |-> FALSE]
Free   == [used |-> FALSE, fd |-> None]

TypeOK ==
    /\ {stop, camera, corrupt, crowded} \subseteq BOOLEAN
    /\ conn \in [Conns -> {"away", "open"} \cup Sockets]
    /\ serverPc \in {"loop", "select", "scan", "ended"}
    /\ ready \subseteq Sockets
    /\ pcfd \in Blocks \cup {None}
    /\ heap \in [Blocks -> [used : BOOLEAN, fd : Conns \cup {None}]]
    /\ pc \in [Threads -> {"none", "start", "request", "headers", "line", "check",
                           "answer", "stream", "wait", "write", "close"}]
    /\ arg \in [Threads -> Blocks \cup {None}]
    /\ lcfd \in [Threads -> Conns \cup {None}]
    /\ \A t \in Threads : pc[t] \in {"none", "start"} => lcfd[t] = None
    /\ req \in [Threads -> Requests \cup {Unread}]
    /\ answers \in [Conns -> 0..2]

Init ==
    /\ stop = FALSE /\ camera = TRUE /\ corrupt = FALSE /\ crowded = FALSE
    /\ conn = [c \in Conns |-> "away"]
    /\ serverPc = "loop" /\ ready = {} /\ pcfd = None
    /\ heap = [b \in Blocks |-> Free]
    /\ pc = [t \in Threads |-> "none"]
    /\ arg = [t \in Threads |-> None]
    /\ lcfd = [t \in Threads |-> None]
    /\ req = [t \in Threads |-> Unread]
    /\ answers = [c \in Conns |-> 0]

-----------------------------------------------------------------------------
(* The server thread.                                                      *)

\* while(!pglobal->stop): a block for the next connection, or the end, which
\* closes the listening sockets.
LoopTest ==
    /\ serverPc = "loop"
    /\ \/ /\ stop
          /\ serverPc' = "ended"
          /\ conn' = [c \in Conns |-> IF conn[c] = "open" THEN "open" ELSE "away"]
          /\ UNCHANGED <<pcfd, heap>>
       \/ /\ ~stop
          /\ serverPc' = "select"
          /\ \E b \in Blocks :
                /\ ~heap[b].used
                /\ pcfd' = b
                /\ heap' = [heap EXCEPT ![b].used = TRUE]
          /\ UNCHANGED conn
    /\ UNCHANGED <<stop, camera, ready, crowded, corrupt, threadVars, answers>>

\* select returns with every socket somebody has connected to. (Interrupted by
\* a signal it is called again, and stop is not looked at.)
Select ==
    /\ serverPc = "select"
    /\ ready' = {conn[c] : c \in Conns} \cap Sockets
    /\ ready' # {}
    /\ crowded' = (crowded \/ \E r, s \in ready' : r # s)
    /\ serverPc' = "scan"
    /\ UNCHANGED <<stop, camera, conn, pcfd, heap, corrupt, threadVars, answers>>

\* The scan visits a ready socket and writes the descriptor into the block, the
\* same one for every socket of the scan.
Visit(fd) ==
    /\ serverPc = "scan"
    /\ heap' = [heap EXCEPT ![pcfd].fd = fd]
    /\ corrupt' = (corrupt \/ ~heap[pcfd].used)
    /\ UNCHANGED <<stop, camera, serverPc, crowded, pcfd, req>>

\* pthread_create succeeds.
Launch ==
    \E t \in Threads :
        /\ pc[t] = "none"
        /\ pc' = [pc EXCEPT ![t] = "start"]
        /\ arg' = [arg EXCEPT ![t] = pcfd]
        /\ UNCHANGED lcfd

Accept(s) ==
    /\ s \in ready
    /\ ready' = ready \ {s}
    /\ \E c \in Conns :
          /\ conn[c] = s
          /\ conn' = [conn EXCEPT ![c] = "open"]
          /\ Visit(c)
    /\ Launch
    /\ UNCHANGED answers

\* accept finds no free descriptor and returns -1: the thread is started all the
\* same, and the connection stays where it is.
AcceptFails(s) ==
    /\ s \in ready
    /\ ready' = ready \ {s}
    /\ Visit(None)
    /\ Launch
    /\ UNCHANGED <<conn, answers>>

\* mutant: the connection stays open when there is no thread for it
NoThreadNoClose(s) ==
    /\ serverPc = "scan"
    /\ s \in ready
    /\ ready' = ready \ {s}
    /\ \E c \in Conns :
          /\ conn[c] = s
          /\ conn' = [conn EXCEPT ![c] = "open"]
    /\ heap' = [heap EXCEPT ![pcfd] = Free]
    /\ corrupt' = (corrupt \/ ~heap[pcfd].used)
    /\ UNCHANGED <<stop, camera, serverPc, crowded, pcfd, threadVars, answers>>

\* pthread_create fails: the connection is closed again and the block freed.
NoThread(s) ==
    /\ serverPc = "scan"
    /\ s \in ready
    /\ ready' = ready \ {s}
    /\ \E c \in Conns :
          /\ conn[c] = s
          /\ conn' = [conn EXCEPT ![c] = "away"]
    /\ heap' = [heap EXCEPT ![pcfd] = Free]
    /\ corrupt' = (corrupt \/ ~heap[pcfd].used)
    /\ UNCHANGED <<stop, camera, serverPc, crowded, pcfd, threadVars, answers>>

ScanDone ==
    /\ serverPc = "scan"
    /\ ready = {}
    /\ serverPc' = "loop"
    /\ pcfd' = None
    /\ UNCHANGED <<stop, camera, conn, ready, crowded, heap, corrupt, threadVars, answers>>

-----------------------------------------------------------------------------
(* A client thread, client_thread.                                         *)

Goto(t, from, to) == pc[t] = from /\ pc' = [pc EXCEPT ![t] = to]

\* The thread copies what it was given and frees it.
Start(t) ==
    /\ Goto(t, "start", "request")
    /\ lcfd' = [lcfd EXCEPT ![t] = heap[arg[t]].fd]
    /\ heap' = [heap EXCEPT ![arg[t]] = Free]
    /\ corrupt' = (corrupt \/ ~heap[arg[t]].used)
    /\ arg' = [arg EXCEPT ![t] = None]
    /\ UNCHANGED <<stop, camera, conn, serverVars, req, answers>>

Only == UNCHANGED <<stop, camera, conn, serverVars, heap, corrupt, arg, lcfd>>

\* A status line is written, by send_error or with what was asked for.
Answer(t) == answers' = [answers EXCEPT ![lcfd[t]] = IF @ < 2 THEN @ + 1 ELSE @]

\* The request line; what cannot be understood is refused at once.
ReadRequest(t) ==
    /\ lcfd[t] # None
    /\ \E r \in Requests :
          /\ req' = [req EXCEPT ![t] = r]
          /\ \/ r.type # "malformed" /\ Goto(t, "request", "headers") /\ UNCHANGED answers
             \/ r.type = "malformed" /\ Goto(t, "request", "close") /\ Answer(t)
    /\ Only

\* The client hangs up or is silent for 5 s: closed without an answer.
GiveUp(t) ==
    /\ Goto(t, "request", "close") \/ Goto(t, "headers", "close")
    /\ UNCHANGED <<req, answers>>
    /\ Only

\* One header line is read, however many there are: each has 5 s of its own.
ReadLine(t) ==
    /\ Goto(t, "headers", "line")
    /\ UNCHANGED <<req, answers>>
    /\ Only

\* The line is looked at. The empty line ends the headers.
ReadHeaders(t) ==
    /\ Goto(t, "line", "headers") \/ Goto(t, "line", "check")
    /\ UNCHANGED <<req, answers>>
    /\ Only

\* mutant: a refused client is not disconnected
RefuseKeepsOpen(t) ==
    /\ AskPassword
    /\ Goto(t, "check", "none")
    /\ Answer(t)
    /\ UNCHANGED req
    /\ Only

\* Wrong or missing credentials end it here.
Refuse(t) ==
    /\ AskPassword
    /\ Goto(t, "check", "close")
    /\ Answer(t)
    /\ UNCHANGED req
    /\ Only

\* The plugin number behind the first "_" of the request line.
OutOfRange(r) ==
    /\ r.type \in Suffixed
    /\ r.number >= (IF r.type = "output_json" THEN OutCount ELSE InCount)

\* mutant: after the 404 the request is still carried out
PickAnswers(t) ==
    /\ Goto(t, "check", "answer")
    /\ IF OutOfRange(req[t]) THEN Answer(t) ELSE UNCHANGED answers
    /\ UNCHANGED req
    /\ Only

\* The credentials, if asked for, are right: a number out of range is answered
\* with 404, and the type becomes A_UNKNOWN.
Pick(t) ==
    /\ \/ OutOfRange(req[t])  /\ Goto(t, "check", "close") /\ Answer(t)
       \/ ~OutOfRange(req[t]) /\ Goto(t, "check", "answer") /\ UNCHANGED answers
    /\ UNCHANGED req
    /\ Only

Is(t, types) == pc[t] = "answer" /\ req[t].type \in types

\* What a command comes to is a short answer, also when commands are disabled.
SendText(t) ==
    /\ Is(t, {"command"})
    /\ Goto(t, "answer", "close")
    /\ Answer(t)
    /\ UNCHANGED req
    /\ Only

\* Descriptions, files and scripts: an answer to write, or an error.
SendFile(t) ==
    /\ Is(t, {"input_json", "output_json", "program_json", "file", "cgi"})
    /\ Goto(t, "answer", "write") \/ Goto(t, "answer", "close")
    /\ Answer(t)
    /\ UNCHANGED req
    /\ Only

\* send_stream writes its header and loops; the write may fail.
BeginStream(t) ==
    /\ Is(t, {"stream"})
    /\ Goto(t, "answer", "stream") \/ Goto(t, "answer", "close")
    /\ Answer(t)
    /\ UNCHANGED req
    /\ Only

\* while(!pglobal->stop): it waits for a frame.
StreamTest(t) ==
    /\ IF stop THEN Goto(t, "stream", "close") ELSE Goto(t, "stream", "wait")
    /\ UNCHANGED <<req, answers>>
    /\ Only

\* send_snapshot waits for a frame.
AwaitSnapshot(t) ==
    /\ Is(t, {"snapshot"})
    /\ Goto(t, "answer", "wait")
    /\ UNCHANGED <<req, answers>>
    /\ Only

\* A take: the picture is saved by output_file, then sent like a snapshot. When
\* it cannot be saved, a 404 is all; when no file is named, a 404 comes first and
\* the snapshot follows.
Take(t) ==
    /\ Is(t, {"take"})
    /\ \/ ~FileOutput /\ Goto(t, "answer", "close") /\ Answer(t)
       \/ FileOutput /\ req[t].named /\ Goto(t, "answer", "wait") /\ UNCHANGED answers
       \/ FileOutput /\ req[t].named /\ Goto(t, "answer", "close") /\ Answer(t)
       \/ FileOutput /\ ~req[t].named /\ Goto(t, "answer", "wait") /\ Answer(t)
    /\ UNCHANGED req
    /\ Only

\* The camera publishes and the frame is copied. A snapshot begins its answer.
CopyFrame(t) ==
    /\ camera
    /\ Goto(t, "wait", "write")
    /\ IF req[t].type = "stream" THEN UNCHANGED answers ELSE Answer(t)
    /\ UNCHANGED req
    /\ Only

\* malloc or realloc fails: a 500, also in the middle of a stream.
NoMemory(t) ==
    /\ camera
    /\ Goto(t, "wait", "close")
    /\ Answer(t)
    /\ UNCHANGED req
    /\ Only

\* write returns: when the client has read, or at once when it is gone. Nothing
\* ends the wait for a client that stays and does not read.
Write(t) ==
    /\ \/ Goto(t, "write", "close")
       \/ Goto(t, "write", "stream") /\ req[t].type = "stream"
    /\ UNCHANGED <<req, answers>>
    /\ Only

\* close(lcfd.fd), free_request: the thread ends.
Close(t) ==
    /\ Goto(t, "close", "none")
    /\ conn' = [c \in Conns |-> IF c = lcfd[t] THEN "away" ELSE conn[c]]
    /\ answers' = [c \in Conns |-> IF c = lcfd[t] THEN 0 ELSE answers[c]]
    /\ lcfd' = [lcfd EXCEPT ![t] = None]
    /\ req' = [req EXCEPT ![t] = Unread]
    /\ UNCHANGED <<stop, camera, serverVars, heap, corrupt, arg>>

-----------------------------------------------------------------------------

\* A client connects to one of the addresses while they are listened on.
Connect(c) ==
    /\ serverPc # "ended"
    /\ conn[c] = "away"
    /\ \E s \in Sockets : conn' = [conn EXCEPT ![c] = s]
    /\ UNCHANGED <<stop, camera, serverVars, heap, corrupt, threadVars, answers>>

\* SIGINT.
Stop ==
    /\ ~stop
    /\ stop' = TRUE
    /\ UNCHANGED <<camera, conn, serverVars, heap, corrupt, threadVars, answers>>

\* The camera thread ends: unplugged, or told to stop.
CameraEnds ==
    /\ camera
    /\ camera' = FALSE
    /\ UNCHANGED <<stop, conn, serverVars, heap, corrupt, threadVars, answers>>

Serve(t) ==
    \/ Start(t) \/ ReadHeaders(t) \/ Refuse(t) \/ Pick(t) \/ SendText(t) \/ SendFile(t)
    \/ BeginStream(t) \/ StreamTest(t) \/ AwaitSnapshot(t) \/ Take(t)
    \/ CopyFrame(t) \/ NoMemory(t) \/ Close(t)

Accepting(s) == Accept(s) \/ AcceptFails(s) \/ NoThread(s)

Client(t) == ReadRequest(t) \/ ReadLine(t) \/ GiveUp(t) \/ Write(t)

Next ==
    /\ ~corrupt
    /\ \/ LoopTest \/ Select \/ ScanDone \/ Stop \/ CameraEnds
       \/ \E s \in Sockets : Accepting(s)
       \/ \E c \in Conns : Connect(c)
       \/ \E t \in Threads : Client(t) \/ Serve(t)

Spec == Init /\ [][Next]_vars

\* Threads run, the camera publishes, and a client that says nothing is given up
\* after 5 s. Nobody is obliged to connect, to send, to read, to go or to fail.
FairSpec ==
    /\ Spec
    /\ WF_vars(~corrupt /\ LoopTest)
    /\ WF_vars(~corrupt /\ Select)
    /\ WF_vars(~corrupt /\ ScanDone)
    /\ \A s \in Sockets : WF_vars(~corrupt /\ Accepting(s))
    /\ \A t \in Threads : WF_vars(~corrupt /\ GiveUp(t)) /\ WF_vars(~corrupt /\ Serve(t))

-----------------------------------------------------------------------------

\* Who is to close a connection: the thread that has it, or will copy it from the
\* block it was given.
Holders(c) ==
    {t \in Threads : pc[t] # "none" /\
        c = IF pc[t] = "start" THEN heap[arg[t]].fd ELSE lcfd[t]}

\* "create a child for every client that connects" (httpd.c:1545): until a scan
\* has found clients on two sockets at once, an accepted connection belongs to
\* exactly one thread until it is closed, whatever fails on the way, and memory is
\* handed from the server thread to that thread alone. Such a scan gives the same
\* block away twice, and nothing else misuses memory. And the variables have
\* their types.
OneChildPerClient ==
    /\ TypeOK
    /\ corrupt => crowded
    /\ ~crowded => \A c \in Conns :
         conn[c] = "open" => \E t \in Threads : Holders(c) = {t}

\* A client gets one answer: no path through the request line, the credentials,
\* the plugin number and the dispatch writes a status line to a connection that
\* has one already, but two: a take that names no file gets a 404 and the picture,
\* and a stream whose realloc fails a 500 after its 200 (httpd.c:498, 1396).
OneAnswer ==
    [][~crowded => \A c \in Conns :
         answers[c] > 0 /\ answers'[c] > answers[c] =>
             \E t \in Threads :
                 /\ lcfd[t] = c /\ pc[t] = "wait"
                 /\ \/ req[t].type = "take" /\ ~req[t].named
                    \/ req[t].type = "stream" /\ pc'[t] = "close"]_vars

\* What keeps the thread of a connection: a client that sends header lines without
\* end or does not read, a stream, a camera that is gone.
Kept(t) ==
    \/ pc[t] \in {"headers", "line"}
    \/ pc[t] = "write"
    \/ req[t].type = "stream" /\ ~stop
    \/ pc[t] = "wait" /\ ~camera

\* A connection stays open for ever only with one of these, unless two clients have
\* arrived together on two sockets; a client that falls silent is not among them,
\* for it is given up after 5 s, and every other way ends in a close.
ConnectionsEnd ==
    \A c \in Conns :
        <>[](conn[c] = "open" /\ ~crowded) =>
            <>[](\E t \in Threads : lcfd[t] = c /\ Kept(t))
====
