---- MODULE Lifecycle ----
(***************************************************************************)
(* The life of mjpg_streamer: main loads the input and output plugins, has *)
(* each start its thread, and waits; SIGINT runs signal_handler on top of  *)
(* main, which sets stop, cancels the threads the plugins started,         *)
(* destroys the mutexes and condition variables, unloads the plugins and   *)
(* exits. The threads an HTTP server started for its clients are nobody's: *)
(* they are detached, and nothing cancels them.                            *)
(*                                                                         *)
(* The inputs are cameras of input_uvc, which keeps a thread's handle with *)
(* its input. An output is an HTTP server or a worker, and the workers of  *)
(* one plugin share its static variables: the handle of the thread that    *)
(* was started last, the number of the input and the frame a picture is    *)
(* copied to, which an HTTP client's command has filled too ("file").      *)
(*                                                                         *)
(* What is left to the C library is taken from glibc: pthread_cond_destroy *)
(* blocks while a thread waits, a destroyed mutex lets everybody in, and   *)
(* cancelling a detached thread that has ended has no effect.              *)
(***************************************************************************)
EXTENDS Integers

CONSTANTS
    NIn, NOut,   \* global.incnt and global.outcnt
    Clients,     \* HTTP clients served at the same time
    Cam,         \* stands for the thread of an input, as a mutex's holder
    NoThread

Inputs    == 1..NIn
Outputs   == 1..NOut
Consumers == Outputs \cup Clients

ASSUME LifecycleAssumption ==
    /\ NIn \in Nat \ {0}
    /\ NOut \in Nat \ {0}
    /\ Clients \cap Outputs = {}
    /\ {Cam, NoThread} \cap Consumers = {}
    /\ Cam # NoThread

VARIABLES
    kind,       \* what each output is: an HTTP server, or a worker that waits
    started,    \* how many of its steps main has done
    stop,       \* global.stop
    handler,    \* where signal_handler is
    cam,        \* where the thread of each input is
    th,         \* where each consumer is, in whose library, on which input
    cancelled,  \* inputs and outputs whose thread a stop function cancelled
    holder,     \* who holds in[].db
    destroyed,  \* inputs whose mutex is destroyed
    unloaded,   \* outputs whose library is unmapped
    over,       \* how the process ended
    slow,       \* cancelled threads that the second sleep was too short for
    culprit     \* what it died of, and the thread that did

camVars     == <<cam, holder>>
handlerVars == <<stop, handler, destroyed, unloaded, slow>>
vars == <<kind, started, handlerVars, camVars, th, cancelled, over, culprit>>

\* "file" stands for output_file and output_zmqserver, which take a picture for a
\* client, "udp" for a worker that does not.
Kinds == {"server", "file", "udp"}
HandlerSteps == {"off", "sleep", "stopIn", "stopOut", "cond", "mutex",
                 "sleepAgain", "closeIn", "closeOut", "exit"}
CamSteps == {"none", "test", "grab", "lock", "hold", "clean", "gone"}
ConsumerSteps == {"none", "accept", "test", "lock", "take", "wait", "woken", "reclaim",
                  "hold", "write", "clean", "ended"}
Absent == [at |-> "none", lib |-> {}, in |-> 1, once |-> FALSE]

\* main loads the inputs, loads the outputs, runs the inputs, runs the outputs.
AllStarted == 2 * (NIn + NOut)

TypeOK ==
    /\ kind \in [Outputs -> Kinds]
    /\ started \in 0..AllStarted
    /\ stop \in BOOLEAN
    /\ handler \in [at : HandlerSteps, n : 0..(NIn + NOut + 1)]
    /\ cam \in [Inputs -> CamSteps]
    /\ th \in [Consumers -> [at : ConsumerSteps, lib : SUBSET Outputs, in : Inputs, once : BOOLEAN]]
    /\ cancelled \in [in : SUBSET Inputs, out : SUBSET Outputs]
    /\ holder \in [Inputs -> Consumers \cup {Cam, NoThread}]
    /\ destroyed \subseteq Inputs
    /\ unloaded \subseteq Outputs
    /\ over \in {"no", "exited", "crashed"}
    /\ slow \in [in : SUBSET Inputs, out : SUBSET Outputs]
    /\ culprit \in [of : {"nothing", "early", "unmapped", "input", "buffer", "frame"},
                    who : Consumers \cup {NoThread}]

Off == [at |-> "off", n |-> 0]

Init ==
    /\ kind \in [Outputs -> Kinds]
    /\ started = 0
    /\ stop = FALSE
    /\ handler = Off
    /\ cam = [i \in Inputs |-> "none"]
    /\ th = [t \in Consumers |-> IF t \in Outputs THEN [Absent EXCEPT !.lib = {t}] ELSE Absent]
    /\ cancelled = [in |-> {}, out |-> {}]
    /\ holder = [i \in Inputs |-> NoThread]
    /\ destroyed = {}
    /\ unloaded = {}
    /\ over = "no"
    /\ slow = [in |-> {}, out |-> {}]
    /\ culprit = [of |-> "nothing", who |-> NoThread]

Crash(of, who) ==
    /\ over = "no"
    /\ over' = "crashed"
    /\ culprit' = [of |-> of, who |-> who]
    /\ UNCHANGED <<kind, started, handlerVars, camVars, th, cancelled>>

-----------------------------------------------------------------------------
(* main                                                                    *)

InLoaded(i)  == started >= i
OutLoaded(k) == started >= NIn + k
InRan(i)     == started >= NIn + NOut + i
OutRan(k)    == started >= 2 * NIn + NOut + k

SamePlugin(k) == {m \in Outputs : kind[m] = kind[k]}

\* The next step of main: load a plugin and call its init, or have it start its
\* thread. The workers of a plugin read one input. While the signal handler runs,
\* main does not.
MainStep ==
    LET in  == started + 1 - (NIn + NOut)
        out == started + 1 - (2 * NIn + NOut)
    IN /\ over = "no"
       /\ handler = Off
       /\ started < AllStarted
       /\ started' = started + 1
       /\ cam' = IF in \in Inputs THEN [cam EXCEPT ![in] = "test"] ELSE cam
       /\ IF out \in Outputs
          THEN \E i \in Inputs :
              /\ kind[out] # "server" =>
                   \A k \in SamePlugin(out) : OutRan(k) => th[k].in = i
              /\ th' = [th EXCEPT ![out].at = IF kind[out] = "server" THEN "accept" ELSE "test",
                               ![out].in = i]
          ELSE UNCHANGED th
       /\ UNCHANGED <<kind, handlerVars, holder, cancelled, over, culprit>>

\* A plugin is not found, its init fails, or an input does not start: the program
\* exits at once. Whether an output starts is not looked at.
MainFails ==
    /\ over = "no"
    /\ handler = Off
    /\ started < 2 * NIn + NOut
    /\ over' = "exited"
    /\ UNCHANGED <<kind, started, handlerVars, camVars, th, cancelled, culprit>>

-----------------------------------------------------------------------------
(* The threads.                                                            *)

\* in[].db is free for the taking, or destroyed.
Enterable(i) == holder[i] = NoThread \/ i \in destroyed
Entered(i, t) == IF i \in destroyed THEN holder ELSE [holder EXCEPT ![i] = t]
Left(i, t) == IF holder[i] = t THEN [holder EXCEPT ![i] = NoThread] ELSE holder

\* CloseIn is done: no thread of an input has its code any more.
InputsUnmapped == handler.at \in {"closeOut", "exit"}

CamGoto(i, from, to) ==
    /\ over = "no"
    /\ ~InputsUnmapped
    /\ cam[i] = from
    /\ cam' = [cam EXCEPT ![i] = to]
    /\ UNCHANGED <<kind, started, handlerVars, cancelled, over, culprit>>

\* while(!pglobal->stop)
CamTest(i) ==
    /\ CamGoto(i, "test", IF stop THEN "clean" ELSE "grab")
    /\ UNCHANGED <<holder, th>>

\* select and uvcGrab: a picture; or an error, a timeout or the cancellation, which
\* end in cam_cleanup.
CamGrab(i) ==
    /\ \/ i \notin cancelled.in /\ CamGoto(i, "grab", "lock")
       \/ CamGoto(i, "grab", "clean")
    /\ UNCHANGED <<holder, th>>

CamLock(i) ==
    /\ Enterable(i)
    /\ CamGoto(i, "lock", "hold")
    /\ holder' = Entered(i, Cam)
    /\ UNCHANGED th

\* The picture is in buf: broadcast and unlock.
CamPublish(i) ==
    /\ CamGoto(i, "hold", "test")
    /\ holder' = Left(i, Cam)
    /\ th' = [t \in Consumers |-> IF th[t].at = "wait" /\ th[t].in = i
                                  THEN [th[t] EXCEPT !.at = "woken"] ELSE th[t]]

\* cam_cleanup frees in->buf and sets in->size to 0, without the mutex.
CamCleanup(i) ==
    /\ CamGoto(i, "clean", "gone")
    /\ UNCHANGED <<holder, th>>

\* A consumer that is copying the picture goes on in memory that was freed.
FreedInCopy(i) ==
    /\ cam[i] = "clean"
    /\ ~InputsUnmapped
    /\ \E t \in Consumers :
         th[t].at = "hold" /\ th[t].in = i /\ Crash("buffer", t)

CamUnmapped(i) ==
    /\ InputsUnmapped
    /\ cam[i] \in {"test", "grab", "hold", "clean"} \/ (cam[i] = "lock" /\ Enterable(i))
    /\ Crash("input", NoThread)

CamNext(i) == CamTest(i) \/ CamGrab(i) \/ CamLock(i) \/ CamPublish(i) \/ CamCleanup(i)

Loaded(t) == th[t].lib \cap unloaded = {}

Cancelled(t) == t \in cancelled.out

\* A step of a thread whose code is still there.
Goto(t, from, to) ==
    /\ over = "no"
    /\ Loaded(t)
    /\ th[t].at = from
    /\ th' = [th EXCEPT ![t].at = to]
    /\ UNCHANGED <<kind, started, handlerVars, cam, cancelled, over, culprit>>

\* A client connects to a running server: the server thread leaves select, starts
\* a thread for the client and tests stop again.
Accept(k, c) ==
    /\ over = "no"
    /\ kind[k] = "server"
    /\ th[k].at = "accept"
    /\ ~Cancelled(k)
    /\ Loaded(k)
    /\ th[c].at = "none"
    /\ \E i \in Inputs, snapshot \in BOOLEAN :
         th' = [th EXCEPT ![k].at = IF stop THEN "clean" ELSE "accept",
                          ![c] = [at |-> IF snapshot THEN "lock" ELSE "test",
                                  lib |-> {k}, in |-> i, once |-> snapshot]]
    /\ UNCHANGED <<kind, started, handlerVars, camVars, cancelled, over, culprit>>

\* The client's command is a picture for a file: output_cmd of the worker's plugin.
Command(c, m) ==
    /\ over = "no"
    /\ c \in Clients
    /\ Loaded(c)
    /\ th[c].at = "lock" /\ th[c].once
    /\ kind[m] = "file" /\ OutLoaded(m)
    /\ \E i \in Inputs :
         /\ \A k \in SamePlugin(m) : OutRan(k) => th[k].in = i
         /\ th' = [th EXCEPT ![c].at = "take", ![c].lib = @ \cup {m}, ![c].in = i]
    /\ UNCHANGED <<kind, started, handlerVars, camVars, cancelled, over, culprit>>

\* A client thread ends without a cleanup handler, a worker with one.
Done(t) == IF t \in Clients THEN "none" ELSE "clean"

LoopTest(t) ==
    /\ Goto(t, "test", IF stop THEN Done(t) ELSE "lock")
    /\ UNCHANGED holder

\* pthread_mutex_lock and pthread_cond_wait, which returns at once on a mutex that
\* is not locked.
Lock(t) ==
    /\ Enterable(th[t].in)
    /\ Goto(t, "lock", IF th[t].in \in destroyed THEN "hold" ELSE "wait")
    /\ UNCHANGED holder

\* A take copies the picture there is. It is refused when the lock fails.
Take(t) ==
    /\ Enterable(th[t].in)
    /\ Goto(t, "take", IF th[t].in \in destroyed THEN "none" ELSE "hold")
    /\ holder' = Entered(th[t].in, t)

\* mutant: the picture is written before the mutex is given back
UnlockLate(t) ==
    /\ Goto(t, "hold", "write")
    /\ UNCHANGED holder

\* A broadcast has ended the wait: the mutex is taken again, the picture copied.
Wake(t) ==
    /\ Enterable(th[t].in)
    /\ Goto(t, "woken", "hold")
    /\ holder' = Entered(th[t].in, t)

Unlock(t) ==
    /\ Goto(t, "hold", "write")
    /\ holder' = Left(th[t].in, t)

\* The picture goes to the file or the socket. A worker may fail, and returns
\* without its cleanup handler.
Write(t) ==
    /\ \/ ~th[t].once /\ Goto(t, "write", "test")
       \/ Goto(t, "write", IF t \in Clients THEN "none" ELSE "ended")
    /\ UNCHANGED holder

\* A cancelled thread leaves pthread_cond_wait only with the mutex, and its
\* cleanup handler does not give it back.
CancelWait(t) ==
    /\ Cancelled(t)
    /\ Goto(t, "wait", "reclaim")
    /\ UNCHANGED holder

Reclaim(t) ==
    /\ Enterable(th[t].in)
    /\ Goto(t, "reclaim", "clean")
    /\ holder' = Entered(th[t].in, t)

\* write and select are cancellation points as well.
CancelElsewhere(t) ==
    /\ Cancelled(t)
    /\ \E from \in {"accept", "write"} : Goto(t, from, "clean")
    /\ UNCHANGED holder

ThreadNext(t) ==
    \/ LoopTest(t) \/ Lock(t) \/ Take(t) \/ Wake(t) \/ Unlock(t) \/ Write(t)
    \/ CancelWait(t) \/ Reclaim(t) \/ CancelElsewhere(t)

\* The thread would run on in a library that is not there any more.
Unmapped(t) ==
    /\ ~Loaded(t)
    /\ \/ th[t].at \in {"test", "hold", "write", "accept"}
       \/ th[t].at \in {"lock", "take", "woken", "reclaim"} /\ Enterable(th[t].in)
    /\ Crash("unmapped", t)

\* A thread that fills or writes the frame of a plugin whose worker_cleanup has
\* freed it.
FreedFrame(t) ==
    /\ th[t].at \in {"hold", "write"}
    /\ \E k \in Outputs :
         /\ kind[k] # "server"
         /\ th[k].at = "clean"
         /\ th[t].lib \cap SamePlugin(k) # {}
    /\ Crash("frame", t)

-----------------------------------------------------------------------------
(* signal_handler                                                          *)

HandlerStep(from) ==
    /\ over = "no"
    /\ handler.at = from
    /\ UNCHANGED <<kind, started, camVars, th, culprit>>

Goon(at, n) == handler' = [at |-> at, n |-> n]

Signal ==
    /\ HandlerStep("off")
    /\ stop' = TRUE
    /\ Goon("sleep", 0)
    /\ UNCHANGED <<cancelled, destroyed, unloaded, slow, over>>

\* usleep of a second, in which the threads may or may not get far.
Sleep ==
    /\ HandlerStep("sleep")
    /\ Goon("stopIn", 1)
    /\ UNCHANGED <<stop, cancelled, destroyed, unloaded, slow, over>>

\* mutant: input_stop forgets its thread
StopInNothing ==
    /\ HandlerStep("stopIn")
    /\ handler.n \in Inputs => InRan(handler.n)
    /\ IF handler.n \in Inputs THEN Goon("stopIn", handler.n + 1) ELSE Goon("stopOut", 1)
    /\ UNCHANGED <<stop, cancelled, destroyed, unloaded, slow, over>>

\* The stop function of each input cancels its thread.
StopIn ==
    /\ HandlerStep("stopIn")
    /\ \/ /\ handler.n \in Inputs
          /\ InRan(handler.n)
          /\ cancelled' = [cancelled EXCEPT !.in = @ \cup {handler.n}]
          /\ Goon("stopIn", handler.n + 1)
       \/ /\ handler.n \notin Inputs
          /\ Goon("stopOut", 1)
          /\ UNCHANGED cancelled
    /\ UNCHANGED <<stop, destroyed, unloaded, slow, over>>

\* What output_stop of output k cancels: a server its own thread, a worker the one
\* its plugin started last.
Handle(k) ==
    {m \in SamePlugin(k) :
        /\ OutRan(m)
        /\ IF kind[k] = "server" THEN m = k ELSE \A n \in SamePlugin(k) : OutRan(n) => n <= m}

\* mutant: output_stop forgets its thread
StopOutNothing ==
    /\ HandlerStep("stopOut")
    /\ handler.n \in Outputs => OutRan(handler.n)
    /\ IF handler.n \in Outputs THEN Goon("cond", handler.n) ELSE Goon("sleepAgain", 0)
    /\ UNCHANGED <<stop, cancelled, destroyed, unloaded, slow, over>>

\* The stop function of each output, then the condition variable and the mutex of
\* the input with the output's number.
StopOut ==
    /\ HandlerStep("stopOut")
    /\ \/ /\ handler.n \in Outputs
          /\ OutLoaded(handler.n) /\ Handle(handler.n) # {}
          /\ cancelled' = [cancelled EXCEPT !.out = @ \cup Handle(handler.n)]
          /\ Goon("cond", handler.n)
       \/ /\ handler.n \notin Outputs
          /\ Goon("sleepAgain", 0)
          /\ UNCHANGED cancelled
    /\ UNCHANGED <<stop, destroyed, unloaded, slow, over>>

\* The program is being started: the stop function is a null pointer, or it
\* cancels a thread that does not exist.
StopTooEarly ==
    /\ \/ handler.at = "stopIn"  /\ handler.n \in Inputs /\ ~InRan(handler.n)
       \/ /\ handler.at = "stopOut" /\ handler.n \in Outputs
          /\ ~OutLoaded(handler.n) \/ Handle(handler.n) = {}
    /\ Crash("early", NoThread)

WaitsOn(i) == {t \in Consumers : th[t].at = "wait" /\ th[t].in = i}

DestroyCond ==
    /\ HandlerStep("cond")
    /\ handler.n \in Inputs => WaitsOn(handler.n) = {}
    /\ Goon("mutex", handler.n)
    /\ UNCHANGED <<stop, cancelled, destroyed, unloaded, slow, over>>

\* A mutex somebody holds is not destroyed (EBUSY).
DestroyMutex ==
    /\ HandlerStep("mutex")
    /\ destroyed' = IF handler.n \in Inputs /\ holder[handler.n] = NoThread
                    THEN destroyed \cup {handler.n} ELSE destroyed
    /\ Goon("stopOut", handler.n + 1)
    /\ UNCHANGED <<stop, cancelled, unloaded, slow, over>>

\* A cancelled worker has ended with the mutex in its hands.
TakenAlong(i) == i \notin destroyed /\ holder[i] \in Outputs /\ th[holder[i]].at = "clean"

\* A thread has ended, or is held up by such a mutex.
AtRest(t) ==
    \/ th[t].at \in {"none", "clean", "ended"}
    \/ th[t].at \in {"lock", "woken", "reclaim"} /\ TakenAlong(th[t].in)

CamAtRest(i) == cam[i] \in {"none", "gone"} \/ (cam[i] = "lock" /\ TakenAlong(i))

\* usleep of another second, which may be too short for a cancelled thread.
SleepAgain ==
    /\ HandlerStep("sleepAgain")
    /\ slow' = [in  |-> {i \in cancelled.in : ~CamAtRest(i)},
                out |-> {k \in cancelled.out : ~AtRest(k)}]
    /\ Goon("closeIn", 1)
    /\ UNCHANGED <<stop, cancelled, destroyed, unloaded, over>>

\* The libraries of the inputs are closed, each as often as it was opened.
CloseIn ==
    /\ HandlerStep("closeIn")
    /\ Goon("closeOut", 1)
    /\ UNCHANGED <<stop, cancelled, destroyed, unloaded, slow, over>>

\* mutant: one dlclose for each output
CloseEvery ==
    /\ HandlerStep("closeOut")
    /\ \/ /\ handler.n \in Outputs
          /\ unloaded' = IF \A m \in SamePlugin(handler.n) : m <= handler.n
                         THEN unloaded \cup SamePlugin(handler.n) ELSE unloaded
          /\ Goon("closeOut", handler.n + 1)
       \/ /\ handler.n \notin Outputs
          /\ Goon("exit", 0)
          /\ UNCHANGED unloaded
    /\ UNCHANGED <<stop, cancelled, destroyed, slow, over>>

\* dlclose of each output, but of the last one only where two use one library:
\* that was opened twice, so it stays.
CloseOut ==
    /\ HandlerStep("closeOut")
    /\ \/ /\ handler.n \in Outputs
          /\ unloaded' = IF SamePlugin(handler.n) = {handler.n}
                         THEN unloaded \cup {handler.n} ELSE unloaded
          /\ Goon("closeOut", handler.n + 1)
       \/ /\ handler.n \notin Outputs
          /\ Goon("exit", 0)
          /\ UNCHANGED unloaded
    /\ UNCHANGED <<stop, cancelled, destroyed, slow, over>>

Exit ==
    /\ HandlerStep("exit")
    /\ over' = "exited"
    /\ UNCHANGED <<stop, handler, cancelled, destroyed, unloaded, slow>>

HandlerNext ==
    \/ Sleep \/ StopIn \/ StopOut \/ StopTooEarly \/ DestroyCond \/ DestroyMutex
    \/ SleepAgain \/ CloseIn \/ CloseOut \/ Exit

Next ==
    \/ MainStep \/ MainFails \/ Signal \/ HandlerNext
    \/ \E i \in Inputs : CamNext(i) \/ FreedInCopy(i) \/ CamUnmapped(i)
    \/ \E k \in Outputs, c \in Clients : Accept(k, c) \/ Command(c, k)
    \/ \E t \in Consumers : ThreadNext(t) \/ Unmapped(t) \/ FreedFrame(t)

Spec == Init /\ [][Next]_vars

\* The handler and the camera threads run when they can, and a camera thread that
\* keeps finding the mutex free gets it; who has the mutex gives it back, and who
\* is cancelled in its wait notices. Nothing more is asked of workers and clients,
\* who may take for ever to write their picture.
FairSpec ==
    /\ Spec
    /\ WF_vars(HandlerNext)
    /\ \A i \in Inputs : WF_vars(CamNext(i)) /\ SF_vars(CamLock(i))
    /\ \A t \in Consumers : WF_vars(Unlock(t) \/ CancelWait(t))

-----------------------------------------------------------------------------
\* A thread that is not cancelled waits for a picture of an input that sends none
\* any more.
Hanging ==
    /\ handler.at = "cond"
    /\ handler.n \in Inputs
    /\ CamAtRest(handler.n)
    /\ \E t \in WaitsOn(handler.n) : ~Cancelled(t)

\* CTRL+C ends the program, with one exception: pthread_cond_destroy never comes
\* back when a thread has begun to wait for a picture that the camera thread, told
\* to stop, did not take any more, and nothing has cancelled it: the thread of an
\* HTTP client, the worker of a later output, or one that shares its handle with
\* the worker its plugin started last.
SignalEnds == stop ~> over # "no" \/ Hanging

\* What the program can die of as its threads end:
\*   - a signal that comes before main has started everything;
\*   - cam_cleanup, which frees in->buf under a thread that is copying it;
\*   - worker_cleanup, which frees the frame of its plugin while a client's command
\*     or another worker of that plugin uses it, but only once stop is set;
\*   - an unloaded library, in which only the thread of a client goes on, or one
\*     that was cancelled and has had the second sleep to come to its end. Never a
\*     thread that nothing cancelled: then the library stays.
\* And the variables have their types.
DiesOnlyOf ==
    /\ TypeOK
    /\ over = "crashed" =>
         \/ culprit.of = "early" /\ started < AllStarted
         \/ culprit.of = "buffer"
         \/ /\ culprit.of = "frame" /\ stop
            /\ culprit.who \in Clients \/ SamePlugin(culprit.who) # {culprit.who}
         \/ culprit.of = "unmapped" /\ culprit.who \in Clients \cup slow.out
         \/ culprit.of = "input" /\ slow.in # {}

\* signal_handler destroys the mutexes while threads run. As long as a mutex is
\* there, one thread at a time is at the picture, and only a worker cancelled while
\* it waited keeps the mutex beyond that (worker_cleanup does not give it back):
\* no other end of a thread leaves it locked.
OneAtThePicture ==
    \A i \in Inputs \ destroyed :
        /\ cam[i] = "hold" <=> holder[i] = Cam
        /\ \A t \in Consumers :
             /\ th[t].at = "hold" /\ th[t].in = i => holder[i] = t
             /\ holder[i] = t => \/ th[t].at = "hold" /\ th[t].in = i
                                 \/ th[t].at = "clean" /\ Cancelled(t)
====
