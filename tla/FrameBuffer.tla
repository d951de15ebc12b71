---- MODULE FrameBuffer ----
(***************************************************************************)
(* The picture buffer of one input plugin (struct _input in input.h: buf,  *)
(* size, timestamp, the mutex db and the condition variable db_update) and *)
(* the threads that share it: the camera thread of input_uvc, which fills  *)
(* it, and the consumers, which wait for a picture and copy it: the HTTP   *)
(* threads that run send_snapshot and send_stream, and the worker threads  *)
(* of the output plugins (output_file, output_udp, output_rtsp).           *)
(*                                                                         *)
(* A picture is the number of the driver buffer it was dequeued from. The  *)
(* fields buf, size and timestamp each hold the number of the picture they *)
(* belong to, so that a picture put together from two shows.               *)
(***************************************************************************)
EXTENDS Integers

CONSTANTS
    Snapshots,       \* HTTP threads that answer one ?action=snapshot each
    Streams,         \* HTTP threads that answer ?action=stream
    Workers,         \* worker threads of output plugins
    Cam, NoThread,   \* the camera thread; "the mutex is free"
    MaxGrabs,        \* bound: pictures beyond this one look like it
    Kinds,           \* what a driver buffer may hold, of AllKinds
    Every,           \* option -every_frame N, 1 when not given
    FramePeriod,     \* option -softfps as a number of pictures, 0 when off
    DropSmall,       \* option -minimum_size given
    WantTimestamp,   \* option -timestamp given
    EmptyBuffers,    \* the driver may hand out an empty buffer
    SpuriousWakeups  \* pthread_cond_wait may return without a broadcast

Loopers   == Streams \cup Workers
Clients   == Snapshots \cup Streams
Consumers == Snapshots \cup Loopers
Threads   == Consumers \cup {Cam}

\* What buf holds beside a picture: the memory input_run allocated, never
\* written; memory that was freed; the NULL that follows.
Unwritten == 0
Freed     == -1
NullBuf   == -2

\* What a dequeued buffer may hold: a picture; one smaller than minimum_size,
\* "assuming it as broken"; one without a start-of-frame marker.
AllKinds == {"jpeg", "small", "noSof"}
Nothing  == [size |-> 0, stamp |-> 0, buf |-> Unwritten]
ASSUME FrameBufferAssumption ==
    /\ Snapshots \cap Loopers = {}
    /\ Streams \cap Workers = {}
    /\ Cam \notin Consumers
    /\ NoThread \notin Threads
    /\ MaxGrabs \in Nat \ {0}
    /\ Kinds \subseteq AllKinds
    /\ Every \in Nat \ {0}
    /\ FramePeriod \in Nat
    /\ DropSmall \in BOOLEAN
    /\ WantTimestamp \in BOOLEAN
    /\ EmptyBuffers \in BOOLEAN
    /\ SpuriousWakeups \in BOOLEAN

NoTmp    == [id |-> 0, stamp |-> 0, kind |-> "noSof"]

VARIABLES
    stop,       \* pglobal->stop
    crashed,    \* the process died of a bad memory access
    holder,     \* who holds the mutex in->db
    db,         \* in->size, in->timestamp and what in->buf points to
    tmp,        \* videoIn->tmpbuffer with tmpbytesused and tmptimestamp
    grabs,      \* driver buffers dequeued so far, which is also the time
    everyCount, \* every_count
    camPc,      \* where the camera thread is
    pc,         \* where each consumer is
    frame,      \* each consumer's own copy
    asked       \* what buf held when the consumer began to wait (history)

camVars      == <<tmp, grabs, everyCount, camPc>>
consumerVars == <<pc, frame, asked>>
vars == <<stop, crashed, holder, db, camVars, consumerVars>>

TypeOK ==
    /\ stop \in BOOLEAN
    /\ crashed \in BOOLEAN
    /\ holder \in Threads \cup {NoThread}
    /\ db \in [size : 0..MaxGrabs, stamp : 0..MaxGrabs, buf : -2..MaxGrabs]
    /\ tmp \in [id : 0..MaxGrabs, stamp : 0..MaxGrabs, kind : AllKinds]
    /\ grabs \in 0..MaxGrabs
    /\ everyCount \in 0..(Every - 1)
    /\ camPc \in {"enable", "loop", "filter", "lock", "copy", "describe",
                  "broadcast", "unlock", "free", "null", "zero", "gone"}
    /\ pc \in [Consumers -> {"idle", "loop", "lock", "wait", "woken", "copy",
                             "unlock", "write", "ended"}]
    /\ frame \in [Consumers ->
                    [size : 0..MaxGrabs, stamp : 0..MaxGrabs, buf : -1..MaxGrabs]]
    /\ asked \in [Consumers -> -2..MaxGrabs]

Init ==
    /\ stop = FALSE
    /\ crashed = FALSE
    /\ holder = NoThread
    /\ db = Nothing
    /\ tmp = NoTmp
    /\ grabs = 0
    /\ everyCount = 0
    /\ camPc = "enable"
    /\ pc = [c \in Consumers |-> IF c \in Workers THEN "loop" ELSE "idle"]
    /\ frame = [c \in Consumers |-> Nothing]
    /\ asked = [c \in Consumers |-> Unwritten]

-----------------------------------------------------------------------------
(* The camera thread, cam_thread.                                          *)

\* Every step of a thread needs a live process.
CamStep(from, to) == ~crashed /\ camPc = from /\ camPc' = to

\* video_enable succeeds or not.
CamEnable ==
    /\ ~crashed
    /\ camPc = "enable"
    /\ camPc' \in {"loop", "free"}
    /\ UNCHANGED <<stop, crashed, holder, db, tmp, grabs, everyCount, consumerVars>>

\* The loop condition fails: while(!pglobal->stop).
CamStop ==
    /\ stop
    /\ CamStep("loop", "free")
    /\ UNCHANGED <<stop, crashed, holder, db, tmp, grabs, everyCount, consumerVars>>

\* select fails or times out, or uvcGrab cannot dequeue or requeue a buffer.
CamFail ==
    /\ ~stop
    /\ CamStep("loop", "free")
    /\ UNCHANGED <<stop, crashed, holder, db, tmp, grabs, everyCount, consumerVars>>

NextGrab == IF grabs < MaxGrabs THEN grabs + 1 ELSE grabs

\* mutant: uvcGrab copies vd->mem of another index than the dequeued one
CamGrabOtherMem(kind) ==
    /\ ~stop
    /\ CamStep("loop", "filter")
    /\ grabs' = NextGrab
    /\ \E i \in 1..NextGrab : tmp' = [id |-> i, stamp |-> i, kind |-> kind]
    /\ UNCHANGED <<stop, crashed, holder, db, everyCount, consumerVars>>

\* uvcGrab dequeues a buffer and copies it to tmpbuffer.
CamGrab(kind) ==
    /\ ~stop
    /\ CamStep("loop", "filter")
    /\ grabs' = NextGrab
    /\ tmp' = [id |-> NextGrab, stamp |-> NextGrab, kind |-> kind]
    /\ UNCHANGED <<stop, crashed, holder, db, everyCount, consumerVars>>

\* uvcGrab "ignores" a buffer of at most 0xaf bytes: it leaves tmpbuffer as it
\* was and returns 0 like any other grab.
CamGrabEmpty ==
    /\ EmptyBuffers
    /\ ~stop
    /\ CamStep("loop", "filter")
    /\ grabs' = NextGrab
    /\ UNCHANGED <<stop, crashed, holder, db, tmp, everyCount, consumerVars>>

Stamped == [tmp EXCEPT !.stamp = IF WantTimestamp THEN grabs ELSE @]

\* The soft frame drop: less than the frame period since the published stamp.
\* Nothing was published at stamp 0, which lies a long time back.
TooSoon == db.stamp # 0 /\ Stamped.stamp - db.stamp < FramePeriod

\* tmpbytesused is below minimum_size, as it is (0) before the first good grab.
TooSmall == DropSmall /\ (tmp.kind = "small" \/ tmp.id = 0)

\* mutant: every_count <= every - 1
CamFilterOffByOne ==
    /\ ~crashed
    /\ camPc = "filter"
    /\ \/ /\ everyCount <= Every - 1
          /\ everyCount' = everyCount + 1
          /\ camPc' = "loop"
          /\ UNCHANGED tmp
       \/ /\ everyCount > Every - 1
          /\ everyCount' = 0
          /\ tmp' = Stamped
          /\ camPc' = "lock"
    /\ UNCHANGED <<stop, crashed, holder, db, grabs, consumerVars>>

\* Frames dropped by -every_frame, -minimum_size and -softfps.
CamFilter ==
    /\ ~crashed
    /\ camPc = "filter"
    /\ \/ /\ everyCount < Every - 1
          /\ everyCount' = everyCount + 1
          /\ camPc' = "loop"
          /\ UNCHANGED tmp
       \/ /\ everyCount = Every - 1
          /\ everyCount' = 0
          /\ TooSmall
          /\ camPc' = "loop"
          /\ UNCHANGED tmp
       \/ /\ everyCount = Every - 1
          /\ everyCount' = 0
          /\ ~TooSmall
          /\ tmp' = Stamped
          /\ camPc' = IF TooSoon THEN "loop" ELSE "lock"
    /\ UNCHANGED <<stop, crashed, holder, db, grabs, consumerVars>>

\* mutant: the camera thread does not lock the mutex
CamLockMissing ==
    /\ CamStep("lock", "copy")
    /\ UNCHANGED <<stop, crashed, holder, db, tmp, grabs, everyCount, consumerVars>>

CamLock ==
    /\ holder = NoThread
    /\ holder' = Cam
    /\ CamStep("lock", "copy")
    /\ UNCHANGED <<stop, crashed, db, tmp, grabs, everyCount, consumerVars>>

\* memcpy_picture fills buf. It writes nothing and returns 0 when it finds no
\* start-of-frame marker.
CamCopy ==
    /\ CamStep("copy", "describe")
    /\ db' = IF tmp.kind = "noSof" THEN db ELSE [db EXCEPT !.buf = tmp.id]
    /\ UNCHANGED <<stop, crashed, holder, tmp, grabs, everyCount, consumerVars>>

\* size gets memcpy_picture's result, timestamp the picture's own.
CamDescribe ==
    /\ CamStep("describe", "broadcast")
    /\ db' = [db EXCEPT !.size  = IF tmp.kind = "noSof" THEN 0 ELSE tmp.id,
                        !.stamp = tmp.stamp]
    /\ UNCHANGED <<stop, crashed, holder, tmp, grabs, everyCount, consumerVars>>

Waiting == {c \in Consumers : pc[c] = "wait"}

\* mutant: pthread_cond_signal instead of pthread_cond_broadcast
CamSignal ==
    /\ CamStep("broadcast", "unlock")
    /\ \/ \E c \in Waiting : pc' = [pc EXCEPT ![c] = "woken"]
       \/ Waiting = {} /\ UNCHANGED pc
    /\ UNCHANGED <<stop, crashed, holder, db, tmp, grabs, everyCount, frame, asked>>

CamBroadcast ==
    /\ CamStep("broadcast", "unlock")
    /\ pc' = [c \in Consumers |-> IF c \in Waiting THEN "woken" ELSE pc[c]]
    /\ UNCHANGED <<stop, crashed, holder, db, tmp, grabs, everyCount, frame, asked>>

CamUnlock ==
    /\ CamStep("unlock", "loop")
    /\ holder' = NoThread
    /\ UNCHANGED <<stop, crashed, db, tmp, grabs, everyCount, consumerVars>>

\* cam_cleanup, after the loop or when the thread is cancelled in select: it
\* frees videoIn with its tmpbuffer, and buf, sets buf to NULL and size to 0,
\* without the mutex and without waking anybody.
CamFree ==
    /\ CamStep("free", "null")
    /\ db' = [db EXCEPT !.buf = Freed]
    /\ tmp' = NoTmp
    /\ everyCount' = 0
    /\ UNCHANGED <<stop, crashed, holder, grabs, consumerVars>>

CamNull ==
    /\ CamStep("null", "zero")
    /\ db' = [db EXCEPT !.buf = NullBuf]
    /\ UNCHANGED <<stop, crashed, holder, tmp, grabs, everyCount, consumerVars>>

CamZero ==
    /\ CamStep("zero", "gone")
    /\ db' = [db EXCEPT !.size = 0]
    /\ UNCHANGED <<stop, crashed, holder, tmp, grabs, everyCount, consumerVars>>

CamNext ==
    \/ CamEnable \/ CamStop \/ CamFail
    \/ \E kind \in Kinds : CamGrab(kind)
    \/ CamGrabEmpty \/ CamFilter
    \/ CamLock \/ CamCopy \/ CamDescribe \/ CamBroadcast \/ CamUnlock
    \/ CamFree \/ CamNull \/ CamZero

-----------------------------------------------------------------------------
(* The consumers.                                                          *)

Goto(c, from, to) == ~crashed /\ pc[c] = from /\ pc' = [pc EXCEPT ![c] = to]

\* Where a thread goes that returns: a client's number is used again for the
\* next connection, an output worker stays away.
Ended(c) == IF c \in Workers THEN "ended" ELSE "idle"

\* A connection asks for a snapshot or a stream. A stream's first write, of the
\* HTTP header, may fail, which ends the thread: nothing happened then.
Connect(c) ==
    /\ c \in Clients
    /\ Goto(c, "idle", IF c \in Streams THEN "loop" ELSE "lock")
    /\ frame' = [frame EXCEPT ![c] = Nothing]
    /\ UNCHANGED <<stop, crashed, holder, db, camVars, asked>>

\* while(!pglobal->stop) of send_stream and of the workers.
LoopTest(c) ==
    /\ c \in Loopers
    /\ Goto(c, "loop", IF stop THEN Ended(c) ELSE "lock")
    /\ UNCHANGED <<stop, crashed, holder, db, camVars, frame, asked>>

\* mutant: the picture is copied without waiting for the next one
NoWait(c) ==
    /\ holder = NoThread
    /\ Goto(c, "lock", "woken")
    /\ asked' = [asked EXCEPT ![c] = db.buf]
    /\ UNCHANGED <<stop, crashed, holder, db, camVars, frame>>

\* pthread_mutex_lock, and pthread_cond_wait, which gives the mutex back as it
\* begins to wait.
BeginWait(c) ==
    /\ holder = NoThread
    /\ Goto(c, "lock", "wait")
    /\ asked' = [asked EXCEPT ![c] = db.buf]
    /\ UNCHANGED <<stop, crashed, holder, db, camVars, frame>>

\* pthread_cond_wait returns with no broadcast: no loop re-tests anything.
Spurious(c) ==
    /\ SpuriousWakeups
    /\ Goto(c, "wait", "woken")
    /\ UNCHANGED <<stop, crashed, holder, db, camVars, frame, asked>>

\* pthread_cond_wait has the mutex again and returns; size is read.
Wake(c) ==
    /\ holder = NoThread
    /\ holder' = c
    /\ Goto(c, "woken", "copy")
    /\ frame' = [frame EXCEPT ![c].size = db.size]
    /\ UNCHANGED <<stop, crashed, db, camVars, asked>>

\* mutant: the error path forgets to unlock
NoMemoryKeepsLock(c) ==
    /\ Goto(c, "copy", Ended(c))
    /\ UNCHANGED <<stop, crashed, holder, db, camVars, frame, asked>>

\* malloc or realloc finds no memory: unlock, report, return.
NoMemory(c) ==
    /\ Goto(c, "copy", Ended(c))
    /\ holder' = NoThread
    /\ asked' = [asked EXCEPT ![c] = Unwritten]
    /\ UNCHANGED <<stop, crashed, db, camVars, frame>>

\* timestamp is copied (the workers ignore it), then size bytes from buf.
CopyPicture(c) ==
    /\ Goto(c, "copy", "unlock")
    /\ frame[c].size # 0 => db.buf # NullBuf
    /\ frame' = [frame EXCEPT ![c].stamp = IF c \in Workers THEN @ ELSE db.stamp,
                              ![c].buf = IF frame[c].size = 0 THEN @ ELSE db.buf]
    /\ UNCHANGED <<stop, crashed, holder, db, camVars, asked>>

\* Copying from a freed or a NULL buf may kill the process.
CopyCrash(c) ==
    /\ ~crashed
    /\ pc[c] = "copy"
    /\ frame[c].size # 0
    /\ db.buf \in {Freed, NullBuf}
    /\ crashed' = TRUE
    /\ UNCHANGED <<stop, holder, db, camVars, consumerVars>>

Unlock(c) ==
    /\ Goto(c, "unlock", "write")
    /\ holder' = NoThread
    /\ UNCHANGED <<stop, crashed, db, camVars, frame, asked>>

\* The picture is written to the socket or file. A failed write ends a stream
\* and a worker; a snapshot thread ends either way.
Write(c) ==
    /\ ~crashed
    /\ pc[c] = "write"
    /\ \/ c \in Loopers /\ pc' = [pc EXCEPT ![c] = "loop"]
       \/ pc' = [pc EXCEPT ![c] = Ended(c)]
    /\ asked' = [asked EXCEPT ![c] = Unwritten]
    /\ UNCHANGED <<stop, crashed, holder, db, camVars, frame>>

Serving(c) ==
    \/ LoopTest(c) \/ BeginWait(c) \/ Wake(c) \/ CopyPicture(c) \/ CopyCrash(c)
    \/ Unlock(c) \/ Write(c)

ConsumerNext(c) == Connect(c) \/ Serving(c) \/ Spurious(c) \/ NoMemory(c)

\* SIGINT: signal_handler sets global.stop.
Stop ==
    /\ ~crashed
    /\ ~stop
    /\ stop' = TRUE
    /\ UNCHANGED <<crashed, holder, db, camVars, consumerVars>>

Next ==
    \/ CamNext
    \/ Stop
    \/ \E c \in Consumers : ConsumerNext(c)

Spec == Init /\ [][Next]_vars

-----------------------------------------------------------------------------
(* What a consumer was handed.                                             *)

HasCopy(c) == pc[c] \in {"unlock", "write"}

\* The camera thread has left its loop.
CamLeaving == camPc \in {"free", "null", "zero", "gone"}

StampFits(c) ==
    \/ c \in Workers
    \/ frame[c].stamp = frame[c].buf
    \/ WantTimestamp /\ frame[c].stamp > frame[c].buf

Whole(c) ==
    \/ frame[c].size = 0
    \/ frame[c].size = frame[c].buf /\ StampFits(c)

\* No consumer is handed a picture put together from two: the bytes, the length
\* and the X-Timestamp of what it copied under in->db belong to one picture
\* unless the camera thread has left its loop, for cam_cleanup takes no mutex.
WholePicture == \A c \in Consumers : HasCopy(c) => Whole(c) \/ CamLeaving

\* "wait for a fresh frame" (httpd.c): what a consumer is handed was not in the
\* buffer when it began to wait. (The picture numbered MaxGrabs stands for all
\* later ones.)
FreshFrame ==
    \A c \in Consumers :
        HasCopy(c) /\ ~CamLeaving /\ frame[c].size # 0 /\ asked[c] < MaxGrabs
            => frame[c].buf > asked[c]

\* A stream or an output worker is never handed an older picture than the one
\* before: woken late, it may skip pictures but does not go back.
NeverGoesBack ==
    [][\A c \in Loopers :
         HasCopy(c)' /\ ~CamLeaving' /\ ~HasCopy(c) => frame'[c].buf >= frame[c].buf]_vars

-----------------------------------------------------------------------------
(* The buffer implements FrameFeed for the HTTP threads. A picture counts  *)
(* as published from the first byte the camera thread writes, because the  *)
(* mutex hides the rest; a thread counts as served when its copy is done.  *)

TmpSize == IF tmp.kind = "noSof" THEN 0 ELSE tmp.id

FeedLatest ==
    IF CamLeaving THEN [n |-> 0, body |-> 0]
    ELSE IF camPc = "describe" THEN [n |-> tmp.stamp, body |-> TmpSize]
    ELSE [n |-> db.stamp, body |-> db.size]

FeedState(c) ==
    IF HasCopy(c) THEN "served"
    ELSE IF pc[c] \in {"woken", "copy"} THEN "ready"
    ELSE IF pc[c] # "wait" THEN "away"
    ELSE IF camPc \in {"describe", "broadcast"} THEN "ready" ELSE "asking"

Torn == -1

FeedAnswer(c) ==
    IF HasCopy(c)
    THEN [n    |-> frame[c].stamp,
          body |-> IF frame[c].size \in {0, frame[c].buf} THEN frame[c].size ELSE Torn]
    ELSE [n |-> 0, body |-> 0]

Feed == INSTANCE FrameFeed WITH
    Readers <- Clients,
    Last    <- MaxGrabs,
    open    <- ~CamLeaving,
    latest  <- FeedLatest,
    state   <- [c \in Clients |-> FeedState(c)],
    answer  <- [c \in Clients |-> FeedAnswer(c)]

\* While the camera runs and hands out no empty buffers, a snapshot or stream
\* thread that waits is handed one whole picture, the latest, published after it
\* began to wait (send_snapshot and send_stream against cam_thread).
ImplementsFeed == Feed!FeedSpec

-----------------------------------------------------------------------------
(* Fairness. A thread that can take a step takes it, and a thread that keeps *)
(* finding the mutex free at times gets it. The camera delivers: as long as  *)
(* the camera thread stays in its loop it keeps dequeuing good pictures.     *)
(* Nobody is obliged to connect, to stop the process, or to fail.            *)

CamFairness ==
    /\ WF_vars(CamEnable)
    /\ WF_vars(CamStop)
    /\ SF_vars(CamGrab("jpeg"))
    /\ WF_vars(CamFilter)
    /\ SF_vars(CamLock)
    /\ WF_vars(CamCopy \/ CamDescribe \/ CamBroadcast \/ CamUnlock)
    /\ WF_vars(CamFree \/ CamNull \/ CamZero)

ConsumerFairness(c) ==
    /\ SF_vars(BeginWait(c) \/ Wake(c))
    /\ WF_vars(Serving(c))

FairSpec == Spec /\ CamFairness /\ \A c \in Consumers : ConsumerFairness(c)

\* Every request is answered: a consumer that has locked the buffer to wait for
\* a picture comes to the end of its copy, or its memory runs out, unless the
\* camera thread leaves its loop first.
RequestAnswered ==
    \A c \in Consumers : pc[c] \in {"lock", "wait"} ~> (HasCopy(c) \/ pc[c] \in {"idle", "ended"} \/ CamLeaving)
====
