---- MODULE Pipeline ----
(***************************************************************************)
(* One input plugin with a thread of its own and one output plugin, of any *)
(* two kinds, around the picture they share.                               *)
(***************************************************************************)
EXTENDS Inputs, Outputs

CONSTANT Pairs   \* which input goes with which output

ASSUME PipelineAssumption == Pairs \subseteq InputKinds \X OutputKinds

vars == <<sharedVars, inputVars, outputVars>>

Init ==
    /\ SharedInit
    /\ \E p \in Pairs : InputInit(p[1]) /\ OutputInit(p[2])

ByInput(A)  == A /\ UNCHANGED outputVars
ByOutput(A) == A /\ UNCHANGED inputVars

Next ==
    \/ ByInput(InputNext)
    \/ ByOutput(OutputNext)
    \/ Stop /\ UNCHANGED <<inputVars, outputVars>>

Spec == Init /\ [][Next]_vars

\* The input thread goes on, the zoom and the worker likewise: a thread that can
\* take a step takes it and gets a mutex that keeps coming free. input_file finds
\* files to serve and input_opencv its frames. Nobody need send a datagram, ask
\* for a take or a zoom, or fail.
InputMoves  == Test \/ Fetching \/ LockPicture \/ Filling \/ GiveUp \/ Publish \/ FreeList \/ Clean
WorkerMoves == \/ WorkTest \/ WorkStops \/ Await \/ Woken \/ Grow \/ Fits \/ Copy \/ Use \/ Pack
               \/ \E sv \in Sharpness : Judge(sv)
Fairness ==
    /\ SF_vars(ByInput(InputMoves))
    /\ SF_vars(ByInput(Fetch))
    /\ SF_vars(ByInput(ZoomLock \/ ZoomDone))
    /\ SF_vars(ByOutput(WorkerMoves))

FairSpec == Spec /\ Fairness

-----------------------------------------------------------------------------
TypeOK == SharedTypeOK /\ InputTypeOK /\ OutputTypeOK

InputEnded == at \in {"quit", "clean", "gone"}

\* The mutex in->db is left locked for ever only by an input_file that found no
\* memory for the file, by an input_ptp2 that met an error of its camera or gave
\* up, by a thread that was cancelled in the middle, at shutdown, and by a worker
\* cancelled while it waited; no other way out of a loop keeps it. And the
\* variables have their types.
LeftLocked ==
    /\ TypeOK
    /\ InputEnded /\ holder = "input" =>
         \/ cause = "cancelled" /\ input \in Files \cup {"ptp2"}
         \/ cause = "noMemory"
         \/ cause \in {"library", "gaveUp"} /\ input = "ptp2"
    /\ work = "ended" /\ holder = "worker" => stop

\* No copy meets bad memory but in these ways: the input thread has freed the
\* picture at its end; input_file's end frees a pointer it never set; a fixed
\* buffer of the viewer or the autofocus is too small, or one of zmq's was made
\* before max_frame_size grew; a take has worked on zmq's frame; or zmq was told to
\* put no picture in a package or more than frames[] has room for, found no memory
\* for the serialised package, or its pictures come so close to max_frame_size
\* that their headers do not fit. The worker of output_udp and output_rtsp never
\* overruns its frame.
MemoryErrors ==
    \/ died = "no"
    \/ died = "picture" /\ at = "gone"
    \/ died = "list" /\ input = "newFiles" /\ at = "quit"
    \/ died = "overrun" /\ output \in {"viewer", "autofocus"} /\ size > FixedRoom
    \/ died = "overrun" /\ output = "zmq" /\ block[frame].room < maxFrame
    \/ died = "stale" /\ output = "zmq" /\ take.left < MaxTakes
    \/ died = "ring" /\ output = "zmq" /\ package.n \notin Slots
    \/ died = "null" /\ output = "zmq" /\ package.buf = NoBuf
    \/ died = "long" /\ output = "zmq"
                        /\ PackedSize(package.n, blob) > BufferSize(package.n, package.buf)

Newer(a, b) == a > b \/ (a = Last /\ b = Last)

\* A datagram is answered with a picture that was published after it came, and a
\* package of zmq holds, in the order they were published, pictures that are
\* whole, each newer than the one before, as long as no take has written into
\* them since the package was begun, and none has ever grown the frame or failed
\* to: what is in the slots is another story from then on.
InOrder ==
    /\ output = "udp" /\ work = "use" => Newer(copied, asked)
    /\ output = "zmq" /\ work = "use" /\ takes = {} =>
         /\ size = 0 \/ (block[pos].n = copied /\ block[pos].size = size)
         /\ \A i \in 1..(pos - 1) :
              /\ blob[i] \in {0, block[i].size}
              /\ size = 0 \/ blob[i] = 0 \/ Newer(block[pos].n, block[i].n)

\* When a search of output_autofocus ends, the focus it keeps is the one at which
\* the sharpest picture of that search was seen, the first of equals, with the
\* focus and sharpness a first search starts from counting as seen.
BestFocus == output = "autofocus" /\ ~focus.search => focus.now = seen.focus

\* A worker that waits is handed a picture as long as the input thread keeps to
\* its loop, and an HTTP thread that sets the zoom of input_ptp2 returns unless
\* the thread has ended with control_mutex held, or a worker was cancelled at
\* shutdown as it waited.
Served ==
    /\ work \in {"lock", "wait"} ~> (work \notin {"lock", "wait"} \/ InputEnded \/ ~Alive)
    /\ zoom # "idle" ~> (zoom = "idle" \/ (InputEnded /\ control = "input")
                    \/ (work = "ended" /\ holder = "worker") \/ ~Alive)
====
