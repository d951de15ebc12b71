---- MODULE Outputs ----
(***************************************************************************)
(* The output plugins whose worker waits for a picture and copies it:      *)
(* output_udp (output_rtsp has the same worker), which saves one picture   *)
(* for each datagram; output_zmqserver, which sends packages of several    *)
(* pictures and has a command "take"; output_viewer, which shows them; and *)
(* output_autofocus, which judges how sharp they are.                      *)
(***************************************************************************)
EXTENDS SharedPicture, FiniteSets, Functions

CONSTANTS
    NSlots,      \* MAX_ZMQ_BUFFER_SIZE, the length of frames[]
    Packages,    \* what the option for zmqBufferSize may be
    Headroom,    \* 1 << 16, what max_frame_size is more than the frame
    Header,      \* what protobuf adds to a picture
    Spare,       \* 20, what buf has beyond max_frame_size for each picture
    FixedRoom,   \* what the viewer and the autofocus allocate once
    Sharpness,   \* what getFrameSharpnessValue may return
    FocusTop,    \* 255
    FocusStep,   \* step
    MaxTakes     \* bound: takes

FirstSharpness == 100
FirstFocus     == 100
Delta          == 500

ASSUME OutputsAssumption ==
    /\ NSlots \in Nat \ {0}
    /\ Packages \subseteq Nat /\ Packages # {}
    /\ Headroom \in Nat /\ Header \in Nat /\ Spare \in Nat
    /\ FixedRoom \in Nat
    /\ Sharpness \subseteq Nat \cup {-1}
    /\ FocusTop \in Nat /\ FirstFocus <= FocusTop /\ FocusStep \in Nat \ {0}
    /\ MaxTakes \in Nat

OutputKinds == {"udp", "zmq", "viewer", "autofocus"}

\* Blocks of memory: those of frames[], and the one only `frame` points to,
\* which a realloc in the command "take" makes, or the fixed one of the viewer
\* and the autofocus. Of the picture in a block the model keeps what the package
\* being filled needs.
Slots  == 1..NSlots
Own    == NSlots + 1
Blocks == 1..Own
Null   == 0
Limits == 0..(MaxSize + Headroom)
Rooms  == Limits \cup {FixedRoom}
Block  == [state : {"none", "live", "freed"}, room : Rooms, n : 0..Last, size : 0..MaxSize]
NoBlock   == [state |-> "none", room |-> 0, n |-> 0, size |-> 0]
NewBlock(room) == [NoBlock EXCEPT !.state = "live", !.room = room]

\* No memory for the serialised package.
NoBuf == -1

VARIABLES
    output,    \* which plugin it is
    package,   \* zmq: how many pictures it is to hold (zmqBufferSize), and the
               \* max_frame_size its buf was made for
    work,      \* where its worker is
    size,      \* frame_size, 0 when it is not used any more
    maxFrame,  \* max_frame_size
    frame,     \* the static pointer frame: Null or a block
    block,     \* the blocks
    pos,       \* zmqBufferPos + 1
    blob,      \* pbPackage.frame[i]: the length of blob
    take,      \* an HTTP thread in zmq's output_cmd, its frame_size, takes left
    focus,     \* autofocus: focus, max_focus, max_sv, search_focus
    asked,     \* udp: the picture there was when the datagram came, until it is
               \* answered (history)
    copied,    \* the picture in frame while it is used (history)
    takes,     \* how the takes went (history)
    seen       \* the sharpest picture of this search, and its focus (history)

workVars  == <<output, package, work, size, maxFrame, frame, block, pos, blob>>
sideVars  == <<focus, asked, copied, takes, seen>>
outputVars == <<workVars, take, sideVars>>

Positions == 0..FocusTop
Levels    == Sharpness \cup {FirstSharpness, -1}

OutputTypeOK ==
    /\ output \in OutputKinds
    /\ work \in {"test", "recv", "lock", "wait", "room", "copy", "use", "ended"}
    /\ package \in [n : Packages, buf : Limits \cup {NoBuf}]
    /\ size \in 0..MaxSize
    /\ maxFrame \in Limits
    /\ frame \in {Null} \cup Blocks
    /\ block \in [Blocks -> Block]
    /\ pos \in Blocks
    /\ blob \in [Slots -> 0..MaxSize]
    /\ take \in [at : {"idle", "lock", "write"}, size : 0..MaxSize, left : 0..MaxTakes]
    /\ focus \in [now : Positions, max : Positions, sv : Levels, search : BOOLEAN]
    /\ {asked, copied} \subseteq 0..Last
    /\ takes \subseteq {"copied", "grew", "noMemory"}
    /\ seen \in [focus : Positions, sv : Levels]

OutputInit(kind) ==
    /\ output = kind
    /\ \E n \in IF kind = "zmq" THEN Packages ELSE {CHOOSE n \in Packages : TRUE} :
         package = [n |-> n, buf |-> NoBuf]
    /\ work = "test"
    /\ size = 0
    /\ maxFrame = 0
    /\ frame = IF kind \in {"viewer", "autofocus"} THEN Own ELSE Null
    /\ block = [b \in Blocks |-> IF b = frame THEN NewBlock(FixedRoom) ELSE NoBlock]
    /\ pos = 1
    /\ blob = [i \in Slots |-> 0]
    /\ take = [at |-> "idle", size |-> 0, left |-> MaxTakes]
    /\ focus = [now |-> FocusTop, max |-> FirstFocus, sv |-> FirstSharpness, search |-> TRUE]
    /\ asked = 0
    /\ copied = 0
    /\ takes = {}
    /\ seen = [focus |-> FirstFocus, sv |-> FirstSharpness]

-----------------------------------------------------------------------------
(* The worker.                                                             *)

WorkGoto(from, to) == Alive /\ work = from /\ work' = to

\* worker_cleanup, as the worker ends or is cancelled, frees `frame` and leaves
\* the pointer.
FrameFreed == IF frame = Null THEN block ELSE [block EXCEPT ![frame].state = "freed"]

\* The loop condition, and for udp recvfrom comes first.
WorkTest ==
    /\ ~stop
    /\ WorkGoto("test", IF output = "udp" THEN "recv" ELSE "lock")
    /\ UNCHANGED <<output, package, size, maxFrame, frame, block, pos, blob, take, sideVars>>
    /\ UNCHANGED sharedVars

WorkStops ==
    /\ stop
    /\ WorkGoto("test", "ended")
    /\ block' = FrameFreed
    /\ UNCHANGED <<output, package, size, maxFrame, frame, pos, blob, take, sideVars>>
    /\ UNCHANGED sharedVars

\* recvfrom returns: somebody asks for a picture.
Datagram ==
    /\ WorkGoto("recv", "lock")
    /\ asked' = db.n
    /\ UNCHANGED <<output, package, size, maxFrame, frame, block, pos, blob, take>>
    /\ UNCHANGED <<focus, copied, takes, seen, sharedVars>>

\* mutant: the picture is copied without waiting for the next one
AwaitNothing ==
    /\ WorkGoto("lock", "wait")
    /\ UNCHANGED <<stop, holder, waiting, db, died>>
    /\ UNCHANGED <<output, package, size, maxFrame, frame, block, pos, blob, take, sideVars>>

\* pthread_mutex_lock and pthread_cond_wait.
Await ==
    /\ WorkGoto("lock", "wait")
    /\ BeginToWait("worker")
    /\ UNCHANGED <<stop, holder, db, died>>
    /\ UNCHANGED <<output, package, size, maxFrame, frame, block, pos, blob, take, sideVars>>

Pointer(b) == IF block[b].state = "none" THEN Null ELSE b

\* pthread_cond_wait returns with the mutex; size is read, zmq takes the memory
\* of its next slot. Nothing keeps a longer package from going past frames[].
Woken ==
    /\ WorkGoto("wait", "room")
    /\ WakesUp("worker")
    /\ size' = db.size
    /\ IF output = "zmq" /\ pos \notin Slots
       THEN Die("ring") /\ UNCHANGED frame
       ELSE /\ frame' = IF output = "zmq" THEN Pointer(pos) ELSE frame
            /\ UNCHANGED died
    /\ UNCHANGED <<stop, waiting, db>>
    /\ UNCHANGED <<output, package, maxFrame, block, pos, blob, take, sideVars>>

\* The slot the worker writes, the only one but for zmq.
Slot == IF output \in {"udp", "zmq"} THEN pos ELSE Own

TooBig     == size > maxFrame
MustGrow   == output \in {"udp", "zmq"} /\ (TooBig \/ (output = "zmq" /\ frame = Null))
GrownSize  == IF TooBig THEN size + Headroom ELSE maxFrame

\* realloc to max_frame_size, which is raised first. realloc of what a take has
\* freed is a bad access.
Grow ==
    /\ Alive
    /\ work = "room"
    /\ MustGrow
    /\ maxFrame' = GrownSize
    /\ IF frame # Null /\ block[frame].state = "freed"
       THEN Die("stale") /\ UNCHANGED <<work, frame, block>>
       ELSE /\ work' = "copy"
            /\ frame' = Slot
            /\ block' = [block EXCEPT ![Slot].state = "live", ![Slot].room = GrownSize]
            /\ UNCHANGED died
    /\ UNCHANGED <<stop, holder, waiting, db, output, package, size, pos, blob, take, sideVars>>

\* mutant: zmq grows a slot only when there is none, and udp never again
FitsAlways ==
    /\ WorkGoto("room", "copy")
    /\ frame # Null
    /\ UNCHANGED <<output, package, size, maxFrame, frame, block, pos, blob, take, sideVars>>
    /\ UNCHANGED sharedVars

Fits ==
    /\ ~MustGrow
    /\ WorkGoto("room", "copy")
    /\ UNCHANGED <<output, package, size, maxFrame, frame, block, pos, blob, take, sideVars>>
    /\ UNCHANGED sharedVars

\* realloc fails: unlock, return.
NoRoom ==
    /\ MustGrow
    /\ WorkGoto("room", "ended")
    /\ maxFrame' = GrownSize
    /\ Release("worker")
    /\ UNCHANGED <<stop, waiting, db, died, output, package, size, frame, block, pos, blob, take, sideVars>>

\* What a copy of `bytes` from in->buf to block b meets, in the order of memcpy.
BadSource(bytes)  == bytes > 0 /\ db.mem # "live"
BadTarget(b)      == b = Null \/ block[b].state = "freed"
Overruns(b, bytes) == bytes > block[b].room
CopyFault(b, bytes) ==
    IF bytes = 0 THEN "no"
    ELSE IF BadSource(bytes) THEN "picture"
    ELSE IF BadTarget(b) THEN "stale"
    ELSE IF Overruns(b, bytes) THEN "overrun"
    ELSE "no"
CopyTo(b, bytes) ==
    IF bytes = 0 \/ b = Own \/ output # "zmq" THEN block
    ELSE [block EXCEPT ![b].n = db.n, ![b].size = bytes]

\* memcpy, and the mutex is given back.
Copy ==
    /\ Alive
    /\ work = "copy"
    /\ IF CopyFault(frame, size) # "no"
       THEN Die(CopyFault(frame, size)) /\ UNCHANGED <<work, block, copied, holder>>
       ELSE /\ work' = "use"
            /\ block' = CopyTo(frame, size)
            /\ copied' = db.n
            /\ Release("worker")
            /\ UNCHANGED died
    /\ UNCHANGED <<stop, waiting, db, output, package, size, maxFrame, frame, pos, blob, take>>
    /\ UNCHANGED <<focus, asked, takes, seen>>

\* The frame has been used.
Used == size' = 0 /\ copied' = 0 /\ asked' = 0
UseKeep == UNCHANGED <<output, package, maxFrame, frame, block, take, takes, sharedVars>>

\* udp saves the picture if the datagram has a name and answers; the viewer
\* shows it unless it cannot be decompressed.
Use ==
    /\ output \in {"udp", "viewer"}
    /\ WorkGoto("use", "test")
    /\ Used
    /\ UNCHANGED <<pos, blob, focus, seen>>
    /\ UseKeep

\* udp: the file cannot be opened or written; the worker returns.
SaveFails ==
    /\ output = "udp"
    /\ WorkGoto("use", "ended")
    /\ Used
    /\ UNCHANGED <<pos, blob, focus, seen>>
    /\ UseKeep

PackageFull == pos = package.n
Sent == [b \in Blocks |-> [block[b] EXCEPT !.n = 0, !.size = 0]]

\* realloc of buf, when max_frame_size has grown or the last one failed. That it
\* fails is only logged.
Bufs == IF package.buf < maxFrame THEN {maxFrame, NoBuf} ELSE {package.buf}

\* What pb__package__pack(buf) meets: pb__package__get_packed_size bytes, of the
\* pictures and what it adds to each, are written to bufferSize bytes.
PackedSize(n, blobs) == FoldFunctionOnSet(LAMBDA x, y : x + y, 0, blobs, 1..n) + n * Header
BufferSize(n, buf)   == n * buf + Spare
PackFault(buf, blobs) ==
    IF buf = NoBuf THEN "null"
    ELSE IF \E i \in 1..package.n : blobs[i] > 0 /\ block[i].state = "freed" THEN "stale"
    ELSE IF PackedSize(package.n, blobs) > BufferSize(package.n, buf) THEN "long"
    ELSE "no"
PackDies(of) == Die(of) /\ UNCHANGED <<work, size, pos, takes, block, asked, copied>>

\* zmq: the picture is put into the package; a full package is packed, from the
\* memory blob.data points to, and sent. A package of no pictures has no place for
\* the first.
Pack ==
    /\ output = "zmq"
    /\ Alive
    /\ work = "use"
    /\ \E b \in Bufs : package' = [package EXCEPT !.buf = b]
    /\ blob' = [blob EXCEPT ![pos] = size]
    /\ IF pos > package.n THEN PackDies("ring")
       ELSE IF PackageFull /\ PackFault(package'.buf, blob') # "no"
       THEN PackDies(PackFault(package'.buf, blob'))
       ELSE /\ work' = "test"
            /\ pos' = IF PackageFull THEN 1 ELSE pos + 1
            /\ block' = IF PackageFull THEN Sent ELSE block
            /\ takes' = IF PackageFull THEN takes \ {"copied"} ELSE takes
            /\ Used
            /\ UNCHANGED died
    /\ UNCHANGED <<stop, holder, waiting, db, output, maxFrame, frame, take, focus, seen>>

\* mutant: a new search keeps the best sharpness of the last
JudgeKeepsBest(sv) ==
    /\ output = "autofocus"
    /\ WorkGoto("use", "test")
    /\ LET apart == sv - focus.sv > Delta \/ focus.sv - sv > Delta
           begin == ~focus.search /\ apart
           now   == IF begin THEN [focus EXCEPT !.max = FocusTop, !.now = FocusTop, !.search = TRUE]
                             ELSE focus
           done  == now.search /\ now.now = 0
           better == sv > now.sv
       IN /\ focus' = IF ~now.search THEN now
                      ELSE IF done THEN [now EXCEPT !.now = now.max, !.search = FALSE]
                      ELSE [now EXCEPT !.max = IF better THEN now.now ELSE @,
                                       !.sv  = IF better THEN sv ELSE @,
                                       !.now = IF @ > FocusStep THEN @ - FocusStep ELSE 0]
          /\ seen' = IF begin THEN [focus |-> FocusTop, sv |-> sv]
                     ELSE IF now.search /\ ~done /\ sv > seen.sv THEN [focus |-> now.now, sv |-> sv]
                     ELSE seen
    /\ Used
    /\ UNCHANGED <<pos, blob>>
    /\ UseKeep

\* autofocus: the best focus of a search that steps down from FocusTop, begun at
\* the start and whenever the sharpness has changed by more than Delta. At 0 the
\* search ends, without judging 0. (focus is only a number: the command that
\* would move the lens is commented out.)
Judge(sv) ==
    /\ output = "autofocus"
    /\ WorkGoto("use", "test")
    /\ LET apart == sv - focus.sv > Delta \/ focus.sv - sv > Delta
           begin == ~focus.search /\ apart
           now   == IF begin THEN [now |-> FocusTop, max |-> FocusTop, sv |-> -1, search |-> TRUE]
                             ELSE focus
           done  == now.search /\ now.now = 0
           better == sv > now.sv
       IN /\ focus' = IF ~now.search THEN now
                      ELSE IF done THEN [now EXCEPT !.now = now.max, !.search = FALSE]
                      ELSE [now EXCEPT !.max = IF better THEN now.now ELSE @,
                                       !.sv  = IF better THEN sv ELSE @,
                                       !.now = IF @ > FocusStep THEN @ - FocusStep ELSE 0]
          /\ seen' = IF begin THEN [focus |-> FocusTop, sv |-> sv]
                     ELSE IF now.search /\ ~done /\ sv > seen.sv THEN [focus |-> now.now, sv |-> sv]
                     ELSE seen
    /\ Used
    /\ UNCHANGED <<pos, blob>>
    /\ UseKeep

\* output_stop: the worker is cancelled as it waits for a datagram or a picture,
\* or writes what it has. pthread_cond_wait takes the mutex again before the
\* cleanup handler runs, which does not give it back.
CancelWorker ==
    /\ Alive
    /\ stop
    /\ \/ work \in {"recv", "use"} /\ UNCHANGED holder
       \/ work = "wait" /\ Acquire("worker")
    /\ work' = "ended"
    /\ waiting' = waiting \ {"worker"}
    /\ block' = FrameFreed
    /\ UNCHANGED <<stop, db, died, output, package, size, maxFrame, frame, pos, blob, take, sideVars>>

-----------------------------------------------------------------------------
(* "take" of output_zmqserver, in an HTTP thread, on the worker's `frame`.  *)

TakeKeep == UNCHANGED <<output, package, work, size, pos, blob, focus, asked, copied, seen>>
            /\ UNCHANGED <<stop, holder, waiting, db>>

TakeAsk ==
    /\ Alive
    /\ output = "zmq"
    /\ take.at = "idle"
    /\ take.left > 0
    /\ take' = [at |-> "lock", size |-> 0, left |-> take.left - 1]
    /\ UNCHANGED <<maxFrame, frame, block, takes, died>>
    /\ TakeKeep

TakeTooBig == db.size > maxFrame

\* realloc fails: max_frame_size has been raised all the same.
TakeNoMemory ==
    /\ Alive
    /\ take.at = "lock"
    /\ holder = "nobody"
    /\ TakeTooBig
    /\ maxFrame' = db.size + Headroom
    /\ take' = [take EXCEPT !.at = "idle"]
    /\ takes' = takes \cup {"noMemory"}
    /\ UNCHANGED <<frame, block, died>>
    /\ TakeKeep

\* All under in->db: `frame` is reallocated if max_frame_size says so, which
\* leaves the slot it was taken from pointing to freed memory; the copy.
TakeCopy ==
    /\ Alive
    /\ take.at = "lock"
    /\ holder = "nobody"
    /\ take' = [take EXCEPT !.at = "write", !.size = db.size]
    /\ IF TakeTooBig
       THEN /\ maxFrame' = db.size + Headroom
            /\ frame' = Own
            /\ takes' = takes \cup {"copied", "grew"}
            /\ block' = [b \in Blocks |->
                 IF b = Own THEN NewBlock(db.size + Headroom)
                 ELSE IF b = frame THEN [block[b] EXCEPT !.state = "freed"] ELSE block[b]]
            /\ died' = IF frame # Null /\ block[frame].state = "freed" THEN "stale"
                       ELSE IF BadSource(db.size) THEN "picture" ELSE died
       ELSE /\ IF CopyFault(frame, db.size) # "no"
               THEN Die(CopyFault(frame, db.size)) /\ UNCHANGED block
               ELSE block' = CopyTo(frame, db.size) /\ UNCHANGED died
            /\ takes' = takes \cup {"copied"}
            /\ UNCHANGED <<maxFrame, frame>>
    /\ TakeKeep

\* The file is opened, or not; frame_size bytes are written, to stdout, without
\* the mutex, from what `frame` is by now.
TakeWrite ==
    /\ Alive
    /\ take.at = "write"
    /\ take' = [take EXCEPT !.at = "idle", !.size = 0]
    /\ IF take.size = 0 THEN UNCHANGED died
       ELSE IF BadTarget(frame) THEN Die("stale")
       ELSE IF Overruns(frame, take.size) THEN Die("overrun")
       ELSE UNCHANGED died
    /\ UNCHANGED <<maxFrame, frame, block, takes>>
    /\ TakeKeep

WorkNext ==
    \/ WorkTest \/ WorkStops \/ Datagram \/ Await \/ Woken \/ Grow \/ Fits \/ NoRoom \/ Copy
    \/ Use \/ SaveFails \/ Pack \/ CancelWorker
    \/ \E sv \in Sharpness : Judge(sv)
TakeNext == TakeAsk \/ TakeNoMemory \/ TakeCopy \/ TakeWrite

OutputNext == WorkNext \/ TakeNext
====
