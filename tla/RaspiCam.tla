---- MODULE RaspiCam ----
(***************************************************************************)
(* The input plugin input_raspicam on top of MMAL. Four parties share the  *)
(* picture: the plugin's worker thread, which hands empty buffers to the   *)
(* encoder's port and asks for captures; VideoCore, which fills them; the  *)
(* action thread of the encoder component, which runs                      *)
(* encoder_buffer_callback for each filled buffer; and the outputs.        *)
(*                                                                         *)
(* A picture comes in one or more parts, one to a buffer. The callback     *)
(* locks in->db at the first part of a picture and unlocks it at the last, *)
(* in another call, and when the port is disabled the calls that are left  *)
(* are made by the worker thread itself.                                   *)
(***************************************************************************)
EXTENDS Integers, Sequences

CONSTANTS
    Outputs,     \* threads that wait for pictures and copy them
    Encoder,     \* the callback, as the holder of in->db
    NoThread,
    NBuffers,    \* encoder->output[0]->buffer_num
    MaxParts,    \* bound: parts of one picture
    MaxFaults    \* bound: transfers that fail

ASSUME RaspiCamAssumption ==
    /\ Encoder \notin Outputs
    /\ NoThread \notin Outputs \cup {Encoder}
    /\ NBuffers \in Nat \ {0}
    /\ MaxParts \in Nat \ {0}
    /\ MaxFaults \in Nat

Pictures == 0..1      \* pictures are numbered modulo two
Parts    == 1..MaxParts

\* What a part of memory holds: a part of a picture, or what malloc left there.
Part      == [pic : Pictures, part : Parts, last : BOOLEAN]
Unwritten == [pic |-> 0, part |-> 1, last |-> FALSE]

\* A buffer on its way back from VideoCore. "failed" is the flag
\* TRANSMISSION_FAILED, "end" FRAME_END.
Buffer == [length : {0, 1}, data : Part, flag : {"none", "end", "failed"}]
Empty  == [length |-> 0, data |-> Unwritten, flag |-> "none"]

VARIABLES
    stop,      \* pglobal->stop
    stills,    \* option -usestills
    worker,    \* where the worker thread is
    todo,      \* num - q of its loop over the pool
    sem,       \* complete_semaphore
    pool,      \* buffers in pool->queue
    enabled,   \* is_enabled of the encoder's output port
    vc,        \* empty buffers VideoCore has
    shots,     \* captures VideoCore is to make; in video mode, whether to film
    shot,      \* the picture it is sending: its number, the part last sent
    queue,     \* callback_queue of the encoder component
    action,    \* who holds action_mutex, and so makes the callbacks
    cb,        \* where encoder_buffer_callback is, and with which buffer
    offset,    \* callback_data.offset
    db,        \* in->size, in->buf
    holder,    \* who holds the mutex in->db
    pc, copy,  \* where each output is, what it copied
    lost,      \* buffers taken from the pool that the port refused (history)
    faults,    \* transfers that failed (history)
    died       \* mmal_port_send_buffer was given a NULL buffer

workerVars == <<worker, todo, sem>>
portVars   == <<pool, enabled, vc, shots, shot, queue>>
cbVars     == <<action, cb, offset>>
outVars    == <<pc, copy>>
vars == <<stop, stills, workerVars, portVars, cbVars, db, holder, outVars, lost, faults, died>>

WorkerSteps == {"start", "count", "take", "send", "capture", "wait", "test",
                "delete", "lock", "drain", "transit", "free", "gone"}
CallbackSteps == {"none", "enter", "end", "release", "get", "send", "post"}

TypeOK ==
    /\ {stop, stills, enabled, died} \subseteq BOOLEAN
    /\ worker \in WorkerSteps
    /\ {todo, pool, vc, lost} \subseteq 0..NBuffers
    /\ {sem, shots} \subseteq 0..2
    /\ shot \in [pic : Pictures, part : 0..MaxParts, of : Parts]
    /\ queue \in Seq(Buffer)
    /\ action \in {"nobody", "thread", "worker"}
    /\ cb \in [at : CallbackSteps, buffer : Buffer]
    /\ offset \in 0..MaxParts
    /\ db \in [size : 0..MaxParts, buf : [Parts -> Part], freed : BOOLEAN]
    /\ holder \in Outputs \cup {Encoder, NoThread}
    /\ pc \in [Outputs -> {"test", "wait", "woken", "copy", "unlock", "ended"}]
    /\ copy \in [Outputs -> Seq(Part)]
    /\ faults \in 0..MaxFaults

NoCall == [at |-> "none", buffer |-> Empty]

Init ==
    /\ stop = FALSE
    /\ stills \in BOOLEAN
    /\ worker = "start"
    /\ todo = 0
    /\ sem = 0
    /\ pool = NBuffers
    /\ enabled = FALSE
    /\ vc = 0
    /\ shots = 0
    /\ shot = [pic |-> 0, part |-> 0, of |-> 1]
    /\ queue = <<>>
    /\ action = "nobody"
    /\ cb = NoCall
    /\ offset = 0
    /\ db = [size |-> 0, buf |-> [p \in Parts |-> Unwritten], freed |-> FALSE]
    /\ holder = NoThread
    /\ pc = [o \in Outputs |-> "test"]
    /\ copy = [o \in Outputs |-> <<>>]
    /\ lost = 0
    /\ faults = 0
    /\ died = FALSE

Fail == faults < MaxFaults /\ faults' = faults + 1

-----------------------------------------------------------------------------
(* The port of the encoder.                                                *)

\* mmal_port_send_buffer under the port's send_lock: VideoCore gets the buffer,
\* unless the port is disabled or the message cannot be sent; then the buffer
\* is in no queue any more.
SendBuffer ==
    \/ /\ enabled
       /\ vc' = vc + 1
       /\ UNCHANGED lost
    \/ /\ lost' = lost + 1
       /\ UNCHANGED vc

\* VideoCore fills a buffer with the next part of the picture it is sending or
\* begins the next one. A still is one picture for each capture; video goes on.
\* The host may find no way to fetch the data, and then passes the buffer on with
\* length 0 and its flags, or see the transfer aborted.
Filled(of) ==
    IF shot.part = 0
    THEN [pic |-> (shot.pic + 1) % 2, part |-> 1, of |-> of]
    ELSE [shot EXCEPT !.part = @ + 1]

Fill ==
    /\ vc > 0
    /\ shots > 0
    /\ \E of \in Parts :
         LET s    == Filled(of)
             last == s.part = s.of
             data == [pic |-> s.pic, part |-> s.part, last |-> last]
             flag == IF last THEN "end" ELSE "none"
         IN  /\ shot' = IF last THEN [s EXCEPT !.part = 0, !.of = 1] ELSE s
             /\ shots' = IF last /\ stills THEN shots - 1 ELSE shots
             /\ \/ /\ queue' = Append(queue, [length |-> 1, data |-> data, flag |-> flag])
                   /\ UNCHANGED faults
                \/ /\ Fail
                   /\ \/ queue' = Append(queue, [length |-> 0, data |-> data, flag |-> flag])
                      \/ queue' = Append(queue, [length |-> 1, data |-> data, flag |-> "failed"])
    /\ vc' = vc - 1
    /\ UNCHANGED <<stop, stills, workerVars, pool, enabled, cbVars, db, holder, outVars,
                   lost, died>>

-----------------------------------------------------------------------------
(* encoder_buffer_callback, made by whoever holds action_mutex.            *)

\* The action thread was triggered: it takes the mutex and a buffer, which it
\* does not find when the worker drained the queue meanwhile.
ActionBegins ==
    /\ action = "nobody"
    /\ queue # <<>>
    /\ action' = "thread"
    /\ cb' = [at |-> "enter", buffer |-> Head(queue)]
    /\ queue' = Tail(queue)
    /\ UNCHANGED <<stop, stills, workerVars, pool, enabled, vc, shots, shot, offset, db, holder,
                   outVars, lost, faults, died>>

CallbackTo(at) == cb' = [cb EXCEPT !.at = at]

\* mutant: the mutex is locked only where it is not needed, behind the first part
EnterLocksLate ==
    /\ cb.at = "enter"
    /\ \/ /\ cb.buffer.length = 0
          /\ UNCHANGED <<db, offset, holder>>
       \/ /\ cb.buffer.length > 0
          /\ IF offset = 1 THEN holder = NoThread /\ holder' = Encoder ELSE UNCHANGED holder
          /\ db' = [db EXCEPT !.buf[offset + 1] = cb.buffer.data]
          /\ offset' = offset + 1
    /\ CallbackTo(IF cb.buffer.flag = "none" THEN "release" ELSE "end")
    /\ UNCHANGED <<stop, stills, workerVars, portVars, action, outVars, lost, faults, died>>

\* A part is copied behind those before it; the first one is copied once the
\* callback has in->db.
Enter ==
    /\ cb.at = "enter"
    /\ \/ /\ cb.buffer.length = 0
          /\ UNCHANGED <<db, offset, holder>>
       \/ /\ cb.buffer.length > 0
          /\ IF offset = 0 THEN holder = NoThread /\ holder' = Encoder ELSE UNCHANGED holder
          /\ db' = [db EXCEPT !.buf[offset + 1] = cb.buffer.data]
          /\ offset' = offset + 1
    /\ CallbackTo(IF cb.buffer.flag = "none" THEN "release" ELSE "end")
    /\ UNCHANGED <<stop, stills, workerVars, portVars, action, outVars, lost, faults, died>>

\* mutant: the offset of the next picture is not reset
EndKeepsOffset ==
    /\ cb.at = "end"
    /\ db' = [db EXCEPT !.size = offset]
    /\ pc' = [o \in Outputs |-> IF pc[o] = "wait" THEN "woken" ELSE pc[o]]
    /\ holder' = NoThread
    /\ CallbackTo("release")
    /\ UNCHANGED <<stop, stills, workerVars, portVars, action, offset, copy, lost, faults, died>>

\* The last part, or a failed one: the picture is announced, in->db unlocked,
\* whoever holds it.
EndPicture ==
    /\ cb.at = "end"
    /\ db' = [db EXCEPT !.size = offset]
    /\ offset' = 0
    /\ pc' = [o \in Outputs |-> IF pc[o] = "wait" THEN "woken" ELSE pc[o]]
    /\ holder' = NoThread
    /\ CallbackTo("release")
    /\ UNCHANGED <<stop, stills, workerVars, portVars, action, copy, lost, faults, died>>

\* mutant: only the last buffer of a picture is given back
ReleaseLast ==
    /\ cb.at = "release"
    /\ pool' = IF cb.buffer.flag = "none" THEN pool ELSE pool + 1
    /\ CallbackTo(IF enabled THEN "get" ELSE "post")
    /\ UNCHANGED <<stop, stills, workerVars, enabled, vc, shots, shot, queue, action, offset, db,
                   holder, outVars, lost, faults, died>>

\* mmal_buffer_header_release puts the buffer back in the pool. "and send one
\* back to the port (if still open)"
Release ==
    /\ cb.at = "release"
    /\ pool' = pool + 1
    /\ CallbackTo(IF enabled THEN "get" ELSE "post")
    /\ UNCHANGED <<stop, stills, workerVars, enabled, vc, shots, shot, queue, action, offset, db,
                   holder, outVars, lost, faults, died>>

GetBuffer ==
    /\ cb.at = "get"
    /\ IF pool = 0
       THEN CallbackTo("post") /\ UNCHANGED pool
       ELSE CallbackTo("send") /\ pool' = pool - 1
    /\ UNCHANGED <<stop, stills, workerVars, enabled, vc, shots, shot, queue, action, offset, db,
                   holder, outVars, lost, faults, died>>

SendBack ==
    /\ cb.at = "send"
    /\ SendBuffer
    /\ CallbackTo("post")
    /\ UNCHANGED <<stop, stills, workerVars, pool, enabled, shots, shot, queue, action, offset, db,
                   holder, outVars, faults, died>>

\* mutant: the semaphore is posted only when the last part came whole
PostWhole(flag) == IF flag # "end" \/ cb.buffer.length = 0 \/ sem = 2 THEN sem ELSE sem + 1

\* complete_semaphore is posted for a picture that is complete, and the callback
\* returns: the action thread gives action_mutex back. (Nobody waits for the
\* semaphore in video mode; it is counted up to 2.)
Post(flag) == IF flag = "none" \/ sem = 2 THEN sem ELSE sem + 1

Return ==
    /\ cb.at = "post"
    /\ sem' = Post(cb.buffer.flag)
    /\ cb' = NoCall
    /\ action' = IF action = "thread" THEN "nobody" ELSE action
    /\ UNCHANGED <<stop, stills, worker, todo, portVars, offset, db, holder, outVars, lost,
                   faults, died>>

Callback == Enter \/ EndPicture \/ Release \/ GetBuffer \/ SendBack \/ Return

-----------------------------------------------------------------------------
(* worker_thread.                                                          *)

WorkerGoto(from, to) == ~died /\ worker = from /\ worker' = to

\* The components are created and connected, the port is enabled. (A failure on
\* the way exits the program.)
Start ==
    /\ WorkerGoto("start", IF stills THEN "test" ELSE "count")
    /\ enabled' = TRUE
    /\ UNCHANGED <<stop, stills, todo, sem, pool, vc, shots, shot, queue, cbVars, db, holder,
                   outVars, lost, faults, died>>

\* while(!pglobal->stop)
Test ==
    /\ stop \/ stills
    /\ WorkerGoto("test", IF stop THEN "delete" ELSE "count")
    /\ UNCHANGED <<stop, stills, todo, sem, portVars, cbVars, db, holder, outVars, lost, faults, died>>

\* "Send all the buffers to the encoder output port": as many as the pool has
\* now.
Count ==
    /\ WorkerGoto("count", IF pool = 0 THEN "capture" ELSE "take")
    /\ todo' = pool
    /\ UNCHANGED <<stop, stills, sem, portVars, cbVars, db, holder, outVars, lost, faults, died>>

\* The pool may be empty by now, for the callback takes buffers from it too: a
\* missing buffer is reported and sent all the same.
Take ==
    /\ ~died
    /\ worker = "take"
    /\ IF pool = 0
       THEN died' = TRUE /\ UNCHANGED <<worker, pool>>
       ELSE pool' = pool - 1 /\ worker' = "send" /\ UNCHANGED died
    /\ UNCHANGED <<stop, stills, todo, sem, enabled, vc, shots, shot, queue, cbVars, db, holder,
                   outVars, lost, faults>>

Send ==
    /\ WorkerGoto("send", IF todo = 1 THEN "capture" ELSE "take")
    /\ todo' = todo - 1
    /\ SendBuffer
    /\ UNCHANGED <<stop, stills, sem, pool, enabled, shots, shot, queue, cbVars, db, holder,
                   outVars, faults, died>>

\* MMAL_PARAMETER_CAPTURE is set, or cannot be. (VideoCore keeps at most two
\* stills in mind.)
Capture ==
    /\ \/ /\ shots' = IF shots = 2 THEN 2 ELSE shots + 1
          /\ WorkerGoto("capture", IF stills THEN "wait" ELSE "test")
       \/ /\ WorkerGoto("capture", "test")
          /\ UNCHANGED shots
    /\ UNCHANGED <<stop, stills, todo, sem, pool, enabled, vc, shot, queue, cbVars, db, holder,
                   outVars, lost, faults, died>>

\* vcos_semaphore_wait, "reverting to untimed one".
Wait ==
    /\ WorkerGoto("wait", "test")
    /\ sem > 0
    /\ sem' = sem - 1
    /\ UNCHANGED <<stop, stills, todo, portVars, cbVars, db, holder, outVars, lost, faults, died>>

\* The semaphore is deleted while the callback may yet post it, and
\* mmal_port_disable closes the port for sends.
Disable ==
    /\ WorkerGoto("delete", "lock")
    /\ enabled' = FALSE
    /\ UNCHANGED <<stop, stills, todo, sem, pool, vc, shots, shot, queue, cbVars, db, holder,
                   outVars, lost, faults, died>>

\* It waits for the callback that is running, then has VideoCore stop, which
\* sends all its buffers back.
AskBack ==
    /\ WorkerGoto("lock", "drain")
    /\ action = "nobody"
    /\ action' = "worker"
    /\ shots' = 0
    /\ vc' = 0
    /\ queue' = queue \o [b \in 1..vc |-> Empty]
    /\ UNCHANGED <<stop, stills, todo, sem, pool, enabled, shot, cb, offset, db, holder, outVars,
                   lost, faults, died>>

\* "We need to make sure all the queued callbacks have been done"
Drain ==
    /\ ~died
    /\ worker = "drain"
    /\ action = "worker"
    /\ cb = NoCall
    /\ IF queue = <<>>
       THEN worker' = "transit" /\ action' = "nobody" /\ UNCHANGED <<queue, cb>>
       ELSE /\ cb' = [at |-> "enter", buffer |-> Head(queue)]
            /\ queue' = Tail(queue)
            /\ UNCHANGED <<worker, action>>
    /\ UNCHANGED <<stop, stills, todo, sem, pool, enabled, vc, shots, shot, offset, db, holder,
                   outVars, lost, faults, died>>

\* "Wait for all the buffers to have come back from the component"
Transit ==
    /\ WorkerGoto("transit", "free")
    /\ vc = 0
    /\ queue = <<>>
    /\ cb = NoCall
    /\ UNCHANGED <<stop, stills, todo, sem, portVars, cbVars, db, holder, outVars, lost, faults, died>>

\* The components and the pool are destroyed; worker_cleanup frees buf, without
\* in->db.
FreeBuf ==
    /\ WorkerGoto("free", "gone")
    /\ db' = [db EXCEPT !.freed = TRUE]
    /\ UNCHANGED <<stop, stills, todo, sem, portVars, cbVars, holder, outVars, lost, faults, died>>

WorkerNext ==
    \/ Start \/ Test \/ Count \/ Take \/ Send \/ Capture \/ Wait
    \/ Disable \/ AskBack \/ Drain \/ Transit \/ FreeBuf

-----------------------------------------------------------------------------
(* The outputs, as in FrameBuffer.                                         *)

OutGoto(o, from, to) == pc[o] = from /\ pc' = [pc EXCEPT ![o] = to]

BeginWait(o) ==
    /\ holder = NoThread
    /\ OutGoto(o, "test", IF stop THEN "ended" ELSE "wait")
    /\ UNCHANGED <<stop, stills, workerVars, portVars, cbVars, db, holder, copy, lost, faults, died>>

Wake(o) ==
    /\ holder = NoThread
    /\ holder' = o
    /\ OutGoto(o, "woken", "copy")
    /\ UNCHANGED <<stop, stills, workerVars, portVars, cbVars, db, copy, lost, faults, died>>

CopyPicture(o) ==
    /\ OutGoto(o, "copy", "unlock")
    /\ copy' = [copy EXCEPT ![o] = SubSeq(db.buf, 1, db.size)]
    /\ UNCHANGED <<stop, stills, workerVars, portVars, cbVars, db, holder, lost, faults, died>>

Unlock(o) ==
    /\ OutGoto(o, "unlock", "test")
    /\ holder' = NoThread
    /\ copy' = [copy EXCEPT ![o] = <<>>]
    /\ UNCHANGED <<stop, stills, workerVars, portVars, cbVars, db, lost, faults, died>>

OutNext(o) == BeginWait(o) \/ Wake(o) \/ CopyPicture(o) \/ Unlock(o)

\* SIGINT. The worker has disabled its cancellation: it ends by stop alone.
Stop ==
    /\ ~stop
    /\ stop' = TRUE
    /\ UNCHANGED <<stills, workerVars, portVars, cbVars, db, holder, outVars, lost, faults, died>>

Next ==
    \/ ~died /\ (WorkerNext \/ Fill \/ ActionBegins \/ Callback \/ Stop)
    \/ ~died /\ \E o \in Outputs : OutNext(o)

Spec == Init /\ [][Next]_vars

-----------------------------------------------------------------------------
InHand == IF cb.at \in {"enter", "end", "release", "send"} THEN 1 ELSE 0
WorkerHand == IF worker = "send" THEN 1 ELSE 0

\* Every buffer is at one place.
EachBufferOnce ==
    pool + vc + Len(queue) + InHand + WorkerHand + lost = NBuffers

\* No buffer is at two places or at none, whoever of the worker, VideoCore and the
\* callback passes it on, in the loop and while the port is closed, unless the
\* port refused it. The worker sends one it did not get only after a transfer
\* failed: the callback then completes one picture twice, and the worker, a
\* capture ahead, empties the pool together with it.
BuffersAccounted ==
    /\ TypeOK
    /\ died => faults > 0
    /\ EachBufferOnce

Whole(c) ==
    \/ c = <<>>
    \/ \E p \in Pictures :
         c = [i \in 1..Len(c) |-> [pic |-> p, part |-> i, last |-> i = Len(c)]]

\* What an output copied is one whole picture although the callback holds in->db
\* from one call to another, in which the worker may take the action thread's
\* place; unless a transfer failed, or worker_cleanup has freed buf.
HandedWhole ==
    \A o \in Outputs : pc[o] = "unlock" => Whole(copy[o]) \/ faults > 0 \/ db.freed

\* The callback leaves in->db locked behind it only in the middle of a picture:
\* when the worker has ended, because the port was closed there.
LockedWithinPicture ==
    cb.at = "none" /\ faults = 0 => (holder = Encoder <=> offset > 0)

\* The threads run; VideoCore sends what it was asked for.
Fairness ==
    /\ WF_vars(~died /\ WorkerNext)
    /\ WF_vars(~died /\ ActionBegins)
    /\ WF_vars(~died /\ Callback)
    /\ SF_vars(~died /\ cb.at = "enter" /\ Enter)
    /\ WF_vars(~died /\ Fill)
    /\ \A o \in Outputs :
         /\ WF_vars(~died /\ OutNext(o))
         /\ SF_vars(~died /\ (BeginWait(o) \/ Wake(o)))

FairSpec == Init /\ [][Next]_vars /\ Fairness

AllLost == lost = NBuffers /\ worker = "wait"

\* After SIGINT the worker, which cannot be cancelled, still comes to its end,
\* although it waits without a time limit for pictures and for the callback:
\* except when every buffer was lost to failed sends and it waits for a still.
StopEnds == stop ~> (worker = "gone" \/ died \/ AllLost)
====
