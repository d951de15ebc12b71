---- MODULE RaspiCamProofs ----
(***************************************************************************)
(* The pictures of input_raspicam, for any number of outputs and buffers   *)
(* and any number of parts to a picture: as long as no transfer fails, the *)
(* parts stay in order from VideoCore through the callback queue to        *)
(* in->buf, and the lock is held exactly in the middle of a picture. And   *)
(* of the buffers, none is lost or doubled whatever fails.                 *)
(***************************************************************************)
EXTENDS RaspiCam, TLAPS

D(p, i, l) == [pic |-> p, part |-> i, last |-> l]

Full(b) == b.length = 1

\* A buffer on its way: empty, or with a part, flagged if it is the last one.
Good(b) ==
    \/ b = Empty
    \/ /\ Full(b)
       /\ b.data.pic \in Pictures
       /\ b.data.part \in Parts
       /\ \/ b.flag = "end"  /\ b.data = D(b.data.pic, b.data.part, TRUE)
          \/ b.flag = "none" /\ b.data = D(b.data.pic, b.data.part, FALSE)

\* Where a picture stands: the number of its last part, 0 between two pictures.
Stands(b) == IF b.flag = "end" THEN 0 ELSE b.data.part

\* The buffer has the part that comes next.
Goes(pic, part, b) ==
    /\ b.data.part = part + 1
    /\ part > 0 => b.data.pic = pic

\* Closing: the port was disabled; closed: VideoCore has sent everything back.
Closed  == worker \in {"drain", "transit", "free", "gone"}
Closing == worker = "lock" \/ Closed

Entering == cb.at = "enter" /\ Full(cb.buffer)

\* Where the picture stands in in->buf, and behind the buffer in the callback.
HerePart == IF cb.at = "end" THEN 0 ELSE offset
HerePic  == db.buf[offset].pic
CbPart   == IF Entering THEN Stands(cb.buffer) ELSE HerePart
CbPic    == IF Entering THEN cb.buffer.data.pic ELSE HerePic

TypesOK ==
    /\ offset \in 0..MaxParts
    /\ holder \in Outputs \cup {Encoder, NoThread}
    /\ pc \in [Outputs -> {"test", "wait", "woken", "copy", "unlock", "ended"}]
    /\ copy \in [Outputs -> Seq(Part)]
    /\ db \in [size : 0..MaxParts, buf : [Parts -> Part], freed : BOOLEAN]
    /\ cb \in [at : CallbackSteps, buffer : Buffer]
    /\ queue \in Seq(Buffer)
    /\ vc \in Nat
    /\ shot \in [pic : Pictures, part : 0..MaxParts, of : Parts]
    /\ shot.part < shot.of

LockOK ==
    /\ holder = Encoder <=> offset > 0
    /\ cb.at = "end" => offset > 0
    /\ \A o \in Outputs : pc[o] \in {"copy", "unlock"} => holder = o

PortOK ==
    /\ action = "nobody" => cb.at = "none"
    /\ Closing => ~enabled
    /\ Closed => vc = 0

\* The parts that are under way follow one another.
ChainOK ==
    /\ \A i \in 1..Len(queue) : Good(queue[i])
    /\ cb.at # "none" => Good(cb.buffer)
    /\ Entering => Goes(HerePic, HerePart, cb.buffer)
    /\ queue # <<>> /\ Full(queue[1]) => Goes(CbPic, CbPart, queue[1])
    /\ \A i \in 1..(Len(queue) - 1) : Full(queue[i + 1]) =>
         Full(queue[i]) /\ Goes(queue[i].data.pic, Stands(queue[i]), queue[i + 1])
    /\ cb.at = "enter" /\ ~Full(cb.buffer) /\ queue # <<>> => ~Full(queue[1])

\* What VideoCore sends next follows too; a buffer comes back empty only when the
\* port was closed.
ShotOK ==
    ~Closed =>
        /\ \A i \in 1..Len(queue) : Full(queue[i])
        /\ cb.at = "enter" => Full(cb.buffer)
        /\ IF queue = <<>>
           THEN shot.part = CbPart /\ (shot.part > 0 => shot.pic = CbPic)
           ELSE /\ shot.part = Stands(queue[Len(queue)])
                /\ shot.part > 0 => shot.pic = queue[Len(queue)].data.pic

\* in->buf: the picture so far, or the whole one that was announced last.
BufOK ==
    /\ cb.at # "end" => \A i \in 1..offset : db.buf[i] = D(HerePic, i, FALSE)
    /\ cb.at = "end" =>
         /\ \A i \in 1..(offset - 1) : db.buf[i] = D(HerePic, i, FALSE)
         /\ db.buf[offset] = D(HerePic, offset, TRUE)
    /\ offset = 0 /\ db.size > 0 =>
         /\ \A i \in 1..(db.size - 1) : db.buf[i] = D(db.buf[db.size].pic, i, FALSE)
         /\ db.buf[db.size] = D(db.buf[db.size].pic, db.size, TRUE)

CopyOK == \A o \in Outputs : pc[o] = "unlock" => Whole(copy[o])

Sound == TypesOK /\ LockOK /\ PortOK /\ ChainOK /\ ShotOK /\ BufOK /\ CopyOK

RaspiInv == faults \in Nat /\ (faults = 0 => Sound)

LEMMA EmptyIsBuffer == Empty \in Buffer /\ Unwritten \in Part
<1>1. Unwritten \in Part
  BY RaspiCamAssumption DEF Unwritten, Part, Pictures, Parts
<1> QED BY <1>1 DEF Empty, Buffer

LEMMA NoLength ==
    ASSUME NEW S, NEW q \in Seq(S)
    PROVE  q = <<>> <=> Len(q) = 0
  OBVIOUS

LEMMA RaspiInit == Init => RaspiInv
<1> SUFFICES ASSUME Init PROVE RaspiInv
  OBVIOUS
<1> USE RaspiCamAssumption, EmptyIsBuffer
<1>1. /\ worker = "start" /\ vc = 0 /\ shot = [pic |-> 0, part |-> 0, of |-> 1] /\ queue = <<>>
      /\ action = "nobody" /\ cb = [at |-> "none", buffer |-> Empty] /\ offset = 0
      /\ db = [size |-> 0, buf |-> [p \in Parts |-> Unwritten], freed |-> FALSE]
      /\ holder = NoThread /\ pc = [o \in Outputs |-> "test"] /\ copy = [o \in Outputs |-> <<>>]
      /\ faults = 0
  BY DEF Init, NoCall
<1>2. TypesOK
  <2>1. db \in [size : 0..MaxParts, buf : [Parts -> Part], freed : BOOLEAN]
    BY <1>1
  <2>2. copy \in [Outputs -> Seq(Part)] /\ queue \in Seq(Buffer)
    BY <1>1
  <2>3. cb \in [at : CallbackSteps, buffer : Buffer]
    BY <1>1 DEF CallbackSteps
  <2> QED BY <1>1, <2>1, <2>2, <2>3 DEF TypesOK, Pictures, Parts
<1>3. LockOK /\ PortOK /\ CopyOK
  BY <1>1 DEF LockOK, PortOK, CopyOK, Closing, Closed
<1>4. ChainOK /\ ShotOK /\ BufOK
  BY <1>1 DEF ChainOK, ShotOK, BufOK, Entering, CbPart, HerePart
<1> QED BY <1>1, <1>2, <1>3, <1>4 DEF RaspiInv, Sound

-----------------------------------------------------------------------------
(* Steps beside the picture.                                               *)

\* The callback is not at work on the picture, before or after, or stays where it
\* is; nothing of the picture changes.
LEMMA Beside ==
    ASSUME Sound, UNCHANGED <<queue, offset, holder, pc, copy, shot>>,
           db' \in [size : 0..MaxParts, buf : [Parts -> Part], freed : BOOLEAN],
           db'.size = db.size, db'.buf = db.buf,
           cb' \in [at : CallbackSteps, buffer : Buffer],
           \/ cb' = cb
           \/ /\ cb.at \notin {"none", "enter", "end"} /\ cb'.at \notin {"enter", "end"}
              /\ cb'.at # "none" => cb'.buffer = cb.buffer,
           vc' \in Nat, PortOK', Closed => Closed'
    PROVE  Sound'
<1> USE DEF Sound
<1>1. TypesOK'
  BY DEF TypesOK
<1>2. (cb'.at = "end" <=> cb.at = "end") /\ (cb'.at = "enter" <=> cb.at = "enter")
  OBVIOUS
<1>3. cb'.at # "none" => cb'.buffer = cb.buffer /\ cb.at # "none"
  OBVIOUS
<1>4. /\ Entering' <=> Entering
      /\ HerePart' = HerePart /\ HerePic' = HerePic /\ CbPart' = CbPart /\ CbPic' = CbPic
  BY <1>2, <1>3 DEF Entering, HerePart, HerePic, CbPart, CbPic
<1>5. LockOK' /\ CopyOK'
  BY <1>2 DEF LockOK, CopyOK
<1>6. ChainOK'
  BY <1>2, <1>3, <1>4 DEF ChainOK, Entering
<1>7. ShotOK'
  BY <1>2, <1>3, <1>4 DEF ShotOK
<1>8. BufOK'
  BY <1>2, <1>4 DEF BufOK
<1> QED BY <1>1, <1>5, <1>6, <1>7, <1>8

LEMMA WorkerKeeps ==
    ASSUME Sound, Start \/ Test \/ Count \/ Take \/ Send \/ Capture \/ Wait \/ Disable \/ Transit \/ Stop
    PROVE  Sound'
<1>1. UNCHANGED <<queue, offset, holder, pc, copy, shot, db, cb, action>>
  BY DEF Start, Test, Count, Take, Send, Capture, Wait, Disable, Transit, Stop, portVars, cbVars, outVars
<1>2. vc' \in Nat /\ (vc' = vc \/ enabled)
  BY DEF Start, Test, Count, Take, Send, SendBuffer, Capture, Wait, Disable, Transit, Stop, portVars, Sound, TypesOK
<1>3. Closed' <=> Closed
  BY DEF Start, Test, Count, Take, Send, Capture, Wait, Disable, Transit, Stop, WorkerGoto, Closed, workerVars
<1>4. Closing' => ~enabled'
  <2>1. CASE Start
    BY <2>1 DEF Start, WorkerGoto, Closing, Closed
  <2>2. CASE Disable
    BY <2>2, Zenon DEF Disable
  <2>3. CASE Test \/ Count \/ Take \/ Send \/ Capture \/ Wait \/ Transit \/ Stop
    <3>1. Closing' => Closing
      BY <2>3 DEF Test, Count, Take, Send, Capture, Wait, Transit, Stop, WorkerGoto, Closing, Closed, workerVars
    <3>2. enabled' = enabled
      BY <2>3 DEF Test, Count, Take, Send, Capture, Wait, Transit, Stop, portVars
    <3> QED BY <3>1, <3>2, Zenon DEF Sound, PortOK
  <2> QED BY <2>1, <2>2, <2>3
<1>5. Closed => vc' = vc
  BY <1>2 DEF Sound, PortOK, Closing
<1>6. PortOK'
  BY <1>1, <1>3, <1>4, <1>5 DEF Sound, PortOK
<1>7. /\ db \in [size : 0..MaxParts, buf : [Parts -> Part], freed : BOOLEAN]
      /\ cb \in [at : CallbackSteps, buffer : Buffer]
  BY DEF Sound, TypesOK
<1> QED BY <1>1, <1>2, <1>3, <1>6, <1>7, Beside

LEMMA FreeKeeps ==
    ASSUME Sound, FreeBuf
    PROVE  Sound'
<1>1. /\ UNCHANGED <<queue, offset, holder, pc, copy, shot, cb, action, vc, enabled>>
      /\ db' = [db EXCEPT !.freed = TRUE] /\ worker = "free" /\ worker' = "gone"
  BY DEF FreeBuf, WorkerGoto, portVars, cbVars, outVars
<1>2. /\ db \in [size : 0..MaxParts, buf : [Parts -> Part], freed : BOOLEAN]
      /\ cb \in [at : CallbackSteps, buffer : Buffer] /\ vc \in Nat
  BY DEF Sound, TypesOK
<1>3. db' \in [size : 0..MaxParts, buf : [Parts -> Part], freed : BOOLEAN]
  BY <1>1, <1>2
<1>4. db'.size = db.size /\ db'.buf = db.buf
  BY <1>1, <1>2
<1>5. PortOK' /\ Closed /\ Closed'
  BY <1>1 DEF Sound, PortOK, Closing, Closed
<1> QED BY <1>1, <1>2, <1>3, <1>4, <1>5, Beside

LEMMA BackKeeps ==
    ASSUME Sound, Release \/ GetBuffer \/ SendBack \/ Return
    PROVE  Sound'
<1>1. /\ UNCHANGED <<queue, offset, holder, pc, copy, shot, db, enabled, worker>>
      /\ vc' \in Nat /\ (vc' = vc \/ enabled)
  <2>1. UNCHANGED <<queue, offset, holder, pc, copy, shot, db, enabled, worker>>
    BY DEF Release, GetBuffer, SendBack, Return, portVars, outVars, workerVars, cbVars
  <2>2. vc \in Nat
    BY DEF Sound, TypesOK
  <2>3. CASE SendBack
    BY <2>1, <2>2, <2>3 DEF SendBack, SendBuffer
  <2>4. CASE Release \/ GetBuffer \/ Return
    BY <2>1, <2>2, <2>4 DEF Release, GetBuffer, Return, portVars
  <2> QED BY <2>1, <2>3, <2>4
<1>2. cb.at \in {"release", "get", "send", "post"}
  BY DEF Release, GetBuffer, SendBack, Return
<1>3. \/ \E at \in {"get", "post", "send"} : cb' = [cb EXCEPT !.at = at] /\ action' = action
      \/ cb' = NoCall
  BY DEF Release, GetBuffer, SendBack, Return, CallbackTo
<1>4. /\ cb \in [at : CallbackSteps, buffer : Buffer]
      /\ db \in [size : 0..MaxParts, buf : [Parts -> Part], freed : BOOLEAN]
  BY DEF Sound, TypesOK
<1>5. /\ cb' \in [at : CallbackSteps, buffer : Buffer]
      /\ cb'.at \notin {"enter", "end"}
      /\ cb'.at # "none" => cb'.buffer = cb.buffer /\ action' = action
  BY <1>3, <1>4, EmptyIsBuffer DEF NoCall, CallbackSteps
<1>6. PortOK'
  BY <1>1, <1>2, <1>5 DEF Sound, PortOK, Closing, Closed
<1> QED BY <1>1, <1>2, <1>4, <1>5, <1>6, Beside DEF Closed

-----------------------------------------------------------------------------
(* The way of a part.                                                      *)

\* What VideoCore fills in is the next part.
LEMMA FillKeeps ==
    ASSUME Sound, Fill, faults \in Nat, faults' = faults
    PROVE  Sound'
<1> USE RaspiCamAssumption DEF Sound
<1>1. PICK of \in Parts :
        LET s    == Filled(of)
            last == s.part = s.of
            data == [pic |-> s.pic, part |-> s.part, last |-> last]
            flag == IF last THEN "end" ELSE "none"
        IN  /\ shot' = IF last THEN [s EXCEPT !.part = 0, !.of = 1] ELSE s
            /\ queue' = Append(queue, [length |-> 1, data |-> data, flag |-> flag])
  <2>1. ~Fail
    BY DEF Fail
  <2> QED BY <2>1 DEF Fill
<1>2. /\ UNCHANGED <<cb, offset, db, holder, pc, copy, worker, action, enabled>>
      /\ vc > 0 /\ vc' = vc - 1
  BY DEF Fill, workerVars, cbVars, outVars
<1>3. ~Closed /\ ~Closed'
  BY <1>2 DEF PortOK, Closed
<1> DEFINE s    == Filled(of)
           b    == [length |-> 1, data |-> [pic |-> s.pic, part |-> s.part, last |-> s.part = s.of],
                    flag |-> IF s.part = s.of THEN "end" ELSE "none"]
<1>4. /\ s.pic \in Pictures /\ s.of \in Parts /\ s.part = shot.part + 1 /\ s.part \in 1..s.of
      /\ shot.part > 0 => s.pic = shot.pic
      /\ s = [pic |-> s.pic, part |-> s.part, of |-> s.of]
  <2>1. shot \in [pic : Pictures, part : 0..MaxParts, of : Parts] /\ shot.part < shot.of
    BY DEF TypesOK
  <2>2. CASE shot.part = 0
    BY <2>1, <2>2 DEF Filled, Pictures, Parts
  <2>3. CASE shot.part > 0
    BY <2>1, <2>3 DEF Filled, Parts
  <2> QED BY <2>1, <2>2, <2>3
<1>5. /\ b.length = 1 /\ b.data.pic = s.pic /\ b.data.part = s.part
      /\ b.flag = IF s.part = s.of THEN "end" ELSE "none"
  OBVIOUS
<1>6. b.data = D(s.pic, s.part, s.part = s.of)
  BY DEF D
<1>7. s.part = s.of => b.data = D(s.pic, s.part, TRUE)
  BY <1>6
<1>8. s.part # s.of => b.data = D(s.pic, s.part, FALSE)
  BY <1>6
<1>9. Good(b)
  <2>1. s.part \in Parts
    BY <1>4 DEF Parts
  <2>2. b.data.pic \in Pictures /\ b.data.part \in Parts
    BY <1>4, <1>5, <2>1
  <2>3. CASE s.part = s.of
    <3>1. b.flag = "end" /\ b.data = D(b.data.pic, b.data.part, TRUE)
      BY <1>5, <1>7, <2>3
    <3> QED BY <1>5, <2>2, <3>1 DEF Good, Full
  <2>4. CASE s.part # s.of
    <3>1. b.flag = "none" /\ b.data = D(b.data.pic, b.data.part, FALSE)
      BY <1>5, <1>8, <2>4
    <3> QED BY <1>5, <2>2, <3>1 DEF Good, Full
  <2> QED BY <2>3, <2>4
<1>10. b \in Buffer
  <2>1. s.part \in Parts
    BY <1>4 DEF Parts
  <2>2. b.data \in Part
    BY <1>4, <1>6, <2>1, Zenon DEF D, Part
  <2> QED BY <1>5, <2>2 DEF Buffer
<1>11. /\ queue' = Append(queue, b)
       /\ shot' = IF s.part = s.of THEN [s EXCEPT !.part = 0, !.of = 1] ELSE s
  BY <1>1
<1>12. /\ Len(queue') = Len(queue) + 1 /\ queue'[Len(queue) + 1] = b /\ queue' # <<>>
       /\ \A i \in 1..Len(queue) : queue'[i] = queue[i]
       /\ queue' \in Seq(Buffer)
       /\ Len(queue) \in Nat /\ (queue = <<>> <=> Len(queue) = 0)
  <2>1. queue \in Seq(Buffer)
    BY DEF TypesOK
  <2> QED BY <1>10, <1>11, <2>1
<1>13. /\ shot' \in [pic : Pictures, part : 0..MaxParts, of : Parts] /\ shot'.part < shot'.of
       /\ shot'.part = Stands(b) /\ (shot'.part > 0 => shot'.pic = b.data.pic)
  <2>1. CASE s.part = s.of
    <3>1. shot' = [pic |-> s.pic, part |-> 0, of |-> 1]
      BY <1>4, <1>11, <2>1
    <3>2. Stands(b) = 0
      BY <1>5, <2>1 DEF Stands
    <3> QED BY <1>4, <3>1, <3>2 DEF Parts
  <2>2. CASE s.part # s.of
    <3>1. shot' = s
      BY <1>11, <2>2
    <3>2. Stands(b) = s.part
      BY <1>5, <2>2 DEF Stands
    <3> QED BY <1>4, <1>5, <2>2, <3>1, <3>2 DEF Parts
  <2> QED BY <2>1, <2>2
<1>14. (Entering' <=> Entering) /\ HerePart' = HerePart /\ HerePic' = HerePic
       /\ CbPart' = CbPart /\ CbPic' = CbPic
  BY <1>2 DEF Entering, HerePart, HerePic, CbPart, CbPic
<1>15. IF queue = <<>> THEN Goes(CbPic, CbPart, b)
       ELSE Goes(queue[Len(queue)].data.pic, Stands(queue[Len(queue)]), b)
  BY <1>3, <1>4, <1>5 DEF ShotOK, Goes
<1>16. TypesOK'
  BY <1>2, <1>12, <1>13 DEF TypesOK
<1>17. LockOK' /\ PortOK' /\ CopyOK'
  BY <1>2, <1>3 DEF LockOK, PortOK, CopyOK, Closing, Closed
<1>18. \A i \in 1..Len(queue) : Full(queue[i])
  BY <1>3 DEF ShotOK
<1> HIDE DEF s, b
<1>19. ChainOK'
  <2>1. \A i \in 1..Len(queue') : Good(queue'[i])
    BY <1>9, <1>12 DEF ChainOK
  <2>2. /\ cb'.at # "none" => Good(cb'.buffer)
        /\ Entering' => Goes(HerePic', HerePart', cb'.buffer)
        /\ cb'.at = "enter" /\ ~Full(cb'.buffer) /\ queue' # <<>> => ~Full(queue'[1])
    BY <1>2, <1>3, <1>14 DEF ChainOK, ShotOK
  <2>3. Goes(CbPic', CbPart', queue'[1])
    BY <1>12, <1>14, <1>15, <1>18 DEF ChainOK
  <2>4. ASSUME NEW i \in 1..(Len(queue') - 1)
        PROVE  Full(queue'[i]) /\ Goes(queue'[i].data.pic, Stands(queue'[i]), queue'[i + 1])
    <3>1. CASE i = Len(queue)
      BY <1>12, <1>15, <1>18, <3>1
    <3>2. CASE i # Len(queue)
      <4>1. i \in 1..(Len(queue) - 1) /\ i + 1 \in 1..Len(queue) /\ i \in 1..Len(queue)
        BY <1>12, <2>4, <3>2
      <4> QED BY <1>12, <1>18, <4>1 DEF ChainOK
    <3> QED BY <3>1, <3>2
  <2> QED BY <2>1, <2>2, <2>3, <2>4 DEF ChainOK
<1>20. ShotOK'
  <2>1. \A i \in 1..Len(queue') : Full(queue'[i])
    BY <1>9, <1>5, <1>12, <1>18 DEF Full
  <2> QED BY <1>2, <1>3, <1>12, <1>13, <2>1 DEF ShotOK
<1>21. BufOK'
  BY <1>2, <1>14 DEF BufOK
<1> QED BY <1>16, <1>17, <1>19, <1>20, <1>21

\* The part of a buffer is copied behind those before it.
LEMMA EnterKeeps ==
    ASSUME Sound, Enter
    PROVE  Sound'
<1> USE RaspiCamAssumption DEF Sound
<1>1. /\ cb.at = "enter" /\ cb' = [cb EXCEPT !.at = IF cb.buffer.flag = "none" THEN "release" ELSE "end"]
      /\ UNCHANGED <<queue, pc, copy, worker, action, enabled, vc, shot>>
  BY DEF Enter, CallbackTo, portVars, workerVars, outVars
<1>2. cb \in [at : CallbackSteps, buffer : Buffer]
      /\ db \in [size : 0..MaxParts, buf : [Parts -> Part], freed : BOOLEAN]
      /\ offset \in 0..MaxParts
  BY DEF TypesOK
<1>3. /\ cb' \in [at : CallbackSteps, buffer : Buffer] /\ cb'.buffer = cb.buffer
      /\ cb'.at = IF cb.buffer.flag = "none" THEN "release" ELSE "end"
  BY <1>1, <1>2 DEF CallbackSteps
<1>4. Good(cb.buffer)
  BY <1>1 DEF ChainOK
<1>5. ~Entering'
  BY <1>3 DEF Entering
<1>6. HerePart = offset
  BY <1>1 DEF HerePart
<1>7. PortOK'
  BY <1>1 DEF PortOK, Closing, Closed
<1>8. CopyOK'
  BY <1>1 DEF CopyOK
<1>9. CASE ~Full(cb.buffer)
  <2>1. cb.buffer = Empty
    BY <1>4, <1>9 DEF Good
  <2>2. UNCHANGED <<db, offset, holder>> /\ cb'.at = "release"
    BY <1>1, <1>3, <2>1 DEF Enter, Empty
  <2>3. HerePart' = HerePart /\ HerePic' = HerePic /\ CbPart' = HerePart /\ CbPic' = HerePic
    BY <1>1, <1>3, <1>5, <2>2 DEF HerePart, HerePic, CbPart, CbPic
  <2>4. TypesOK' /\ LockOK'
    BY <1>1, <1>3, <2>2 DEF TypesOK, LockOK
  <2>5. ChainOK'
    <3>1. queue # <<>> => ~Full(queue[1])
      BY <1>1, <1>9 DEF ChainOK
    <3> QED BY <1>1, <1>3, <1>5, <2>2, <3>1 DEF ChainOK
  <2>6. ShotOK'
    BY <1>1, <1>9 DEF ShotOK, Closed
  <2>7. BufOK'
    BY <1>1, <2>2, <2>3 DEF BufOK
  <2> QED BY <1>7, <1>8, <2>4, <2>5, <2>6, <2>7
<1>10. CASE Full(cb.buffer)
  <2> DEFINE b == cb.buffer
  <2>0. b # Empty /\ b \in Buffer
    BY <1>2, <1>10 DEF Full, Empty
  <2>1. /\ offset' = offset + 1
        /\ IF offset = 0 THEN holder = NoThread /\ holder' = Encoder ELSE holder' = holder
        /\ db' = [db EXCEPT !.buf[offset + 1] = b.data]
    BY <1>10 DEF Enter, Full
  <2>2. Entering /\ Goes(HerePic, HerePart, b)
    BY <1>1, <1>10 DEF ChainOK, Entering
  <2>3. offset + 1 \in Parts /\ b.data \in Part /\ b.data.part = offset + 1 /\ b.data.pic \in Pictures
    <3>1. b.data.part \in Parts /\ b.data.pic \in Pictures
      BY <1>4, <2>0 DEF Good
    <3>2. b.data \in Part
      BY <1>2 DEF Buffer
    <3> QED BY <1>6, <2>2, <3>1, <3>2 DEF Goes
  <2>4. /\ db' \in [size : 0..MaxParts, buf : [Parts -> Part], freed : BOOLEAN]
        /\ db'.size = db.size /\ db'.buf = [db.buf EXCEPT ![offset + 1] = b.data]
    <3>1. [db.buf EXCEPT ![offset + 1] = b.data] \in [Parts -> Part]
      BY <1>2, <2>3
    <3> QED BY <1>2, <2>1, <3>1
  <2>5. db'.buf[offset + 1] = b.data /\ \A i \in 1..offset : db'.buf[i] = db.buf[i]
    BY <1>2, <2>3, <2>4 DEF Parts
  <2>6. /\ b.flag \in {"none", "end"}
        /\ b.flag = "end" => b.data = D(b.data.pic, offset + 1, TRUE)
        /\ b.flag = "none" => b.data = D(b.data.pic, offset + 1, FALSE)
    BY <1>4, <2>0, <2>3 DEF Good
  <2>7. HerePic' = b.data.pic
    BY <2>1, <2>5 DEF HerePic
  <2>8. \A i \in 1..offset : db'.buf[i] = D(HerePic', i, FALSE)
    <3>1. offset > 0 => HerePic = b.data.pic
      BY <1>6, <2>2 DEF Goes
    <3>2. \A i \in 1..offset : db.buf[i] = D(HerePic, i, FALSE)
      BY <1>1 DEF BufOK
    <3> TAKE i \in 1..offset
    <3>3. offset > 0
      BY <1>2
    <3>4. db'.buf[i] = D(HerePic, i, FALSE)
      BY <2>5, <3>2
    <3> QED BY <2>7, <3>1, <3>3, <3>4
  <2>9. CbPart' = CbPart /\ CbPic' = CbPic
    BY <1>1, <1>3, <1>5, <2>1, <2>2, <2>3, <2>6, <2>7 DEF CbPart, CbPic, HerePart, Stands
  <2>10. TypesOK'
    <3>1. offset' \in 0..MaxParts /\ holder' \in Outputs \cup {Encoder, NoThread}
      BY <2>1, <2>3 DEF TypesOK, Parts
    <3> QED BY <1>1, <1>3, <2>4, <3>1 DEF TypesOK
  <2>11. LockOK'
    BY <1>1, <1>2, <1>3, <2>1 DEF LockOK
  <2>12. ChainOK'
    BY <1>1, <1>3, <1>5, <2>9 DEF ChainOK
  <2>13. ShotOK'
    BY <1>1, <1>3, <2>9 DEF ShotOK, Closed
  <2>14. BufOK'
    <3>1. CASE b.flag = "end"
      <4>1. db'.buf[offset'] = D(HerePic', offset', TRUE)
        BY <2>1, <2>5, <2>6, <2>7, <3>1
      <4>2. \A i \in 1..(offset' - 1) : db'.buf[i] = D(HerePic', i, FALSE)
        <5>1. offset' - 1 = offset
          BY <1>2, <2>1
        <5> QED BY <2>8, <5>1
      <4>3. cb'.at = "end" /\ offset' # 0
        BY <1>2, <1>3, <2>1, <3>1
      <4> QED BY <4>1, <4>2, <4>3 DEF BufOK
    <3>2. CASE b.flag = "none"
      <4>1. b.data = D(HerePic', offset + 1, FALSE)
        BY <2>6, <2>7, <3>2
      <4>2. \A i \in 1..(offset + 1) : db'.buf[i] = D(HerePic', i, FALSE)
        <5>1. db'.buf[offset + 1] = D(HerePic', offset + 1, FALSE)
          BY <2>5, <4>1
        <5>2. \A i \in 1..(offset + 1) : i = offset + 1 \/ i \in 1..offset
          BY <1>2
        <5> QED BY <2>8, <5>1, <5>2
      <4>3. cb'.at # "end" /\ offset' # 0
        BY <1>2, <1>3, <2>1, <3>2
      <4> QED BY <2>1, <4>2, <4>3 DEF BufOK
    <3> QED BY <2>6, <3>1, <3>2
  <2> QED BY <1>7, <1>8, <2>10, <2>11, <2>12, <2>13, <2>14
<1> QED BY <1>9, <1>10

\* The last part: the picture is announced and the lock given back.
LEMMA EndKeeps ==
    ASSUME Sound, EndPicture
    PROVE  Sound'
<1> USE RaspiCamAssumption DEF Sound
<1>1. /\ cb.at = "end" /\ cb' = [cb EXCEPT !.at = "release"] /\ offset' = 0 /\ holder' = NoThread
      /\ db' = [db EXCEPT !.size = offset]
      /\ pc' = [o \in Outputs |-> IF pc[o] = "wait" THEN "woken" ELSE pc[o]]
      /\ UNCHANGED <<queue, copy, worker, action, enabled, vc, shot>>
  BY DEF EndPicture, CallbackTo, portVars, workerVars
<1>2. /\ cb \in [at : CallbackSteps, buffer : Buffer]
      /\ db \in [size : 0..MaxParts, buf : [Parts -> Part], freed : BOOLEAN]
      /\ offset \in 0..MaxParts
  BY DEF TypesOK
<1>3. /\ cb' \in [at : CallbackSteps, buffer : Buffer] /\ cb'.buffer = cb.buffer
      /\ cb'.at = "release"
  BY <1>1, <1>2 DEF CallbackSteps
<1>4. /\ db' \in [size : 0..MaxParts, buf : [Parts -> Part], freed : BOOLEAN]
      /\ db'.size = offset /\ db'.buf = db.buf
  BY <1>1, <1>2
<1>5. holder = Encoder /\ offset > 0
  BY <1>1, <1>2 DEF LockOK
<1>6. \A o \in Outputs : pc[o] \notin {"copy", "unlock"} /\ pc'[o] \notin {"copy", "unlock"}
  BY <1>1, <1>5 DEF LockOK
<1>7. ~Entering /\ ~Entering' /\ HerePart = 0 /\ HerePart' = 0 /\ CbPart = 0 /\ CbPart' = 0
  BY <1>1, <1>3 DEF Entering, HerePart, CbPart
<1>8. TypesOK'
  <2>1. pc' \in [Outputs -> {"test", "wait", "woken", "copy", "unlock", "ended"}]
    BY <1>1 DEF TypesOK
  <2>2. offset' \in 0..MaxParts /\ holder' \in Outputs \cup {Encoder, NoThread}
    BY <1>1
  <2>3. UNCHANGED <<queue, copy, vc, shot>>
    BY <1>1
  <2> QED BY <1>3, <1>4, <2>1, <2>2, <2>3 DEF TypesOK
<1>9. LockOK' /\ CopyOK'
  BY <1>1, <1>3, <1>6 DEF LockOK, CopyOK
<1>10. PortOK'
  BY <1>1 DEF PortOK, Closing, Closed
<1>11. ChainOK'
  BY <1>1, <1>3, <1>7 DEF ChainOK, Goes
<1>12. ShotOK'
  BY <1>1, <1>3, <1>7 DEF ShotOK, Closed
<1>13. BufOK'
  <2>1. /\ \A i \in 1..(offset - 1) : db.buf[i] = D(db.buf[offset].pic, i, FALSE)
        /\ db.buf[offset] = D(db.buf[offset].pic, offset, TRUE)
    BY <1>1 DEF BufOK, HerePic
  <2>2. /\ \A i \in 1..(db'.size - 1) : db'.buf[i] = D(db'.buf[db'.size].pic, i, FALSE)
        /\ db'.buf[db'.size] = D(db'.buf[db'.size].pic, db'.size, TRUE)
    BY <1>4, <2>1
  <2>3. offset' = 0
    BY <1>1
  <2>4. \A i \in 1..offset' : db'.buf[i] = D(HerePic', i, FALSE)
    BY <2>3
  <2> QED BY <1>3, <2>2, <2>4 DEF BufOK
<1> QED BY <1>8, <1>9, <1>10, <1>11, <1>12, <1>13

\* The next buffer of the queue is the callback's.
LEMMA HeadKeeps ==
    ASSUME Sound, cb.at = "none", queue # <<>>,
           cb' = [at |-> "enter", buffer |-> Head(queue)], queue' = Tail(queue),
           UNCHANGED <<offset, db, holder, pc, copy, shot, vc>>, PortOK', Closed' <=> Closed
    PROVE  Sound'
<1> USE DEF Sound
<1>1. queue \in Seq(Buffer) /\ Len(queue) \in Nat /\ Len(queue) > 0
  BY DEF TypesOK
<1>2. /\ cb'.at = "enter" /\ cb'.buffer = queue[1] /\ queue[1] \in Buffer
      /\ cb' \in [at : CallbackSteps, buffer : Buffer]
  BY <1>1 DEF CallbackSteps
<1>3. /\ queue' \in Seq(Buffer) /\ Len(queue') = Len(queue) - 1
      /\ \A i \in 1..Len(queue') : queue'[i] = queue[i + 1]
      /\ queue' = <<>> <=> Len(queue) = 1
  <2>1. queue' = Tail(queue) /\ queue # <<>>
    OBVIOUS
  <2>2. queue' \in Seq(Buffer) /\ Len(queue') = Len(queue) - 1
    BY <1>1, <2>1
  <2>3. \A i \in 1..Len(queue') : queue'[i] = queue[i + 1]
    BY <1>1, <2>1
  <2>4. queue' = <<>> <=> Len(queue') = 0
    BY <2>2, NoLength
  <2> QED BY <1>1, <2>2, <2>3, <2>4
<1>4. /\ ~Entering /\ CbPart = offset /\ HerePart' = offset /\ CbPic = HerePic /\ HerePic' = HerePic
      /\ Entering' <=> Full(queue[1])
      /\ CbPart' = IF Full(queue[1]) THEN Stands(queue[1]) ELSE offset
      /\ Full(queue[1]) => CbPic' = queue[1].data.pic
  BY <1>2 DEF Entering, CbPart, HerePart, CbPic, HerePic
<1>5. TypesOK'
  BY <1>2, <1>3 DEF TypesOK
<1>6. LockOK' /\ CopyOK' /\ BufOK'
  BY <1>2, <1>4 DEF LockOK, CopyOK, BufOK
<1>7. ChainOK'
  <2>1. Good(cb'.buffer) /\ \A i \in 1..Len(queue') : Good(queue'[i])
    BY <1>1, <1>2, <1>3 DEF ChainOK
  <2>2. Entering' => Goes(HerePic', HerePart', cb'.buffer)
    BY <1>2, <1>4 DEF ChainOK
  <2>3. queue' # <<>> /\ Full(queue'[1]) => Full(queue[1]) /\ Goes(CbPic', CbPart', queue'[1])
    BY <1>1, <1>3, <1>4 DEF ChainOK
  <2>4. ASSUME NEW i \in 1..(Len(queue') - 1), Full(queue'[i + 1])
        PROVE  Full(queue'[i]) /\ Goes(queue'[i].data.pic, Stands(queue'[i]), queue'[i + 1])
    <3>1. i + 1 \in 1..(Len(queue) - 1) /\ queue'[i] = queue[i + 1] /\ queue'[i + 1] = queue[i + 2]
      BY <1>1, <1>3
    <3>2. (i + 1) + 1 = i + 2
      OBVIOUS
    <3> QED BY <2>4, <3>1, <3>2 DEF ChainOK
  <2> QED BY <1>2, <2>1, <2>2, <2>3, <2>4 DEF ChainOK
<1>8. ShotOK'
  <2> SUFFICES ASSUME ~Closed
               PROVE  /\ \A i \in 1..Len(queue') : Full(queue'[i])
                      /\ Full(queue[1])
                      /\ IF queue' = <<>>
                         THEN shot.part = CbPart' /\ (shot.part > 0 => shot.pic = CbPic')
                         ELSE /\ shot.part = Stands(queue'[Len(queue')])
                              /\ shot.part > 0 => shot.pic = queue'[Len(queue')].data.pic
    BY <1>2 DEF ShotOK
  <2>1. \A i \in 1..Len(queue) : Full(queue[i])
    BY DEF ShotOK
  <2>2. /\ shot.part = Stands(queue[Len(queue)])
        /\ shot.part > 0 => shot.pic = queue[Len(queue)].data.pic
    BY DEF ShotOK
  <2>3. CASE queue' = <<>>
    BY <1>1, <1>3, <1>4, <2>1, <2>2, <2>3
  <2>4. CASE queue' # <<>>
    <3>1. queue'[Len(queue')] = queue[Len(queue)]
      BY <1>1, <1>3, <2>4
    <3> QED BY <1>1, <1>3, <2>1, <2>2, <2>4, <3>1
  <2> QED BY <2>3, <2>4
<1> QED BY <1>5, <1>6, <1>7, <1>8

LEMMA CallKeeps ==
    ASSUME Sound, ActionBegins \/ Drain
    PROVE  Sound'
<1>1. /\ UNCHANGED <<offset, db, holder, pc, copy, shot, vc, enabled>> /\ cb.at = "none"
  BY DEF ActionBegins, Drain, NoCall, outVars, Sound, PortOK
<1>2. CASE ActionBegins \/ queue # <<>>
  <2>1. /\ queue # <<>> /\ cb' = [at |-> "enter", buffer |-> Head(queue)] /\ queue' = Tail(queue)
        /\ action' \in {"thread", "worker"} /\ worker' = worker
    BY <1>2 DEF ActionBegins, Drain, workerVars
  <2>2. PortOK'
    BY <1>1, <2>1 DEF Sound, PortOK, Closing, Closed
  <2> QED BY <1>1, <2>1, <2>2, HeadKeeps DEF Closed
<1>3. CASE Drain /\ queue = <<>>
  <2>1. /\ UNCHANGED <<queue, cb>> /\ worker = "drain" /\ worker' = "transit"
    BY <1>3 DEF Drain
  <2>2. PortOK'
    BY <1>1, <2>1 DEF Sound, PortOK, Closing, Closed
  <2>3. /\ db \in [size : 0..MaxParts, buf : [Parts -> Part], freed : BOOLEAN]
        /\ cb \in [at : CallbackSteps, buffer : Buffer] /\ vc \in Nat
    BY DEF Sound, TypesOK
  <2> QED BY <1>1, <2>1, <2>2, <2>3, Beside DEF Closed
<1> QED BY <1>2, <1>3

\* The port is closed: VideoCore sends its buffers back empty, behind those that
\* are under way.
LEMMA AskKeeps ==
    ASSUME Sound, AskBack
    PROVE  Sound'
<1> USE DEF Sound
<1>1. /\ worker = "lock" /\ worker' = "drain" /\ action = "nobody" /\ action' = "worker" /\ vc' = 0
      /\ queue' = queue \o [b \in 1..vc |-> Empty]
      /\ UNCHANGED <<enabled, shot, cb, offset, db, holder, pc, copy>>
  BY DEF AskBack, WorkerGoto, outVars
<1>2. cb.at = "none" /\ ~Entering /\ ~Entering'
  BY <1>1 DEF PortOK, Entering
<1>3. [b \in 1..vc |-> Empty] \in Seq(Buffer) /\ Len([b \in 1..vc |-> Empty]) = vc
  <2>1. vc \in Nat /\ [b \in 1..vc |-> Empty] \in [1..vc -> Buffer]
    BY EmptyIsBuffer DEF TypesOK
  <2> QED BY <2>1
<1>4. queue \in Seq(Buffer) /\ Len(queue) \in Nat /\ vc \in Nat
  BY DEF TypesOK
<1>5. /\ queue' \in Seq(Buffer) /\ Len(queue') = Len(queue) + vc
      /\ \A i \in 1..Len(queue') : queue'[i] = IF i <= Len(queue) THEN queue[i] ELSE Empty
  BY <1>1, <1>3, <1>4
<1>6. ~Full(Empty) /\ Good(Empty)
  BY DEF Full, Good, Empty
<1>7. HerePart' = HerePart /\ HerePic' = HerePic /\ CbPart' = CbPart /\ CbPic' = CbPic
  BY <1>1, <1>2 DEF HerePart, HerePic, CbPart, CbPic
<1>8. TypesOK'
  BY <1>1, <1>5 DEF TypesOK
<1>9. LockOK' /\ CopyOK' /\ BufOK'
  BY <1>1, <1>7 DEF LockOK, CopyOK, BufOK
<1>10. PortOK' /\ ShotOK'
  BY <1>1 DEF PortOK, ShotOK, Closing, Closed
<1>11. ChainOK'
  <2>1. \A i \in 1..Len(queue') : Good(queue'[i])
    BY <1>4, <1>5, <1>6 DEF ChainOK
  <2>2. queue' # <<>> /\ Full(queue'[1]) => Goes(CbPic', CbPart', queue'[1])
    <3> SUFFICES ASSUME queue' # <<>>, Full(queue'[1]) PROVE Goes(CbPic', CbPart', queue'[1])
      OBVIOUS
    <3>1. 1 \in 1..Len(queue')
      BY <1>5, NoLength
    <3>2. 1 <= Len(queue) /\ queue'[1] = queue[1]
      BY <1>5, <1>6, <3>1
    <3>3. queue # <<>>
      BY <1>4, <3>2, NoLength
    <3> QED BY <1>7, <3>2, <3>3 DEF ChainOK
  <2>3. ASSUME NEW i \in 1..(Len(queue') - 1), Full(queue'[i + 1])
        PROVE  Full(queue'[i]) /\ Goes(queue'[i].data.pic, Stands(queue'[i]), queue'[i + 1])
    <3>1. i \in 1..Len(queue') /\ i + 1 \in 1..Len(queue')
      BY <1>4, <1>5
    <3>2. i + 1 <= Len(queue)
      BY <1>5, <1>6, <2>3, <3>1
    <3>3. i \in 1..(Len(queue) - 1) /\ queue'[i] = queue[i] /\ queue'[i + 1] = queue[i + 1]
      BY <1>4, <1>5, <3>1, <3>2
    <3> QED BY <2>3, <3>3 DEF ChainOK
  <2> QED BY <1>1, <1>2, <2>1, <2>2, <2>3 DEF ChainOK
<1> QED BY <1>8, <1>9, <1>10, <1>11

-----------------------------------------------------------------------------
(* The outputs, and all steps.                                             *)

\* The picture in in->buf is whole when an output copies it.
LEMMA CopiedWhole ==
    ASSUME Sound, offset = 0
    PROVE  Whole(SubSeq(db.buf, 1, db.size)) /\ SubSeq(db.buf, 1, db.size) \in Seq(Part)
<1> USE RaspiCamAssumption
<1>1. db.size \in 0..MaxParts /\ db.buf \in [1..MaxParts -> Part] /\ db.buf \in Seq(Part)
  BY DEF Sound, TypesOK, Parts
<1> DEFINE c == SubSeq(db.buf, 1, db.size)
<1>2. c \in Seq(Part) /\ Len(c) = db.size /\ \A i \in 1..db.size : c[i] = db.buf[i]
  BY <1>1
<1>3. CASE db.size = 0
  <2>1. c = <<>>
    BY <1>2, <1>3, NoLength
  <2> QED BY <1>2, <2>1 DEF Whole
<1>4. CASE db.size > 0
  <2> DEFINE p == db.buf[db.size].pic
  <2>1. /\ \A i \in 1..(db.size - 1) : db.buf[i] = D(p, i, FALSE)
        /\ db.buf[db.size] = D(p, db.size, TRUE)
    BY <1>4 DEF Sound, BufOK
  <2>2. p \in Pictures
    BY <1>1, <1>4 DEF Part
  <2>3. \A i \in 1..Len(c) : c[i] = [pic |-> p, part |-> i, last |-> i = Len(c)]
    <3> TAKE i \in 1..Len(c)
    <3>1. CASE i = db.size
      BY <1>2, <2>1, <3>1 DEF D
    <3>2. CASE i # db.size
      <4>1. i \in 1..(db.size - 1) /\ (i = Len(c)) = FALSE
        BY <1>1, <1>2, <3>2
      <4> QED BY <1>2, <2>1, <4>1 DEF D
    <3> QED BY <3>1, <3>2
  <2>4. c = [i \in 1..Len(c) |-> c[i]]
    BY <1>2
  <2>5. c = [i \in 1..Len(c) |-> [pic |-> p, part |-> i, last |-> i = Len(c)]]
    BY <2>3, <2>4
  <2> QED BY <1>2, <2>2, <2>5 DEF Whole
<1> QED BY <1>1, <1>3, <1>4

LEMMA OutKeeps ==
    ASSUME Sound, NEW o \in Outputs, OutNext(o)
    PROVE  Sound'
<1> USE RaspiCamAssumption DEF Sound
<1>1. UNCHANGED <<queue, offset, db, cb, shot, vc, worker, action, enabled>>
  BY DEF OutNext, BeginWait, Wake, CopyPicture, Unlock, portVars, workerVars, cbVars
<1>2. HerePart' = HerePart /\ HerePic' = HerePic /\ CbPart' = CbPart /\ CbPic' = CbPic
      /\ (Entering' <=> Entering) /\ (Closed' <=> Closed) /\ (Closing' <=> Closing)
  BY <1>1 DEF HerePart, HerePic, CbPart, CbPic, Entering, Closed, Closing
<1>3. PortOK' /\ ChainOK' /\ ShotOK' /\ BufOK'
  BY <1>1, <1>2 DEF PortOK, ChainOK, ShotOK, BufOK
<1>4. PICK to \in {"wait", "ended", "copy", "unlock", "test"} : pc' = [pc EXCEPT ![o] = to]
  BY DEF OutNext, BeginWait, Wake, CopyPicture, Unlock, OutGoto
<1>5. pc'[o] = to /\ \A u \in Outputs : u # o => pc'[u] = pc[u]
  BY <1>4 DEF TypesOK
<1>6. pc' \in [Outputs -> {"test", "wait", "woken", "copy", "unlock", "ended"}]
  BY <1>4 DEF TypesOK
<1>7. CASE BeginWait(o)
  <2>1. holder' = holder /\ copy' = copy /\ to \in {"wait", "ended"}
    BY <1>4, <1>5, <1>7 DEF BeginWait, OutGoto, TypesOK
  <2>2. TypesOK' /\ LockOK' /\ CopyOK'
    BY <1>1, <1>5, <1>6, <2>1 DEF TypesOK, LockOK, CopyOK
  <2> QED BY <1>3, <2>2
<1>8. CASE Wake(o)
  <2>1. holder = NoThread /\ holder' = o /\ copy' = copy /\ to = "copy"
    BY <1>5, <1>8 DEF Wake, OutGoto, TypesOK
  <2>2. TypesOK' /\ LockOK' /\ CopyOK'
    BY <1>1, <1>5, <1>6, <2>1 DEF TypesOK, LockOK, CopyOK
  <2> QED BY <1>3, <2>2
<1>9. CASE CopyPicture(o)
  <2>1. /\ holder' = holder /\ pc[o] = "copy" /\ to = "unlock"
        /\ copy' = [copy EXCEPT ![o] = SubSeq(db.buf, 1, db.size)]
    BY <1>5, <1>9 DEF CopyPicture, OutGoto, TypesOK
  <2>2. holder = o /\ offset = 0
    BY <2>1 DEF LockOK, TypesOK
  <2>3. Whole(SubSeq(db.buf, 1, db.size)) /\ SubSeq(db.buf, 1, db.size) \in Seq(Part)
    BY <2>2, CopiedWhole
  <2> HIDE DEF Sound
  <2>4. copy' \in [Outputs -> Seq(Part)] /\ copy'[o] = SubSeq(db.buf, 1, db.size)
        /\ \A u \in Outputs : u # o => copy'[u] = copy[u]
    BY <2>1, <2>3 DEF Sound, TypesOK
  <2>5. TypesOK' /\ LockOK'
    BY <1>1, <1>5, <1>6, <2>1, <2>2, <2>4 DEF Sound, TypesOK, LockOK
  <2>6. CopyOK'
    BY <1>5, <2>3, <2>4 DEF Sound, CopyOK
  <2> QED BY <1>3, <2>5, <2>6 DEF Sound
<1>10. CASE Unlock(o)
  <2>1. /\ holder' = NoThread /\ pc[o] = "unlock" /\ to = "test"
        /\ copy' = [copy EXCEPT ![o] = <<>>]
    BY <1>5, <1>10 DEF Unlock, OutGoto, TypesOK
  <2>2. holder = o
    BY <2>1 DEF LockOK
  <2>3. copy' \in [Outputs -> Seq(Part)] /\ \A u \in Outputs : u # o => copy'[u] = copy[u]
    BY <2>1 DEF TypesOK
  <2>4. TypesOK'
    BY <1>1, <1>6, <2>1, <2>3 DEF TypesOK
  <2>5. LockOK'
    BY <1>1, <1>5, <2>1, <2>2 DEF LockOK
  <2>6. CopyOK'
    BY <1>5, <2>1, <2>3 DEF CopyOK
  <2> QED BY <1>3, <2>4, <2>5, <2>6
<1> QED BY <1>7, <1>8, <1>9, <1>10 DEF OutNext

LEMMA RaspiStep == RaspiInv /\ [Next]_vars => RaspiInv'
<1> SUFFICES ASSUME RaspiInv, [Next]_vars PROVE RaspiInv'
  OBVIOUS
<1>1. faults \in Nat /\ (faults = 0 => Sound)
  BY DEF RaspiInv
<1>2. faults' = faults \/ faults' = faults + 1
  BY DEF Next, WorkerNext, Start, Test, Count, Take, Send, Capture, Wait, Disable, AskBack, Drain,
         Transit, FreeBuf, Fill, Fail, ActionBegins, Callback, Enter, EndPicture, Release, GetBuffer,
         SendBack, Return, Stop, OutNext, BeginWait, Wake, CopyPicture, Unlock, vars
<1>3. SUFFICES ASSUME faults' = 0 PROVE Sound'
  BY <1>1, <1>2 DEF RaspiInv
<1>4. faults = 0 /\ faults' = faults /\ Sound
  BY <1>1, <1>2, <1>3
<1>5. CASE WorkerNext \/ Stop
  BY <1>4, <1>5, WorkerKeeps, AskKeeps, CallKeeps, FreeKeeps DEF WorkerNext
<1>6. CASE Fill
  BY <1>1, <1>4, <1>6, FillKeeps
<1>7. CASE ActionBegins \/ Callback
  BY <1>4, <1>7, CallKeeps, EnterKeeps, EndKeeps, BackKeeps DEF Callback
<1>8. CASE \E o \in Outputs : OutNext(o)
  BY <1>4, <1>8, OutKeeps
<1>9. CASE UNCHANGED vars
  <2>1. UNCHANGED <<queue, offset, holder, pc, copy, shot, db, cb, vc, action, enabled, worker>>
    BY <1>9 DEF vars, workerVars, portVars, cbVars, outVars
  <2>2. PortOK' /\ (Closed => Closed')
    BY <1>4, <2>1 DEF Sound, PortOK, Closing, Closed
  <2>3. /\ db \in [size : 0..MaxParts, buf : [Parts -> Part], freed : BOOLEAN]
        /\ cb \in [at : CallbackSteps, buffer : Buffer] /\ vc \in Nat
    BY <1>4 DEF Sound, TypesOK
  <2> QED BY <1>4, <2>1, <2>2, <2>3, Beside
<1> QED BY <1>5, <1>6, <1>7, <1>8, <1>9 DEF Next

LEMMA RaspiAlways == Spec => []RaspiInv
  BY RaspiInit, RaspiStep, PTL DEF Spec

\* What an output copies is one whole picture, although the callback holds the
\* mutex from one call to another and two threads make the calls: as long as no
\* transfer fails, for any number of parts, buffers and outputs.
THEOREM PicturesWhole == Spec => []HandedWhole
<1>1. RaspiInv => HandedWhole
  <2> SUFFICES ASSUME RaspiInv, NEW o \in Outputs, pc[o] = "unlock", ~(faults > 0)
               PROVE  Whole(copy[o])
    BY DEF HandedWhole
  <2>1. faults = 0
    BY DEF RaspiInv
  <2> QED BY <2>1 DEF RaspiInv, Sound, CopyOK
<1> QED BY <1>1, RaspiAlways, PTL

\* Between two calls the callback holds the mutex exactly in the middle of a
\* picture: as long as no transfer fails, for any number of parts and buffers.
THEOREM LockWithinPicture == Spec => []LockedWithinPicture
<1>1. RaspiInv => LockedWithinPicture
  BY DEF RaspiInv, Sound, LockOK, LockedWithinPicture
<1> QED BY <1>1, RaspiAlways, PTL

-----------------------------------------------------------------------------
(* The buffers, whatever fails.                                            *)

ShotTyped ==
    /\ shot \in [pic : Pictures, part : 0..MaxParts, of : Parts]
    /\ shot.part < shot.of

\* Nobody is in the callback unless action_mutex is held.
PlacesOK ==
    /\ pool \in Nat /\ vc \in Nat /\ lost \in Nat
    /\ queue \in Seq(Buffer)
    /\ cb \in [at : CallbackSteps, buffer : Buffer]
    /\ action = "nobody" => cb.at = "none"

CountInv == ShotTyped /\ PlacesOK /\ EachBufferOnce

LEMMA NextPart ==
    ASSUME ShotTyped, NEW of \in Parts
    PROVE  /\ Filled(of).pic \in Pictures /\ Filled(of).of \in Parts
           /\ Filled(of).part \in 1..Filled(of).of /\ Filled(of).part \in Parts
           /\ Filled(of) = [pic |-> Filled(of).pic, part |-> Filled(of).part, of |-> Filled(of).of]
<1> USE RaspiCamAssumption DEF ShotTyped
<1>1. CASE shot.part = 0
  BY <1>1 DEF Filled, Pictures, Parts
<1>2. CASE shot.part > 0
  BY <1>2 DEF Filled, Parts
<1> QED BY <1>1, <1>2

LEMMA CountFill ==
    ASSUME CountInv, Fill
    PROVE  CountInv'
<1> USE RaspiCamAssumption DEF CountInv
<1>1. PICK of \in Parts, length \in {0, 1}, flag \in {"none", "end", "failed"} :
        LET s    == Filled(of)
            last == s.part = s.of
            data == [pic |-> s.pic, part |-> s.part, last |-> last]
        IN  /\ shot' = IF last THEN [s EXCEPT !.part = 0, !.of = 1] ELSE s
            /\ queue' = Append(queue, [length |-> length, data |-> data, flag |-> flag])
  BY DEF Fill
<1> DEFINE s    == Filled(of)
           data == [pic |-> s.pic, part |-> s.part, last |-> s.part = s.of]
           b    == [length |-> length, data |-> data, flag |-> flag]
<1>2. b \in Buffer
  <2>1. data \in Part
    BY NextPart DEF Part
  <2> QED BY <2>1 DEF Buffer
<1>8. queue' = Append(queue, b)
  BY <1>1
<1>9. shot' = IF s.part = s.of THEN [s EXCEPT !.part = 0, !.of = 1] ELSE s
  BY <1>1
<1> HIDE DEF b, s
<1>3. queue' \in Seq(Buffer) /\ Len(queue') = Len(queue) + 1 /\ Len(queue) \in Nat
  BY <1>2, <1>8 DEF PlacesOK
<1>4. /\ UNCHANGED <<pool, lost, cb, worker, action>>
      /\ vc > 0 /\ vc' = vc - 1
  BY DEF Fill, workerVars, cbVars
<1>5. ShotTyped'
  <2>1. CASE s.part = s.of
    <3>1. shot' = [pic |-> s.pic, part |-> 0, of |-> 1]
      <4>1. s = [pic |-> s.pic, part |-> s.part, of |-> s.of]
        BY NextPart DEF s
      <4> QED BY <1>9, <2>1, <4>1
    <3> QED BY <3>1, NextPart DEF s, ShotTyped, Parts
  <2>2. CASE s.part # s.of
    BY <1>9, <2>2, NextPart DEF s, ShotTyped, Parts
  <2> QED BY <2>1, <2>2
<1>6. PlacesOK'
  BY <1>3, <1>4 DEF PlacesOK
<1>7. EachBufferOnce'
  BY <1>3, <1>4 DEF EachBufferOnce, PlacesOK, InHand, WorkerHand
<1> QED BY <1>5, <1>6, <1>7

\* The callback passes its buffer on, and takes one from the pool and sends it.
LEMMA CountCallback ==
    ASSUME CountInv, Callback
    PROVE  CountInv'
<1> USE EmptyIsBuffer DEF CountInv, PlacesOK, CallbackTo, CallbackSteps
<1>1. UNCHANGED <<worker, shot, queue>> /\ Len(queue) \in Nat
  BY DEF Callback, Enter, EndPicture, Release, GetBuffer, SendBack, Return, workerVars, portVars
<1>2. CASE Enter \/ EndPicture
  <2>1. /\ UNCHANGED <<pool, vc, lost, action>> /\ cb.at \in {"enter", "end"}
        /\ \E at \in {"release", "end"} : cb' = [cb EXCEPT !.at = at]
    BY <1>2 DEF Enter, EndPicture, portVars
  <2> QED BY <1>1, <2>1 DEF ShotTyped, EachBufferOnce, InHand, WorkerHand
<1>3. CASE Release
  <2>1. /\ UNCHANGED <<vc, lost, action>> /\ cb.at = "release" /\ pool' = pool + 1
        /\ \E at \in {"get", "post"} : cb' = [cb EXCEPT !.at = at]
    BY <1>3 DEF Release
  <2>2. InHand = 1 /\ InHand' = 0 /\ WorkerHand' = WorkerHand /\ WorkerHand \in {0, 1}
    BY <1>1, <2>1 DEF InHand, WorkerHand
  <2>3. PlacesOK'
    BY <1>1, <2>1
  <2>4. EachBufferOnce'
    BY <1>1, <2>1, <2>2 DEF EachBufferOnce
  <2> QED BY <1>1, <2>3, <2>4 DEF ShotTyped
<1>4. CASE GetBuffer
  <2>1. /\ UNCHANGED <<vc, lost, action>> /\ cb.at = "get"
        /\ \/ pool' = pool /\ cb' = [cb EXCEPT !.at = "post"]
           \/ pool > 0 /\ pool' = pool - 1 /\ cb' = [cb EXCEPT !.at = "send"]
    BY <1>4 DEF GetBuffer
  <2>2. /\ InHand = 0 /\ WorkerHand' = WorkerHand /\ WorkerHand \in {0, 1}
        /\ InHand' \in {0, 1} /\ pool' = pool - InHand'
    BY <1>1, <2>1 DEF InHand, WorkerHand
  <2>3. PlacesOK'
    BY <1>1, <2>1
  <2>4. EachBufferOnce'
    BY <1>1, <2>1, <2>2 DEF EachBufferOnce
  <2> QED BY <1>1, <2>3, <2>4 DEF ShotTyped
<1>5. CASE SendBack
  <2>1. /\ UNCHANGED <<pool, action>> /\ cb.at = "send" /\ cb' = [cb EXCEPT !.at = "post"]
        /\ (vc' = vc + 1 /\ lost' = lost) \/ (lost' = lost + 1 /\ vc' = vc)
    BY <1>5 DEF SendBack, SendBuffer
  <2>2. InHand = 1 /\ InHand' = 0 /\ WorkerHand' = WorkerHand /\ WorkerHand \in {0, 1}
    BY <1>1, <2>1 DEF InHand, WorkerHand
  <2>3. PlacesOK'
    BY <1>1, <2>1
  <2>4. EachBufferOnce'
    <3>1. CASE vc' = vc + 1 /\ lost' = lost
      BY <1>1, <2>1, <2>2, <3>1 DEF EachBufferOnce
    <3>2. CASE lost' = lost + 1 /\ vc' = vc
      <4> DEFINE rest == pool + vc + Len(queue)
                 w    == WorkerHand
      <4>1. rest \in Nat /\ rest + 1 + w + lost = NBuffers /\ w \in {0, 1} /\ lost \in Nat
        BY <1>1, <2>2 DEF EachBufferOnce
      <4>2. rest + 0 + w + (lost + 1) = NBuffers => EachBufferOnce'
        BY <1>1, <2>1, <2>2, <3>2 DEF EachBufferOnce
      <4> HIDE DEF rest, w
      <4> QED BY ONLY <4>1, <4>2, SMT
    <3> QED BY <2>1, <3>1, <3>2
  <2> QED BY <1>1, <2>3, <2>4 DEF ShotTyped
<1>6. CASE Return
  <2>1. UNCHANGED <<pool, vc, lost>> /\ cb.at = "post" /\ cb' = NoCall
    BY <1>6 DEF Return, portVars
  <2> QED BY <1>1, <2>1 DEF ShotTyped, EachBufferOnce, InHand, WorkerHand, NoCall
<1> QED BY <1>2, <1>3, <1>4, <1>5, <1>6 DEF Callback

\* Who holds action_mutex takes a buffer from the callback queue.
LEMMA CountHead ==
    ASSUME CountInv, ActionBegins \/ Drain
    PROVE  CountInv'
<1> USE EmptyIsBuffer DEF CountInv, PlacesOK
<1>1. /\ UNCHANGED <<pool, vc, lost, shot>> /\ cb.at = "none"
      /\ (worker # "send" /\ worker' # "send") \/ worker' = worker
  BY DEF ActionBegins, Drain, workerVars, NoCall
<1>2. CASE queue # <<>> /\ queue' = Tail(queue) /\ cb' = [at |-> "enter", buffer |-> Head(queue)]
  <2>1. /\ queue' \in Seq(Buffer) /\ Len(queue') = Len(queue) - 1 /\ Head(queue) \in Buffer
        /\ Len(queue) \in Nat
    BY <1>2
  <2>2. action' # "nobody"
    BY <1>2 DEF ActionBegins, Drain
  <2>3. /\ InHand = 0 /\ InHand' = 1
        /\ WorkerHand' = WorkerHand /\ WorkerHand \in {0, 1}
    BY <1>1, <1>2 DEF InHand, WorkerHand
  <2>4. PlacesOK'
    BY <1>1, <1>2, <2>1, <2>2 DEF CallbackSteps
  <2>5. EachBufferOnce'
    BY <1>1, <2>1, <2>3 DEF EachBufferOnce
  <2> QED BY <1>1, <2>4, <2>5 DEF ShotTyped
<1>3. CASE UNCHANGED <<queue, cb>>
  BY <1>1, <1>3 DEF ShotTyped, EachBufferOnce, InHand, WorkerHand
<1> QED BY <1>2, <1>3 DEF ActionBegins, Drain

\* The worker; VideoCore sends back what it has when the port is closed.
LEMMA CountWorker ==
    ASSUME CountInv, WorkerNext, ~Drain
    PROVE  CountInv'
<1> USE EmptyIsBuffer DEF CountInv, PlacesOK, WorkerGoto
<1>1. UNCHANGED <<shot, cb>>
  BY DEF WorkerNext, Start, Test, Count, Take, Send, Capture, Wait, Disable, AskBack, Transit,
         FreeBuf, portVars, cbVars
<1>2. Len(queue) \in Nat
  OBVIOUS
<1>3. CASE Start \/ Test \/ Count \/ Capture \/ Wait \/ Disable \/ Transit \/ FreeBuf
  <2>1. UNCHANGED <<pool, vc, lost, queue, action>> /\ worker # "send" /\ worker' # "send"
    BY <1>3 DEF Start, Test, Count, Capture, Wait, Disable, Transit, FreeBuf, portVars, cbVars
  <2> QED BY <1>1, <1>2, <2>1 DEF ShotTyped, EachBufferOnce, InHand, WorkerHand
<1>4. CASE Take
  <2>1. /\ UNCHANGED <<vc, lost, queue, action>> /\ worker = "take"
        /\ \/ pool' = pool /\ worker' = worker
           \/ pool > 0 /\ pool' = pool - 1 /\ worker' = "send"
    BY <1>4 DEF Take, cbVars
  <2>2. /\ InHand' = InHand /\ InHand \in {0, 1}
        /\ WorkerHand = 0 /\ WorkerHand' \in {0, 1} /\ (WorkerHand' = 1 <=> worker' = "send")
    BY <1>1, <2>1 DEF InHand, WorkerHand
  <2>3. PlacesOK'
    BY <1>1, <1>2, <2>1
  <2>4. EachBufferOnce'
    BY <1>1, <1>2, <2>1, <2>2 DEF EachBufferOnce
  <2> QED BY <1>1, <2>3, <2>4 DEF ShotTyped
<1>5. CASE Send
  <2>1. /\ UNCHANGED <<pool, queue, action>> /\ worker = "send" /\ worker' # "send"
        /\ (vc' = vc + 1 /\ lost' = lost) \/ (lost' = lost + 1 /\ vc' = vc)
    BY <1>5 DEF Send, SendBuffer, cbVars
  <2>2. WorkerHand = 1 /\ WorkerHand' = 0 /\ InHand' = InHand /\ InHand \in {0, 1}
    BY <1>1, <2>1 DEF InHand, WorkerHand
  <2>3. PlacesOK'
    BY <1>1, <2>1
  <2>4. EachBufferOnce'
    <3> DEFINE rest == pool + vc + Len(queue)
    <3>1. rest \in Nat /\ rest + InHand + 1 + lost = NBuffers /\ lost \in Nat
      BY <1>2, <2>2 DEF EachBufferOnce
    <3>2. CASE vc' = vc + 1 /\ lost' = lost
      BY <1>2, <2>1, <2>2, <3>2 DEF EachBufferOnce
    <3>3. CASE lost' = lost + 1 /\ vc' = vc
      <4>1. rest + InHand + 0 + (lost + 1) = NBuffers => EachBufferOnce'
        BY <1>2, <2>1, <2>2, <3>3 DEF EachBufferOnce
      <4> HIDE DEF rest
      <4> QED BY ONLY <2>2, <3>1, <4>1, SMT
    <3> QED BY <2>1, <3>2, <3>3
  <2> QED BY <1>1, <2>3, <2>4 DEF ShotTyped
<1>6. CASE AskBack
  <2>1. /\ UNCHANGED <<pool, lost>> /\ worker = "lock" /\ worker' = "drain"
        /\ action' = "worker" /\ vc' = 0 /\ queue' = queue \o [b \in 1..vc |-> Empty]
    BY <1>6 DEF AskBack
  <2>2. [b \in 1..vc |-> Empty] \in Seq(Buffer) /\ Len([b \in 1..vc |-> Empty]) = vc
    OBVIOUS
  <2>3. queue' \in Seq(Buffer) /\ Len(queue') = Len(queue) + vc
    BY <2>1, <2>2
  <2> QED BY <1>1, <1>2, <2>1, <2>3 DEF ShotTyped, EachBufferOnce, InHand, WorkerHand
<1> QED BY <1>3, <1>4, <1>5, <1>6 DEF WorkerNext

LEMMA CountBeside ==
    ASSUME CountInv, Stop \/ UNCHANGED vars \/ \E o \in Outputs : OutNext(o)
    PROVE  CountInv'
<1>1. UNCHANGED <<pool, vc, lost, queue, cb, action, worker, shot>>
  BY DEF Stop, vars, OutNext, BeginWait, Wake, CopyPicture, Unlock, workerVars, portVars, cbVars
<1> QED BY <1>1 DEF CountInv, ShotTyped, PlacesOK, EachBufferOnce, InHand, WorkerHand

-----------------------------------------------------------------------------
(* The same with the types of all variables: a picture is never longer than *)
(* in->buf, however many of its parts fail; and as long as none fails, the  *)
(* worker finds the buffers it counted.                                     *)

SwitchesTyped == stop \in BOOLEAN /\ stills \in BOOLEAN /\ enabled \in BOOLEAN /\ died \in BOOLEAN

RestTyped ==
    /\ worker \in WorkerSteps
    /\ todo \in 0..NBuffers /\ sem \in 0..2 /\ shots \in 0..2
    /\ action \in {"nobody", "thread", "worker"}
    /\ offset \in 0..MaxParts
    /\ db \in [size : 0..MaxParts, buf : [Parts -> Part], freed : BOOLEAN]
    /\ holder \in Outputs \cup {Encoder, NoThread}
    /\ pc \in [Outputs -> {"test", "wait", "woken", "copy", "unlock", "ended"}]
    /\ copy \in [Outputs -> Seq(Part)]
    /\ faults \in 0..MaxFaults

\* How many parts in->buf has at most when the callback is done with a buffer.
Behind(b) == IF b.flag = "none" THEN b.data.part ELSE 0
CbBehind  == IF cb.at = "enter" THEN Behind(cb.buffer) ELSE IF cb.at = "end" THEN 0 ELSE offset

\* From buffer i on there are only those that came back when the port was closed.
EmptyFrom(i) == Closed /\ \A j \in i..Len(queue) : queue[j].length = 0

\* Each part has a higher number than there are parts in in->buf before it.
RoomOK ==
    /\ cb.at = "enter" => offset < cb.buffer.data.part \/ (cb.buffer.length = 0 /\ EmptyFrom(1))
    /\ queue # <<>> => CbBehind < queue[1].data.part \/ EmptyFrom(1)
    /\ \A i \in 1..(Len(queue) - 1) : Behind(queue[i]) < queue[i + 1].data.part \/ EmptyFrom(i + 1)
    /\ ~Closed => IF queue = <<>> THEN CbBehind <= shot.part
                  ELSE Behind(queue[Len(queue)]) <= shot.part
    /\ Closing => ~enabled
    /\ Closed => vc = 0

LoopOK == worker \in {"take", "send"} => todo \in 1..NBuffers

\* Nothing is under way, and none of the first n buffers ends a picture.
Quiet    == shots = 0 /\ sem = 0 /\ queue = <<>> /\ cb.at = "none"
NoEnd(n) == \A i \in 1..n : queue[i].flag = "none"
CbNoEnd  == cb.at # "none" => cb.buffer.flag = "none"

\* A still that was asked for: VideoCore has not sent its last part, or that one is
\* the last in the queue, or the callback has it, or the semaphore was posted.
Pending ==
    \/ shots = 1 /\ sem = 0 /\ NoEnd(Len(queue)) /\ CbNoEnd
    \/ /\ shots = 0 /\ sem = 0 /\ queue # <<>> /\ NoEnd(Len(queue) - 1)
       /\ queue[Len(queue)].flag = "end" /\ CbNoEnd
    \/ shots = 0 /\ sem = 0 /\ queue = <<>> /\ cb.at # "none" /\ cb.buffer.flag = "end"
    \/ shots = 0 /\ sem = 1 /\ queue = <<>> /\ cb.at = "none"

\* The worker is before its next capture.
Requesting == worker \in {"start", "count", "take", "send", "capture"} \/ (stills /\ worker = "test")

CaptureOK ==
    /\ ~died
    /\ Requesting => Quiet
    /\ worker = "take" => pool = todo
    /\ worker = "send" => pool = todo - 1
    /\ worker = "wait" => stills /\ Pending

AccountInv ==
    /\ CountInv /\ SwitchesTyped /\ RestTyped /\ RoomOK /\ LoopOK
    /\ faults = 0 => CaptureOK

LEMMA CountStep == CountInv /\ [Next]_vars => CountInv'
  BY CountFill, CountCallback, CountHead, CountWorker, CountBeside DEF Next, WorkerNext

LEMMA PlacesBounded ==
    ASSUME CountInv
    PROVE  {pool, vc, lost} \subseteq 0..NBuffers
<1> DEFINE q == Len(queue)
           rest == q + InHand + WorkerHand
<1>1. q \in Nat /\ InHand \in Nat /\ WorkerHand \in Nat
  BY DEF CountInv, PlacesOK, InHand, WorkerHand
<1>2. rest \in Nat
  BY <1>1
<1>3. pool \in Nat /\ vc \in Nat /\ lost \in Nat
  BY DEF CountInv, PlacesOK
<1>4. pool + vc + rest + lost = NBuffers
  BY <1>1, <1>3 DEF CountInv, EachBufferOnce
<1> HIDE DEF rest
<1> QED BY <1>2, <1>3, <1>4, RaspiCamAssumption

LEMMA SwitchesStep == SwitchesTyped /\ [Next]_vars => SwitchesTyped'
<1> SUFFICES ASSUME SwitchesTyped, [Next]_vars PROVE SwitchesTyped'
  OBVIOUS
<1> USE DEF SwitchesTyped
<1>1. CASE UNCHANGED vars
  BY <1>1 DEF vars, portVars
<1>2. CASE Next
  <2>1. stills' = stills
    BY <1>2 DEF Next, WorkerNext, Start, Test, Count, Take, Send, Capture, Wait, Disable, AskBack,
           Drain, Transit, FreeBuf, Fill, ActionBegins, Callback, Enter, EndPicture, Release,
           GetBuffer, SendBack, Return, Stop, OutNext, BeginWait, Wake, CopyPicture, Unlock
  <2>2. stop' = stop \/ stop' = TRUE
    BY <1>2 DEF Next, WorkerNext, Start, Test, Count, Take, Send, Capture, Wait, Disable, AskBack,
           Drain, Transit, FreeBuf, Fill, ActionBegins, Callback, Enter, EndPicture, Release,
           GetBuffer, SendBack, Return, Stop, OutNext, BeginWait, Wake, CopyPicture, Unlock
  <2>3. died' = died \/ died' = TRUE
    BY <1>2 DEF Next, WorkerNext, Start, Test, Count, Take, Send, Capture, Wait, Disable, AskBack,
           Drain, Transit, FreeBuf, Fill, ActionBegins, Callback, Enter, EndPicture, Release,
           GetBuffer, SendBack, Return, Stop, OutNext, BeginWait, Wake, CopyPicture, Unlock
  <2>4. enabled' = enabled \/ enabled' = TRUE \/ enabled' = FALSE
    BY <1>2 DEF Next, WorkerNext, Start, Test, Count, Take, Send, Capture, Wait, Disable, AskBack,
           Drain, Transit, FreeBuf, Fill, ActionBegins, Callback, Enter, EndPicture, Release,
           GetBuffer, SendBack, Return, Stop, OutNext, BeginWait, Wake, CopyPicture, Unlock, portVars
  <2>5. stop' \in BOOLEAN /\ stills' \in BOOLEAN
    BY <2>1, <2>2, Zenon
  <2>6. died' \in BOOLEAN /\ enabled' \in BOOLEAN
    BY <2>3, <2>4, Zenon
  <2> QED BY <2>5, <2>6
<1> QED BY <1>1, <1>2

\* The worker's own variables.
LEMMA LoopStep ==
    ASSUME AccountInv, [Next]_vars
    PROVE  worker' \in WorkerSteps /\ todo' \in 0..NBuffers /\ sem' \in 0..2 /\ LoopOK'
<1> USE RaspiCamAssumption DEF AccountInv
<1>1. worker \in WorkerSteps /\ todo \in 0..NBuffers /\ sem \in 0..2
  BY DEF RestTyped
<1>2. CASE UNCHANGED <<worker, todo, sem>>
  BY <1>1, <1>2 DEF LoopOK
<1>3. CASE Start \/ Test \/ Take \/ Capture \/ Wait \/ Disable \/ AskBack \/ Drain \/ Transit \/ FreeBuf
  <2>1. /\ todo' = todo /\ (sem' = sem \/ (sem > 0 /\ sem' = sem - 1))
        /\ worker' = worker \/ worker' \in WorkerSteps \ {"take", "send"} \/ (worker = "take" /\ worker' = "send")
    BY <1>3 DEF Start, Test, Take, Capture, Wait, Disable, AskBack, Drain, Transit, FreeBuf, WorkerGoto,
                WorkerSteps, workerVars
  <2> QED BY <1>1, <2>1 DEF LoopOK, WorkerSteps
<1>4. CASE Count
  <2>1. pool \in 0..NBuffers
    BY PlacesBounded
  <2> QED BY <1>1, <1>4, <2>1 DEF Count, WorkerGoto, LoopOK, WorkerSteps
<1>5. CASE Send
  BY <1>1, <1>5 DEF Send, WorkerGoto, LoopOK, WorkerSteps
<1>6. CASE Return
  BY <1>1, <1>6 DEF Return, Post, LoopOK
<1>7. CASE Fill \/ ActionBegins \/ Enter \/ EndPicture \/ Release \/ GetBuffer \/ SendBack \/ Stop
  BY <1>2, <1>7 DEF Fill, ActionBegins, Enter, EndPicture, Release, GetBuffer, SendBack, Stop, workerVars
<1>8. CASE \E o \in Outputs : OutNext(o)
  BY <1>2, <1>8 DEF OutNext, BeginWait, Wake, CopyPicture, Unlock, workerVars
<1>9. CASE UNCHANGED vars
  BY <1>2, <1>9 DEF vars, workerVars
<1> QED BY <1>3, <1>4, <1>5, <1>6, <1>7, <1>8, <1>9 DEF Next, WorkerNext, Callback

LEMMA CopiedTyped ==
    ASSUME RestTyped
    PROVE  SubSeq(db.buf, 1, db.size) \in Seq(Part)
<1> USE RaspiCamAssumption
<1>1. db.size \in 0..MaxParts /\ db.buf \in [1..MaxParts -> Part] /\ db.buf \in Seq(Part)
  BY DEF RestTyped, Parts
<1> QED BY <1>1

\* The other types; Enter finds room for its part.
LEMMA RestStep ==
    ASSUME AccountInv, [Next]_vars
    PROVE  RestTyped'
<1> USE RaspiCamAssumption DEF AccountInv
<1>1. worker' \in WorkerSteps /\ todo' \in 0..NBuffers /\ sem' \in 0..2
  BY LoopStep
<1>2. RestTyped
  OBVIOUS
<1>3. CASE UNCHANGED <<shots, action, offset, db, holder, pc, copy, faults>>
  BY <1>1, <1>2, <1>3 DEF RestTyped
<1>4. CASE WorkerNext
  <2>1. /\ shots' \in {0, 2, shots + 1, shots} /\ (shots = 2 => shots' # shots + 1)
        /\ action' \in {"nobody", "worker", action}
        /\ UNCHANGED <<offset, holder, pc, copy, faults>>
    BY <1>4 DEF WorkerNext, Start, Test, Count, Take, Send, Capture, Wait, Disable, AskBack, Drain,
                Transit, FreeBuf, portVars, cbVars, outVars
  <2>2. db' = db \/ db' = [db EXCEPT !.freed = TRUE]
    BY <1>4 DEF WorkerNext, Start, Test, Count, Take, Send, Capture, Wait, Disable, AskBack, Drain,
                Transit, FreeBuf
  <2>3. db' \in [size : 0..MaxParts, buf : [Parts -> Part], freed : BOOLEAN]
    <3>1. db \in [size : 0..MaxParts, buf : [Parts -> Part], freed : BOOLEAN]
      BY <1>2 DEF RestTyped
    <3>2. CASE db' = db
      BY <3>1, <3>2
    <3>3. CASE db' = [db EXCEPT !.freed = TRUE]
      BY <3>1, <3>3
    <3> QED BY <2>2, <3>2, <3>3
  <2>4. shots' \in 0..2 /\ action' \in {"nobody", "thread", "worker"}
    BY <1>2, <2>1 DEF RestTyped
  <2> QED BY <1>1, <1>2, <2>1, <2>3, <2>4 DEF RestTyped
<1>5. CASE Fill
  <2>1. /\ UNCHANGED <<action, offset, db, holder, pc, copy>>
        /\ shots > 0 /\ (shots' = shots \/ shots' = shots - 1)
        /\ faults' = faults \/ (faults < MaxFaults /\ faults' = faults + 1)
    BY <1>5 DEF Fill, Fail, cbVars, outVars
  <2>2. shots' \in 0..2 /\ faults' \in 0..MaxFaults
    BY <1>2, <2>1 DEF RestTyped
  <2> QED BY <1>1, <1>2, <2>1, <2>2 DEF RestTyped
<1>6. CASE ActionBegins \/ Release \/ GetBuffer \/ SendBack \/ Return
  <2>1. /\ UNCHANGED <<shots, offset, db, holder, pc, copy, faults>>
        /\ action' \in {"nobody", "thread", action}
    BY <1>6 DEF ActionBegins, Release, GetBuffer, SendBack, Return, portVars, outVars
  <2> QED BY <1>1, <1>2, <2>1 DEF RestTyped
<1>7. CASE Enter
  <2>1. /\ cb.at = "enter" /\ UNCHANGED <<shots, action, pc, copy, faults>>
        /\ \/ cb.buffer.length = 0 /\ UNCHANGED <<db, offset, holder>>
           \/ /\ cb.buffer.length > 0 /\ offset' = offset + 1
              /\ db' = [db EXCEPT !.buf[offset + 1] = cb.buffer.data]
              /\ holder' \in {Encoder, holder}
    BY <1>7 DEF Enter, portVars, outVars
  <2>2. CASE cb.buffer.length = 0
    <3>1. UNCHANGED <<db, offset, holder>>
      BY <2>1, <2>2
    <3> QED BY <1>3, <2>1, <3>1
  <2>3. CASE cb.buffer.length # 0
    <3>1. cb.buffer.data \in Part /\ cb.buffer.data.part \in 1..MaxParts
      BY DEF CountInv, PlacesOK, Buffer, Part, Parts
    <3>2. offset < cb.buffer.data.part
      BY <2>1, <2>3 DEF RoomOK
    <3>3. offset + 1 \in 1..MaxParts
      BY <1>2, <3>1, <3>2 DEF RestTyped
    <3>4. db' = [db EXCEPT !.buf[offset + 1] = cb.buffer.data] /\ offset' = offset + 1 /\ holder' \in {Encoder, holder}
      BY <2>1, <2>3
    <3>5. db' \in [size : 0..MaxParts, buf : [Parts -> Part], freed : BOOLEAN]
      BY <1>2, <3>1, <3>3, <3>4 DEF RestTyped
    <3>6. holder' \in Outputs \cup {Encoder, NoThread} /\ offset' \in 0..MaxParts
      BY <1>2, <3>3, <3>4 DEF RestTyped
    <3>7. UNCHANGED <<shots, action, pc, copy, faults>>
      BY <2>1
    <3> QED BY <1>1, <1>2, <3>5, <3>6, <3>7 DEF RestTyped
  <2> QED BY <2>2, <2>3
<1>8. CASE EndPicture
  <2>1. /\ UNCHANGED <<shots, action, copy, faults>> /\ offset' = 0 /\ holder' = NoThread
        /\ db' = [db EXCEPT !.size = offset]
        /\ pc' = [o \in Outputs |-> IF pc[o] = "wait" THEN "woken" ELSE pc[o]]
    BY <1>8 DEF EndPicture, portVars
  <2>2. db' \in [size : 0..MaxParts, buf : [Parts -> Part], freed : BOOLEAN]
    BY <1>2, <2>1 DEF RestTyped
  <2>3. pc' \in [Outputs -> {"test", "wait", "woken", "copy", "unlock", "ended"}]
    BY <1>2, <2>1 DEF RestTyped
  <2> QED BY <1>1, <1>2, <2>1, <2>2, <2>3 DEF RestTyped
<1>9. ASSUME NEW o \in Outputs, OutNext(o) PROVE RestTyped'
  <2>1. /\ UNCHANGED <<shots, action, offset, db, faults>> /\ holder' \in {o, NoThread, holder}
        /\ \E to \in {"wait", "ended", "copy", "unlock", "test"} : pc' = [pc EXCEPT ![o] = to]
        /\ \/ copy' = copy
           \/ copy' = [copy EXCEPT ![o] = <<>>]
           \/ copy' = [copy EXCEPT ![o] = SubSeq(db.buf, 1, db.size)]
    BY <1>9 DEF OutNext, BeginWait, Wake, CopyPicture, Unlock, OutGoto, portVars, cbVars
  <2>2. copy' \in [Outputs -> Seq(Part)]
    <3>1. SubSeq(db.buf, 1, db.size) \in Seq(Part) /\ <<>> \in Seq(Part)
      BY <1>2, CopiedTyped
    <3>2. copy \in [Outputs -> Seq(Part)]
      BY <1>2 DEF RestTyped
    <3> QED BY <2>1, <3>1, <3>2
  <2>3. pc' \in [Outputs -> {"test", "wait", "woken", "copy", "unlock", "ended"}]
    BY <1>2, <2>1 DEF RestTyped
  <2> QED BY <1>1, <1>2, <2>1, <2>2, <2>3 DEF RestTyped
<1>10. CASE Stop
  BY <1>3, <1>10 DEF Stop, portVars, cbVars, outVars
<1>11. CASE UNCHANGED vars
  BY <1>3, <1>11 DEF vars, portVars, cbVars, outVars
<1> QED BY <1>4, <1>5, <1>6, <1>7, <1>8, <1>9, <1>10, <1>11 DEF Next, Callback


-----------------------------------------------------------------------------

\* A step that leaves alone what RoomOK reads, or moves the callback on.
LEMMA RoomBeside ==
    ASSUME RoomOK, UNCHANGED <<queue, offset, shot>>,
           cb' = cb \/ (cb.at \notin {"enter", "end"} /\ cb'.at \notin {"enter", "end"}),
           Closed' <=> Closed, Closing' => ~enabled', Closed => vc' = vc
    PROVE  RoomOK'
<1>1. CbBehind' = CbBehind
  BY DEF CbBehind
<1>2. cb'.at = "enter" => cb' = cb
  OBVIOUS
<1> QED BY <1>1, <1>2 DEF RoomOK, EmptyFrom

LEMMA RoomWorker ==
    ASSUME AccountInv, Start \/ Test \/ Count \/ Take \/ Send \/ Capture \/ Wait \/ Disable \/ Transit
                       \/ FreeBuf \/ (Drain /\ queue = <<>>)
    PROVE  RoomOK'
<1>1. UNCHANGED <<queue, offset, shot, cb>>
  BY DEF Start, Test, Count, Take, Send, Capture, Wait, Disable, Transit, FreeBuf, Drain, portVars, cbVars
<1>2. vc' = vc \/ enabled
  BY DEF Start, Test, Count, Take, Send, SendBuffer, Capture, Wait, Disable, Transit, FreeBuf, Drain, portVars
<1>3. Closed' <=> Closed
  BY DEF Start, Test, Count, Take, Send, Capture, Wait, Disable, Transit, FreeBuf, Drain, WorkerGoto,
         Closed, workerVars
<1>4. RoomOK
  BY DEF AccountInv
<1>5. Closing' => ~enabled'
  <2>1. CASE Start
    BY <2>1 DEF Start, WorkerGoto, Closing, Closed
  <2>2. CASE Disable
    BY <2>2, Zenon DEF Disable
  <2>3. CASE Test \/ Count \/ Take \/ Send \/ Capture \/ Wait \/ Transit \/ FreeBuf \/ (Drain /\ queue = <<>>)
    <3>1. Closing' => Closing
      BY <2>3 DEF Test, Count, Take, Send, Capture, Wait, Transit, FreeBuf, Drain, WorkerGoto, Closing,
                  Closed, workerVars
    <3>2. enabled' = enabled
      BY <2>3 DEF Test, Count, Take, Send, Capture, Wait, Transit, FreeBuf, Drain, portVars
    <3> QED BY <1>4, <3>1, <3>2, Zenon DEF RoomOK
  <2> QED BY <2>1, <2>2, <2>3
<1>6. Closed => vc' = vc
  BY <1>2, <1>4 DEF RoomOK, Closing
<1> QED BY <1>1, <1>3, <1>4, <1>5, <1>6, RoomBeside

\* A part that VideoCore sends has a higher number than the one before.
LEMMA RoomFill ==
    ASSUME AccountInv, Fill
    PROVE  RoomOK'
<1> USE RaspiCamAssumption DEF AccountInv, CountInv
<1>1. PICK of \in Parts, length \in {0, 1}, flag \in {"none", "end", "failed"} :
        LET s    == Filled(of)
            last == s.part = s.of
            data == [pic |-> s.pic, part |-> s.part, last |-> last]
        IN  /\ shot' = IF last THEN [s EXCEPT !.part = 0, !.of = 1] ELSE s
            /\ queue' = Append(queue, [length |-> length, data |-> data, flag |-> flag])
            /\ last => flag # "none"
  BY DEF Fill
<1> DEFINE s    == Filled(of)
           data == [pic |-> s.pic, part |-> s.part, last |-> s.part = s.of]
           b    == [length |-> length, data |-> data, flag |-> flag]
<1>2. /\ UNCHANGED <<cb, offset, worker, enabled>>
      /\ vc > 0
  BY DEF Fill, workerVars, cbVars
<1>3. ~Closed /\ ~Closed' /\ (Closing' <=> Closing) /\ CbBehind' = CbBehind
  BY <1>2 DEF RoomOK, Closed, Closing, CbBehind
<1>4. s.part = shot.part + 1 /\ s.part \in Nat
  <2>1. shot \in [pic : Pictures, part : 0..MaxParts, of : Parts]
    BY DEF ShotTyped
  <2> QED BY <2>1 DEF Filled
<1>5. b \in Buffer
  <2>1. data \in Part
    BY NextPart DEF Part
  <2> QED BY <2>1 DEF Buffer
<1>6. b.data.part = s.part /\ b.flag = flag
  OBVIOUS
<1>7. queue' = Append(queue, b)
  BY <1>1
<1>8. Behind(b) <= shot'.part
  <2>1. CASE s.part = s.of
    <3>1. shot'.part = 0
      <4>1. s = [pic |-> s.pic, part |-> s.part, of |-> s.of]
        BY NextPart
      <4>2. shot' = [s EXCEPT !.part = 0, !.of = 1]
        BY <1>1, <2>1
      <4> QED BY <4>1, <4>2
    <3> QED BY <1>1, <1>6, <2>1, <3>1 DEF Behind
  <2>2. CASE s.part # s.of
    <3>1. shot' = s
      BY <1>1, <2>2
    <3> QED BY <1>4, <1>6, <3>1 DEF Behind
  <2> QED BY <2>1, <2>2
<1>9. s.part > shot.part
  BY <1>4 DEF ShotTyped
<1> HIDE DEF b, s
<1>10. /\ Len(queue') = Len(queue) + 1 /\ queue'[Len(queue) + 1] = b /\ queue' # <<>>
       /\ \A i \in 1..Len(queue) : queue'[i] = queue[i]
       /\ Len(queue) \in Nat /\ (queue = <<>> <=> Len(queue) = 0)
  BY <1>5, <1>7 DEF PlacesOK
<1>11. \A i \in 1..(Len(queue) - 1) : Behind(queue[i]) < queue[i + 1].data.part
  BY <1>3 DEF RoomOK, EmptyFrom
<1>12. queue # <<>> => CbBehind < queue[1].data.part
  BY <1>3 DEF RoomOK, EmptyFrom
<1>13. cb.at = "enter" => offset < cb.buffer.data.part
  BY <1>3 DEF RoomOK, EmptyFrom
<1>14. IF queue = <<>> THEN CbBehind < b.data.part ELSE Behind(queue[Len(queue)]) < b.data.part
  <2>1. shot.part \in Int
    BY DEF ShotTyped
  <2>2. CASE queue = <<>>
    <3>1. CbBehind <= shot.part
      BY <1>3, <2>2 DEF RoomOK
    <3>2. CbBehind \in Int
      BY DEF CbBehind, Behind, RestTyped, PlacesOK, Buffer, Part, Parts
    <3> QED BY <1>4, <1>6, <2>1, <2>2, <3>1, <3>2
  <2>3. CASE queue # <<>>
    <3>1. Behind(queue[Len(queue)]) <= shot.part
      BY <1>3, <2>3 DEF RoomOK
    <3>2. queue[Len(queue)] \in Buffer
      BY <1>10, <2>3 DEF PlacesOK
    <3>3. Behind(queue[Len(queue)]) \in Int
      BY <3>2 DEF Behind, Buffer, Part, Parts
    <3> QED BY <1>4, <1>6, <2>1, <2>3, <3>1, <3>3
  <2> QED BY <2>2, <2>3
<1>15. CbBehind' < queue'[1].data.part
  BY <1>3, <1>10, <1>12, <1>14
<1>16. ASSUME NEW i \in 1..(Len(queue') - 1) PROVE Behind(queue'[i]) < queue'[i + 1].data.part
  <2>1. CASE i = Len(queue)
    <3>1. queue # <<>> /\ queue'[i] = queue[Len(queue)] /\ queue'[i + 1] = b
      BY <1>10, <2>1
    <3> QED BY <1>14, <3>1
  <2>2. CASE i # Len(queue)
    <3>1. i \in 1..(Len(queue) - 1) /\ i + 1 \in 1..Len(queue)
      BY <1>10, <2>2
    <3>2. queue'[i] = queue[i] /\ queue'[i + 1] = queue[i + 1]
      BY <1>10, <3>1
    <3> QED BY <1>11, <3>1, <3>2
  <2> QED BY <2>1, <2>2
<1>17. Behind(queue'[Len(queue')]) <= shot'.part
  BY <1>8, <1>10
<1>18. Closing' => ~enabled'
  BY <1>2, <1>3, Zenon DEF RoomOK
<1> QED BY <1>2, <1>3, <1>10, <1>13, <1>15, <1>16, <1>17, <1>18 DEF RoomOK

\* Whoever holds action_mutex takes the first buffer.
LEMMA RoomHead ==
    ASSUME AccountInv, cb.at = "none", queue # <<>>,
           cb' = [at |-> "enter", buffer |-> Head(queue)], queue' = Tail(queue),
           UNCHANGED <<offset, shot, vc, enabled, worker>>
    PROVE  RoomOK'
<1> USE DEF AccountInv, CountInv
<1>1. queue \in Seq(Buffer) /\ Len(queue) \in Nat /\ Len(queue) > 0
  BY DEF PlacesOK
<1>2. cb'.at = "enter" /\ cb'.buffer = queue[1] /\ queue[1] \in Buffer
  BY <1>1
<1>3. /\ Len(queue') = Len(queue) - 1
      /\ \A i \in 1..Len(queue') : queue'[i] = queue[i + 1]
      /\ (queue' = <<>> <=> Len(queue) = 1)
  <2>1. queue' = Tail(queue) /\ queue # <<>>
    OBVIOUS
  <2>2. queue' \in Seq(Buffer) /\ Len(queue') = Len(queue) - 1
    BY <1>1, <2>1
  <2>3. \A i \in 1..Len(queue') : queue'[i] = queue[i + 1]
    BY <1>1, <2>1
  <2>4. queue' = <<>> <=> Len(queue') = 0
    BY <2>2, NoLength
  <2> QED BY <1>1, <2>2, <2>3, <2>4
<1>4. CbBehind = offset /\ CbBehind' = Behind(queue[1])
  BY <1>2 DEF CbBehind
<1>5. (Closed' <=> Closed) /\ (Closing' <=> Closing)
  BY DEF Closed, Closing
<1>6. ASSUME NEW i \in Nat \ {0}, EmptyFrom(i + 1) PROVE EmptyFrom(i)'
  <2>1. ASSUME NEW j \in i..Len(queue') PROVE queue'[j].length = 0
    <3>1. j \in 1..Len(queue') /\ j + 1 \in (i + 1)..Len(queue)
      BY <1>1, <1>3
    <3> QED BY <1>3, <1>6, <3>1 DEF EmptyFrom
  <2> QED BY <1>5, <1>6, <2>1 DEF EmptyFrom
<1>7. EmptyFrom(1) => queue[1].length = 0 /\ EmptyFrom(2)
  BY <1>1 DEF EmptyFrom
<1>8. 1 \in Nat \ {0} /\ 1 + 1 = 2
  OBVIOUS
<1>9. EmptyFrom(2) => EmptyFrom(1)'
  BY <1>6, <1>8
<1>10. offset < queue[1].data.part \/ (queue[1].length = 0 /\ EmptyFrom(1)')
  BY <1>4, <1>7, <1>9 DEF RoomOK
<1>11. queue' # <<>> => CbBehind' < queue'[1].data.part \/ EmptyFrom(1)'
  <2> SUFFICES ASSUME queue' # <<>> PROVE CbBehind' < queue'[1].data.part \/ EmptyFrom(1)'
    OBVIOUS
  <2>1. 1 \in 1..(Len(queue) - 1) /\ queue'[1] = queue[2]
    BY <1>1, <1>3
  <2>2. Behind(queue[1]) < queue[2].data.part \/ EmptyFrom(2)
    BY <1>8, <2>1 DEF RoomOK
  <2> QED BY <1>4, <1>9, <2>1, <2>2
<1>12. ASSUME NEW i \in 1..(Len(queue') - 1)
       PROVE  Behind(queue'[i]) < queue'[i + 1].data.part \/ EmptyFrom(i + 1)'
  <2>1. i + 1 \in 1..(Len(queue) - 1) /\ queue'[i] = queue[i + 1] /\ queue'[i + 1] = queue[(i + 1) + 1]
    BY <1>1, <1>3
  <2>2. Behind(queue[i + 1]) < queue[(i + 1) + 1].data.part \/ EmptyFrom((i + 1) + 1)
    BY <2>1 DEF RoomOK
  <2>3. i + 1 \in Nat \ {0}
    OBVIOUS
  <2> QED BY <1>6, <2>1, <2>2, <2>3
<1>13. ~Closed => IF queue' = <<>> THEN CbBehind' <= shot.part
                  ELSE Behind(queue'[Len(queue')]) <= shot.part
  <2> SUFFICES ASSUME ~Closed
               PROVE  IF queue' = <<>> THEN CbBehind' <= shot.part
                      ELSE Behind(queue'[Len(queue')]) <= shot.part
    OBVIOUS
  <2>1. Behind(queue[Len(queue)]) <= shot.part
    BY DEF RoomOK
  <2>2. CASE queue' = <<>>
    BY <1>3, <1>4, <2>1, <2>2
  <2>3. CASE queue' # <<>>
    <3>1. queue'[Len(queue')] = queue[Len(queue)]
      BY <1>1, <1>3, <2>3
    <3> QED BY <2>1, <2>3, <3>1
  <2> QED BY <2>2, <2>3
<1>14. (Closing' => ~enabled') /\ (Closed' => vc' = 0)
  <2>1. (Closing => ~enabled) /\ (Closed => vc = 0)
    BY DEF RoomOK
  <2> QED BY <1>5, <2>1, Zenon
<1> QED BY <1>2, <1>5, <1>10, <1>11, <1>12, <1>13, <1>14 DEF RoomOK

\* The callback counts the part it copies, and begins again behind the last one.
LEMMA RoomCopy ==
    ASSUME AccountInv, Enter \/ EndPicture
    PROVE  RoomOK'
<1> USE DEF AccountInv, CountInv
<1>1. UNCHANGED <<queue, shot, vc, enabled, worker>>
  BY DEF Enter, EndPicture, portVars, workerVars
<1>2. (Closed' <=> Closed) /\ (Closing' <=> Closing)
  BY <1>1 DEF Closed, Closing
<1>3. \A i : EmptyFrom(i)' <=> EmptyFrom(i)
  BY <1>1, <1>2 DEF EmptyFrom
<1>4. (Closing' => ~enabled') /\ (Closed' => vc' = 0)
  <2>1. (Closing => ~enabled) /\ (Closed => vc = 0)
    BY DEF RoomOK
  <2> QED BY <1>1, <1>2, <2>1, Zenon
<1>5. cb'.at # "enter"
  BY DEF Enter, EndPicture, CallbackTo, PlacesOK
<1>6. CASE EndPicture
  <2>1. cb.at = "end" /\ cb'.at = "release" /\ offset' = 0
    BY <1>6 DEF EndPicture, CallbackTo, PlacesOK
  <2>2. CbBehind' = CbBehind
    BY <2>1 DEF CbBehind
  <2> QED BY <1>1, <1>2, <1>3, <1>4, <1>5, <2>2 DEF RoomOK
<1>7. CASE Enter
  <2>1. /\ cb.at = "enter" /\ cb'.at = IF cb.buffer.flag = "none" THEN "release" ELSE "end"
        /\ offset' = IF cb.buffer.length = 0 THEN offset ELSE offset + 1
    BY <1>7 DEF Enter, CallbackTo, PlacesOK, Buffer
  <2>2. cb.buffer.data.part \in Int /\ offset \in Int
    BY DEF PlacesOK, Buffer, Part, Parts, RestTyped
  <2>3. CASE offset < cb.buffer.data.part
    <3>1. CbBehind' <= CbBehind /\ CbBehind' \in Int /\ CbBehind \in Int
      BY <2>1, <2>2, <2>3 DEF CbBehind, Behind
    <3>2. queue # <<>> => queue[1].data.part \in Int
      <4>1. queue # <<>> => queue[1] \in Buffer
        BY DEF PlacesOK
      <4> QED BY <4>1 DEF Buffer, Part, Parts
    <3>3. shot.part \in Int
      BY DEF ShotTyped
    <3>4. queue # <<>> => CbBehind' < queue[1].data.part \/ EmptyFrom(1)
      BY <3>1, <3>2 DEF RoomOK
    <3>5. ~Closed /\ queue = <<>> => CbBehind' <= shot.part
      BY <3>1, <3>3 DEF RoomOK
    <3> QED BY <1>1, <1>2, <1>3, <1>4, <1>5, <3>4, <3>5 DEF RoomOK
  <2>4. CASE ~(offset < cb.buffer.data.part)
    <3>1. EmptyFrom(1) /\ Closed
      BY <2>1, <2>4 DEF RoomOK, EmptyFrom
    <3> QED BY <1>1, <1>2, <1>3, <1>4, <1>5, <3>1 DEF RoomOK
  <2> QED BY <2>3, <2>4
<1> QED BY <1>6, <1>7

\* The port is closed: what comes back then is empty.
LEMMA RoomAsk ==
    ASSUME AccountInv, AskBack
    PROVE  RoomOK'
<1> USE DEF AccountInv, CountInv
<1>1. /\ worker = "lock" /\ worker' = "drain" /\ action = "nobody" /\ vc' = 0
      /\ queue' = queue \o [b \in 1..vc |-> Empty]
      /\ UNCHANGED <<enabled, shot, cb, offset>>
  BY DEF AskBack, WorkerGoto
<1>2. cb.at = "none" /\ cb'.at = "none"
  BY <1>1 DEF PlacesOK
<1>3. [b \in 1..vc |-> Empty] \in Seq(Buffer) /\ Len([b \in 1..vc |-> Empty]) = vc
  <2>1. vc \in Nat /\ [b \in 1..vc |-> Empty] \in [1..vc -> Buffer]
    BY EmptyIsBuffer DEF PlacesOK
  <2> QED BY <2>1
<1>4. queue \in Seq(Buffer) /\ Len(queue) \in Nat /\ vc \in Nat
  BY DEF PlacesOK
<1>5. /\ queue' \in Seq(Buffer) /\ Len(queue') = Len(queue) + vc
      /\ \A i \in 1..Len(queue') : queue'[i] = IF i <= Len(queue) THEN queue[i] ELSE Empty
  BY <1>1, <1>3, <1>4
<1>6. ~Closed /\ Closed' /\ CbBehind' = CbBehind
  BY <1>1 DEF Closed, CbBehind
<1>7. ASSUME NEW i \in Nat, i > Len(queue) PROVE EmptyFrom(i)'
  <2>1. ASSUME NEW j \in i..Len(queue') PROVE queue'[j].length = 0
    <3>1. j \in 1..Len(queue') /\ ~(j <= Len(queue))
      BY <1>4, <1>5, <1>7
    <3> QED BY <1>5, <3>1 DEF Empty
  <2> QED BY <1>6, <2>1 DEF EmptyFrom
<1>8. queue' # <<>> => CbBehind' < queue'[1].data.part \/ EmptyFrom(1)'
  <2>1. CASE queue = <<>>
    <3>1. Len(queue) = 0 /\ 1 \in Nat
      BY <2>1
    <3> QED BY <1>7, <3>1
  <2>2. CASE queue # <<>>
    <3>1. CbBehind < queue[1].data.part
      BY <1>6, <2>2 DEF RoomOK, EmptyFrom
    <3>2. 1 \in 1..Len(queue') /\ 1 <= Len(queue)
      BY <1>4, <1>5, <2>2, NoLength
    <3> QED BY <1>5, <1>6, <3>1, <3>2
  <2> QED BY <2>1, <2>2
<1>9. ASSUME NEW i \in 1..(Len(queue') - 1)
      PROVE  Behind(queue'[i]) < queue'[i + 1].data.part \/ EmptyFrom(i + 1)'
  <2>1. i \in 1..Len(queue') /\ i + 1 \in 1..Len(queue') /\ i + 1 \in Nat
    BY <1>4, <1>5
  <2>2. CASE i + 1 > Len(queue)
    BY <1>7, <2>1, <2>2
  <2>3. CASE ~(i + 1 > Len(queue))
    <3>1. i \in 1..(Len(queue) - 1) /\ queue'[i] = queue[i] /\ queue'[i + 1] = queue[i + 1]
      BY <1>4, <1>5, <2>1, <2>3
    <3> QED BY <1>6, <3>1 DEF RoomOK, EmptyFrom
  <2> QED BY <2>2, <2>3
<1>10. ~enabled'
  <2>1. Closing => ~enabled
    BY DEF RoomOK
  <2>2. Closing
    BY <1>1 DEF Closing
  <2> QED BY <1>1, <2>1, <2>2, Zenon
<1> QED BY <1>1, <1>2, <1>6, <1>8, <1>9, <1>10 DEF RoomOK

LEMMA RoomStep ==
    ASSUME AccountInv, [Next]_vars
    PROVE  RoomOK'
<1>0. RoomOK
  BY DEF AccountInv
<1>1. CASE WorkerNext
  <2>1. CASE Drain
    <3>1. CASE queue = <<>>
      BY <2>1, <3>1, RoomWorker
    <3>2. CASE queue # <<>>
      BY <2>1, <3>2, RoomHead DEF Drain, NoCall
    <3> QED BY <3>1, <3>2
  <2> QED BY <1>1, <2>1, RoomWorker, RoomAsk DEF WorkerNext
<1>2. CASE Fill
  BY <1>2, RoomFill
<1>3. CASE ActionBegins
  <2>1. cb.at = "none"
    BY <1>3 DEF ActionBegins, AccountInv, CountInv, PlacesOK
  <2> QED BY <1>3, <2>1, RoomHead DEF ActionBegins, workerVars
<1>4. CASE Enter \/ EndPicture
  BY <1>4, RoomCopy
<1>5. CASE Release \/ GetBuffer \/ SendBack \/ Return
  <2>1. /\ UNCHANGED <<queue, offset, shot, worker, enabled>> /\ (vc' = vc \/ enabled)
    BY <1>5 DEF Release, GetBuffer, SendBack, SendBuffer, Return, portVars, workerVars
  <2>2. cb.at \notin {"enter", "end"} /\ cb'.at \notin {"enter", "end"}
    BY <1>5 DEF Release, GetBuffer, SendBack, Return, CallbackTo, NoCall, AccountInv, CountInv, PlacesOK
  <2>3. (Closed' <=> Closed) /\ (Closing' <=> Closing)
    BY <2>1 DEF Closed, Closing
  <2>4. Closing' => ~enabled'
    <3>1. Closing => ~enabled
      BY <1>0 DEF RoomOK
    <3> QED BY <2>1, <2>3, <3>1, Zenon
  <2>5. Closed => vc' = vc
    BY <1>0, <2>1 DEF RoomOK, Closing
  <2> QED BY <1>0, <2>1, <2>2, <2>3, <2>4, <2>5, RoomBeside
<1>6. CASE Stop \/ UNCHANGED vars \/ \E o \in Outputs : OutNext(o)
  <2>1. UNCHANGED <<queue, offset, shot, cb, vc, worker, enabled>>
    BY <1>6 DEF Stop, vars, OutNext, BeginWait, Wake, CopyPicture, Unlock, workerVars, portVars, cbVars
  <2>2. (Closed' <=> Closed) /\ (Closing' <=> Closing)
    BY <2>1 DEF Closed, Closing
  <2>3. Closing' => ~enabled'
    <3>1. Closing => ~enabled
      BY <1>0 DEF RoomOK
    <3> QED BY <2>1, <2>2, <3>1, Zenon
  <2> QED BY <1>0, <2>1, <2>2, <2>3, RoomBeside
<1> QED BY <1>1, <1>2, <1>3, <1>4, <1>5, <1>6 DEF Next, Callback

-----------------------------------------------------------------------------

\* The worker asks for the next still when nothing of the last one is under way.
LEMMA CaptureWorker ==
    ASSUME AccountInv, faults = 0, WorkerNext
    PROVE  CaptureOK'
<1> USE DEF AccountInv, CaptureOK
<1>1. CASE Start \/ Test \/ Count
  <2>1. UNCHANGED <<shots, sem, queue, cb, pool, died, stills>>
    BY <1>1 DEF Start, Test, Count, WorkerGoto, portVars, cbVars
  <2>2. Requesting \/ worker' = "delete"
    BY <1>1 DEF Start, Test, Count, WorkerGoto, Requesting
  <2>3. worker' \in {"test", "count", "delete", "capture"} \/ (worker' = "take" /\ todo' = pool)
    BY <1>1 DEF Start, Test, Count, WorkerGoto
  <2>4. CASE Requesting
    <3>1. Quiet'
      BY <2>1, <2>4 DEF Quiet
    <3> QED BY <2>1, <2>3, <3>1
  <2>5. CASE worker' = "delete"
    BY <2>1, <2>5 DEF Requesting
  <2> QED BY <2>2, <2>4, <2>5
<1>2. CASE Take
  <2>1. pool = todo /\ todo \in 1..NBuffers /\ Requesting
    BY <1>2 DEF Take, LoopOK, Requesting
  <2>2. /\ pool' = todo' - 1 /\ worker' = "send" /\ UNCHANGED <<shots, sem, queue, cb, died, stills>>
    BY <1>2, <2>1 DEF Take, cbVars
  <2>3. Quiet'
    BY <2>1, <2>2 DEF Quiet
  <2> QED BY <2>2, <2>3
<1>3. CASE Send
  <2>1. pool = todo - 1 /\ todo \in 1..NBuffers /\ Requesting
    BY <1>3 DEF Send, WorkerGoto, LoopOK, Requesting
  <2>2. /\ UNCHANGED <<shots, sem, queue, cb, died, stills, pool>> /\ todo' = todo - 1
        /\ worker' = "capture" \/ worker' = "take"
    BY <1>3 DEF Send, WorkerGoto, cbVars
  <2>3. Quiet' /\ pool' = todo'
    BY <2>1, <2>2 DEF Quiet
  <2> QED BY <2>2, <2>3
<1>4. CASE Capture
  <2>1. Quiet /\ UNCHANGED <<sem, queue, cb, died, stills>>
    BY <1>4 DEF Capture, WorkerGoto, Requesting, cbVars
  <2>2. CASE shots' = shots
    <3>1. worker' = "test" /\ Quiet'
      <4>1. worker' = "test"
        BY <1>4, <2>1, <2>2 DEF Capture, WorkerGoto, Quiet
      <4> QED BY <2>1, <2>2, <4>1 DEF Quiet
    <3> QED BY <2>1, <3>1
  <2>3. CASE shots' # shots
    <3>1. shots' = 1 /\ worker' = IF stills THEN "wait" ELSE "test"
      BY <1>4, <2>1, <2>3 DEF Capture, WorkerGoto, Quiet
    <3>2. Pending'
      <4>1. Len(queue) = 0
        BY <2>1 DEF Quiet
      <4> QED BY <2>1, <3>1, <4>1 DEF Quiet, Pending, NoEnd, CbNoEnd
    <3>3. worker' = "wait" <=> stills
      BY <3>1
    <3>4. worker' \in {"wait", "test"}
      BY <3>1
    <3> QED BY <2>1, <3>2, <3>3, <3>4, Zenon DEF Requesting
  <2> QED BY <2>2, <2>3
<1>5. CASE Wait
  <2>1. /\ worker = "wait" /\ worker' = "test" /\ sem > 0 /\ sem' = sem - 1
        /\ UNCHANGED <<shots, queue, cb, died, stills>>
    BY <1>5 DEF Wait, WorkerGoto, portVars, cbVars
  <2>2. shots = 0 /\ sem = 1 /\ queue = <<>> /\ cb.at = "none"
    BY <2>1 DEF Pending
  <2> QED BY <2>1, <2>2 DEF Quiet
<1>6. CASE Disable \/ AskBack \/ Drain \/ Transit \/ FreeBuf
  <2>1. died' = died /\ worker' \in {"lock", "drain", "transit", "free", "gone"}
    BY <1>6 DEF Disable, AskBack, Drain, Transit, FreeBuf, WorkerGoto
  <2> QED BY <2>1 DEF Requesting
<1> QED BY <1>1, <1>2, <1>3, <1>4, <1>5, <1>6 DEF WorkerNext

\* The last part of the still ends it.
LEMMA CaptureFill ==
    ASSUME AccountInv, faults = 0, faults' = 0, Fill
    PROVE  CaptureOK'
<1> USE DEF AccountInv, CaptureOK, CountInv
<1>1. UNCHANGED <<worker, todo, sem, pool, cb, died, stills>> /\ shots > 0
  BY DEF Fill, workerVars, cbVars
<1>2. ~Requesting /\ ~Requesting'
  <2>1. ~Requesting
    BY <1>1 DEF Quiet
  <2> QED BY <1>1, <2>1, Zenon DEF Requesting
<1>3. CASE worker # "wait"
  <2>1. worker' # "take" /\ worker' # "send" /\ worker' # "wait"
    BY <1>1, <1>2, <1>3 DEF Requesting
  <2> QED BY <1>1, <1>2, <2>1
<1>4. CASE worker = "wait"
  <2>1. stills /\ shots = 1 /\ sem = 0 /\ NoEnd(Len(queue)) /\ CbNoEnd
    BY <1>1, <1>4 DEF Pending
  <2>2. PICK b \in Buffer :
          /\ queue' = Append(queue, b)
          /\ (b.flag = "end" /\ shots' = 0) \/ (b.flag = "none" /\ shots' = 1)
    <3>1. ~Fail
      BY DEF Fail
    <3>2. PICK of \in Parts :
            LET s    == Filled(of)
                last == s.part = s.of
                data == [pic |-> s.pic, part |-> s.part, last |-> last]
                flag == IF last THEN "end" ELSE "none"
            IN  /\ shots' = IF last /\ stills THEN shots - 1 ELSE shots
                /\ queue' = Append(queue, [length |-> 1, data |-> data, flag |-> flag])
      BY <3>1 DEF Fill
    <3> DEFINE s    == Filled(of)
               data == [pic |-> s.pic, part |-> s.part, last |-> s.part = s.of]
               flag == IF s.part = s.of THEN "end" ELSE "none"
               b    == [length |-> 1, data |-> data, flag |-> flag]
    <3>3. data \in Part
      BY NextPart DEF Part
    <3>4. b \in Buffer /\ b.flag = flag
      BY <3>3 DEF Buffer
    <3>5. queue' = Append(queue, b)
      BY <3>2
    <3>6. IF s.part = s.of THEN shots' = 0 ELSE shots' = 1
      <4>1. stills
        BY <2>1
      <4>2. s.part = s.of => shots' = shots - 1
        BY <3>2, <4>1
      <4>3. s.part # s.of => shots' = shots
        BY <3>2
      <4> QED BY <2>1, <4>2, <4>3
    <3> HIDE DEF b, s
    <3>7. CASE s.part = s.of
      <4>1. b.flag = "end" /\ shots' = 0
        BY <3>4, <3>6, <3>7
      <4> QED BY <3>4, <3>5, <4>1, Zenon
    <3>8. CASE s.part # s.of
      <4>1. b.flag = "none" /\ shots' = 1
        BY <3>4, <3>6, <3>8
      <4> QED BY <3>4, <3>5, <4>1, Zenon
    <3> QED BY <3>7, <3>8
  <2>3. /\ Len(queue') = Len(queue) + 1 /\ queue'[Len(queue) + 1] = b /\ queue' # <<>>
        /\ \A i \in 1..Len(queue) : queue'[i] = queue[i]
        /\ Len(queue) \in Nat
    BY <2>2 DEF PlacesOK
  <2>4. \A i \in 1..Len(queue) : queue'[i].flag = "none"
    BY <2>1, <2>3 DEF NoEnd
  <2>5. CbNoEnd'
    BY <1>1, <2>1 DEF CbNoEnd
  <2>6. CASE b.flag = "end" /\ shots' = 0
    <3>1. NoEnd(Len(queue) - 1)' /\ queue'[Len(queue')].flag = "end"
      <4>1. Len(queue') - 1 = Len(queue)
        BY <2>3
      <4> QED BY <2>3, <2>4, <2>6, <4>1 DEF NoEnd
    <3>2. Pending'
      BY <1>1, <2>1, <2>3, <2>5, <2>6, <3>1 DEF Pending
    <3> QED BY <1>1, <1>2, <1>4, <2>1, <3>2
  <2>7. CASE b.flag = "none" /\ shots' = 1
    <3>1. NoEnd(Len(queue))'
      BY <2>3, <2>4, <2>7 DEF NoEnd
    <3>2. Pending'
      BY <1>1, <2>1, <2>5, <2>7, <3>1 DEF Pending
    <3> QED BY <1>1, <1>2, <1>4, <2>1, <3>2
  <2> QED BY <2>2, <2>6, <2>7
<1> QED BY <1>3, <1>4

\* The callback hands the last part on to the semaphore.
LEMMA CaptureCallback ==
    ASSUME AccountInv, faults = 0, ActionBegins \/ Callback
    PROVE  CaptureOK'
<1> USE DEF AccountInv, CaptureOK, CountInv
<1>1. UNCHANGED <<worker, todo, shots, died, stills>>
  BY DEF ActionBegins, Callback, Enter, EndPicture, Release, GetBuffer, SendBack, Return, workerVars, portVars
<1>2. queue # <<>> \/ cb.at # "none"
  BY DEF ActionBegins, Callback, Enter, EndPicture, Release, GetBuffer, SendBack, Return
<1>3. ~Requesting /\ ~Requesting'
  <2>1. ~Requesting
    BY <1>2 DEF Quiet
  <2> QED BY <1>1, <2>1, Zenon DEF Requesting
<1>4. CASE worker # "wait"
  <2>1. worker' # "take" /\ worker' # "send" /\ worker' # "wait"
    BY <1>1, <1>3, <1>4 DEF Requesting
  <2> QED BY <1>1, <1>3, <2>1
<1>5. CASE worker = "wait"
  <2>0. stills /\ Pending
    BY <1>5
  <2>1. SUFFICES Pending'
    BY <1>1, <1>3, <1>5, <2>0
  <2>2. CASE ActionBegins
    <3>0. cb.at = "none"
      BY <2>2 DEF ActionBegins, PlacesOK
    <3>1. /\ queue # <<>> /\ queue' = Tail(queue) /\ sem' = sem
          /\ cb' = [at |-> "enter", buffer |-> Head(queue)] /\ cb.at = "none"
      BY <2>2, <3>0 DEF ActionBegins, workerVars
    <3>2. /\ Len(queue) \in Nat /\ Len(queue) > 0 /\ cb'.at = "enter" /\ cb'.buffer = queue[1]
          /\ queue' \in Seq(Buffer) /\ Len(queue') = Len(queue) - 1
          /\ \A i \in 1..Len(queue') : queue'[i] = queue[i + 1]
      BY <3>1 DEF PlacesOK
    <3>3. queue' = <<>> <=> Len(queue') = 0
      BY <3>2, NoLength
    <3>4. CASE shots = 1 /\ sem = 0 /\ NoEnd(Len(queue)) /\ CbNoEnd
      <4>1. NoEnd(Len(queue))' /\ CbNoEnd'
        BY <3>2, <3>4 DEF NoEnd, CbNoEnd
      <4> QED BY <1>1, <3>1, <3>4, <4>1 DEF Pending
    <3>5. CASE /\ shots = 0 /\ sem = 0 /\ NoEnd(Len(queue) - 1)
               /\ queue[Len(queue)].flag = "end"
      <4>1. CASE queue' = <<>>
        <5>0. Len(queue) = 1
          BY <3>2, <3>3, <4>1
        <5>1. cb'.buffer.flag = "end"
          BY <3>2, <3>5, <5>0
        <5> QED BY <1>1, <3>1, <3>2, <3>5, <4>1, <5>1 DEF Pending
      <4>2. CASE queue' # <<>>
        <5>1. Len(queue) > 1
          BY <3>2, <3>3, <4>2
        <5>2. queue'[Len(queue')] = queue[Len(queue)]
          BY <3>2, <5>1
        <5>3. CbNoEnd' /\ NoEnd(Len(queue) - 1)'
          BY <3>2, <3>5, <5>1 DEF NoEnd, CbNoEnd
        <5> QED BY <1>1, <3>1, <3>5, <4>2, <5>2, <5>3 DEF Pending
      <4> QED BY <4>1, <4>2
    <3> QED BY <2>0, <3>1, <3>4, <3>5 DEF Pending
  <2>3. CASE Enter \/ EndPicture \/ Release \/ GetBuffer \/ SendBack
    <3>1. /\ UNCHANGED <<queue, sem>> /\ cb.at # "none" /\ cb'.at # "none" /\ cb'.buffer = cb.buffer
      BY <2>3 DEF Enter, EndPicture, Release, GetBuffer, SendBack, CallbackTo, PlacesOK, workerVars, portVars
    <3> QED BY <1>1, <2>0, <3>1 DEF Pending, NoEnd, CbNoEnd
  <2>4. CASE Return
    <3>1. /\ cb.at = "post" /\ cb'.at = "none" /\ queue' = queue /\ sem' = Post(cb.buffer.flag)
      BY <2>4 DEF Return, NoCall, portVars
    <3>2. CASE CbNoEnd /\ sem = 0
      <4>1. sem' = 0
        BY <3>1, <3>2 DEF CbNoEnd, Post
      <4> QED BY <1>1, <2>0, <3>1, <3>2, <4>1 DEF Pending, NoEnd, CbNoEnd
    <3>3. CASE shots = 0 /\ sem = 0 /\ queue = <<>> /\ cb.buffer.flag = "end"
      BY <1>1, <3>1, <3>3 DEF Pending, Post
    <3> QED BY <2>0, <3>1, <3>2, <3>3 DEF Pending
  <2> QED BY <2>2, <2>3, <2>4 DEF Callback
<1> QED BY <1>4, <1>5

LEMMA AccountInit == Init => AccountInv
<1> SUFFICES ASSUME Init PROVE AccountInv
  OBVIOUS
<1> USE RaspiCamAssumption, EmptyIsBuffer
<1>1. CountInv
  BY DEF Init, CountInv, ShotTyped, PlacesOK, EachBufferOnce, InHand, WorkerHand, NoCall,
         CallbackSteps, Pictures, Parts
<1>2. SwitchesTyped
  <2>1. stop = FALSE /\ stills \in BOOLEAN /\ enabled = FALSE /\ died = FALSE
    BY DEF Init
  <2> QED BY <2>1, Zenon DEF SwitchesTyped
<1>3. RestTyped
  <2>1. /\ worker = "start" /\ todo = 0 /\ sem = 0 /\ shots = 0 /\ action = "nobody" /\ offset = 0
        /\ db = [size |-> 0, buf |-> [p \in Parts |-> Unwritten], freed |-> FALSE]
        /\ holder = NoThread /\ pc = [o \in Outputs |-> "test"] /\ copy = [o \in Outputs |-> <<>>]
        /\ faults = 0
    BY DEF Init
  <2>2. db \in [size : 0..MaxParts, buf : [Parts -> Part], freed : BOOLEAN]
    BY <2>1
  <2>3. copy \in [Outputs -> Seq(Part)]
    BY <2>1
  <2> QED BY <2>1, <2>2, <2>3 DEF RestTyped, WorkerSteps
<1>4. RoomOK /\ LoopOK
  BY DEF Init, NoCall, RoomOK, CbBehind, Closing, Closed, LoopOK
<1>5. CaptureOK
  BY DEF Init, NoCall, CaptureOK, Quiet
<1> QED BY <1>1, <1>2, <1>3, <1>4, <1>5 DEF AccountInv

LEMMA AccountStep == AccountInv /\ [Next]_vars => AccountInv'
<1> SUFFICES ASSUME AccountInv, [Next]_vars PROVE AccountInv'
  OBVIOUS
<1>1. CountInv' /\ SwitchesTyped' /\ RestTyped' /\ RoomOK' /\ LoopOK'
  BY CountStep, SwitchesStep, RestStep, RoomStep, LoopStep DEF AccountInv
<1>2. ASSUME faults' = 0 PROVE CaptureOK'
  <2>1. faults = 0
    <3>1. faults' = faults \/ faults' = faults + 1
      BY DEF Next, WorkerNext, Start, Test, Count, Take, Send, Capture, Wait, Disable, AskBack, Drain,
             Transit, FreeBuf, Fill, Fail, ActionBegins, Callback, Enter, EndPicture, Release, GetBuffer,
             SendBack, Return, Stop, OutNext, BeginWait, Wake, CopyPicture, Unlock, vars
    <3>2. faults \in Nat
      BY RaspiCamAssumption DEF AccountInv, RestTyped
    <3> QED BY <1>2, <3>1, <3>2
  <2>2. CASE Stop \/ UNCHANGED vars \/ \E o \in Outputs : OutNext(o)
    <3>1. UNCHANGED <<worker, todo, pool, sem, shots, queue, cb, died, stills>>
      BY <2>2 DEF Stop, vars, OutNext, BeginWait, Wake, CopyPicture, Unlock, workerVars, portVars, cbVars
    <3>2. CaptureOK
      BY <2>1 DEF AccountInv
    <3> QED BY <3>1, <3>2, Zenon DEF CaptureOK, Requesting, Quiet, Pending, NoEnd, CbNoEnd
  <2> QED BY <1>2, <2>1, <2>2, CaptureWorker, CaptureFill, CaptureCallback DEF Next
<1> QED BY <1>1, <1>2 DEF AccountInv

\* No port buffer is lost, doubled or at two places, the variables have their types,
\* so that a picture never outgrows in->buf, and the worker finds every buffer it
\* counted unless a transfer failed: for any number of buffers, parts and outputs
\* and however many transfers and sends fail.
THEOREM BuffersAccountedFor == Spec => []BuffersAccounted
<1>1. AccountInv => BuffersAccounted
  <2> SUFFICES ASSUME AccountInv PROVE BuffersAccounted
    OBVIOUS
  <2>1. {pool, vc, lost} \subseteq 0..NBuffers
    BY PlacesBounded DEF AccountInv
  <2>2. TypeOK
    <3>1. {stop, stills, enabled, died} \subseteq BOOLEAN
      BY Zenon DEF AccountInv, SwitchesTyped
    <3> QED BY <2>1, <3>1 DEF AccountInv, CountInv, ShotTyped, PlacesOK, RestTyped, TypeOK
  <2>3. died => faults > 0
    <3>1. died => faults # 0
      BY DEF AccountInv, CaptureOK
    <3>2. faults # 0 => faults > 0
      BY RaspiCamAssumption DEF AccountInv, RestTyped
    <3> QED BY <3>1, <3>2
  <2> QED BY <2>2, <2>3 DEF BuffersAccounted, AccountInv, CountInv
<1> QED BY <1>1, AccountInit, AccountStep, PTL DEF Spec
====
