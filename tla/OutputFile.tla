---- MODULE OutputFile ----
(***************************************************************************)
(* The output plugin output_file with the options -size, -exceed and       *)
(* -link: its worker saves each picture in a file of a ring of files, and  *)
(* HTTP threads that handle ?action=take save the present picture in a     *)
(* file of their own. Worker and takers copy the picture into the same     *)
(* memory, the static frame, under in->db; that copy, which FrameBuffer    *)
(* takes apart, is one step here. The folder survives the process.         *)
(*                                                                         *)
(* A picture is its number and its size. A file of the ring is named after *)
(* the local time and a counter: <<time, counter>>, which alphasort puts   *)
(* in the order of pairs. The ring's names lead to inodes, as the link     *)
(* does; inode i was the i-th to be created and holds data[i].             *)
(***************************************************************************)
EXTENDS Integers, FiniteSets, Sequences

CONSTANTS
    Takers,       \* HTTP threads that take pictures
    Size,         \* option -size: the pictures to keep, -1 for all
    Exceed,       \* option -exceed
    Bytes,        \* the sizes a picture may have
    Slack,        \* what a frame that grows gets to spare (1 << 16)
    MaxPictures,  \* bound: pictures published
    MaxTime,      \* bound: the latest time
    MaxBack,      \* bound: how often the local time is set back
    MaxRestarts   \* bound: how often the program is restarted

ASSUME FileAssumption ==
    /\ Size \in Nat \cup {-1} /\ Exceed \in Int
    /\ Bytes \subseteq Nat /\ Slack \in Nat
    /\ {MaxPictures, MaxTime, MaxBack, MaxRestarts} \subseteq Nat

VARIABLES
    published,   \* in->buf and in->size: the picture and its bytes
    news,        \* a picture was published since the worker began to wait
    frame,       \* the picture in the static frame
    room,        \* bytes allocated for frame
    maxFrame,    \* max_frame_size
    dangling,    \* frame points to memory that was freed
    overrun,     \* history: memory was used that is not the frame's
    noMemory,    \* history: a realloc has failed in this run of the program
    givenBack,   \* history: the worker has freed frame in this run
    pc,          \* where the worker is
    mine,        \* what the worker has copied, with its frame_size
    counter,     \* the files the worker has named
    name,        \* the file the worker is at
    doomed,      \* names maintain_ringbuffer has still to delete
    missed,      \* history: its latest call could not scan the folder or delete a file
    taking,      \* the takers that have copied and are about to write
    files,       \* the folder: names and their inodes
    data,        \* what each inode holds
    link,        \* the inode of the file of fixed name, 0 when there is none
    now,         \* local time
    backs, restarts,
    steady       \* history: time was not set back, no restart within a second

memory == <<frame, room, maxFrame, dangling, overrun, noMemory, givenBack>>
folder == <<files, data, link>>
clock  == <<now, backs, restarts, steady>>
ring   == <<name, doomed, missed>>
vars == <<published, news, memory, pc, mine, counter, ring, taking, folder, clock>>

Empty == 0       \* in a file that was created or truncated
Torn == -1       \* in a file: part of a picture, or a picture and more
Nothing == [nr |-> 0, bytes |-> 0]

Init ==
    /\ published = Nothing /\ news = FALSE
    /\ frame = Nothing /\ room = 0 /\ maxFrame = 0
    /\ dangling = FALSE /\ overrun = FALSE /\ noMemory = FALSE /\ givenBack = FALSE
    /\ pc = "wait" /\ mine = Nothing /\ counter = 0
    /\ name = <<0, 0>> /\ doomed = {} /\ missed = FALSE
    /\ taking = {}
    /\ files = <<>> /\ data = <<>> /\ link = 0
    /\ now = 0 /\ backs = 0 /\ restarts = 0 /\ steady = TRUE

(* A worker that is cancelled as it waits has in->db again, for good. *)
DbFree == pc # "cancelled"

(* The input publishes a picture and wakes the worker if it waits. *)
Publish ==
    /\ DbFree
    /\ published.nr < MaxPictures
    /\ \E b \in Bytes : published' = [nr |-> published.nr + 1, bytes |-> b]
    /\ news' = (news \/ pc = "wait")
    /\ UNCHANGED <<memory, pc, mine, counter, ring, taking, folder, clock>>

----------------------------------------------------------------------------
(* Copying the picture to frame                                            *)

TooSmallByTwo(bytes) == bytes > maxFrame + 1   \* mutant
TooSmall(bytes) == bytes > maxFrame

GrownBySlack(bytes) == maxFrame + Slack        \* mutant
Grown(bytes) == bytes + Slack

CopyPicture ==
    LET bytes == published.bytes IN
    /\ IF TooSmall(bytes)
       THEN maxFrame' = Grown(bytes) /\ room' = Grown(bytes)
       ELSE UNCHANGED <<maxFrame, room>>
    /\ frame' = published
    /\ overrun' = (overrun \/ dangling \/ bytes > room')
    /\ UNCHANGED <<dangling, noMemory, givenBack>>

(* realloc fails: frame is kept, but max_frame_size is the larger one. *)
NoMemory ==
    /\ TooSmall(published.bytes)
    /\ maxFrame' = Grown(published.bytes)
    /\ noMemory' = TRUE
    /\ overrun' = (overrun \/ dangling)
    /\ UNCHANGED <<frame, room, dangling, givenBack>>

(* free(frame), which leaves max_frame_size as it is; pointer: frame keeps *)
(* its value, and is not NULL from now on.                                 *)
Free(pointer) ==
    /\ frame' = Nothing /\ room' = 0
    /\ dangling' = (dangling \/ (pointer /\ room > 0))
    /\ givenBack' = (givenBack \/ room > 0)
    /\ UNCHANGED <<maxFrame, overrun, noMemory>>

(* What write() saves of the copy c: as many bytes of what frame has now. *)
Saved(c) == IF frame.bytes = c.bytes THEN frame.nr ELSE Torn

----------------------------------------------------------------------------
(* The worker                                                              *)

Goto(l) == pc' = l

Copy ==
    /\ pc = "wait" /\ news
    /\ news' = FALSE
    /\ \/ CopyPicture /\ mine' = published /\ Goto("copied")
       \/ NoMemory /\ Goto("ended") /\ UNCHANGED mine
    /\ UNCHANGED <<published, counter, ring, taking, folder, clock>>

(* open with O_CREAT and O_TRUNC of the name <<now, counter>>. *)
Create ==
    /\ name' \notin DOMAIN files
    /\ data' = Append(data, Empty)
    /\ files' = [f \in DOMAIN files \cup {name'} |-> IF f = name' THEN Len(data') ELSE files[f]]

Truncate ==
    /\ name' \in DOMAIN files
    /\ data' = [data EXCEPT ![files[name']] = Empty]
    /\ UNCHANGED files

(* localtime fails; or strftime does, when frame is freed and NULL. *)
NoName ==
    /\ pc = "copied"
    /\ Free(FALSE) \/ UNCHANGED memory
    /\ Goto("ended")
    /\ UNCHANGED <<published, news, mine, counter, ring, taking, folder, clock>>

Open ==
    /\ pc = "copied"
    /\ name' = <<now, counter>>
    /\ counter' = counter + 1
    /\ \/ (Create \/ Truncate) /\ Goto("opened")
       \/ Goto("ended") /\ UNCHANGED <<files, data>>
    /\ UNCHANGED <<published, news, memory, mine, doomed, missed, taking, link, clock>>

ErrorIgnored == Goto("written")                \* mutant
WriteError == Goto("ended")

(* A full disk may take a part only: write() then returns less, unnoticed. *)
Write ==
    /\ pc = "opened"
    /\ \/ /\ \E d \in {Saved(mine), Torn} : data' = [data EXCEPT ![files[name]] = d]
          /\ Goto("written")
       \/ WriteError /\ UNCHANGED data
    /\ UNCHANGED <<published, news, memory, mine, counter, ring, taking, files, link, clock>>

Unlink ==
    /\ pc = "written"
    /\ link' = 0
    /\ Goto("unlinked")
    /\ UNCHANGED <<published, news, memory, mine, counter, ring, taking, files, data, clock>>

(* link() may fail, which is ignored. *)
Link ==
    /\ pc = "unlinked"
    /\ link' \in {0, files[name]}
    /\ Goto("linked")
    /\ UNCHANGED <<published, news, memory, mine, counter, ring, taking, files, data, clock>>

DueOneLater == Exceed <= 0 \/ counter % (Exceed + 2) = 0      \* mutant
Due == Exceed <= 0 \/ counter = 1 \/ counter % (Exceed + 1) = 0

After(f, g) == f[1] > g[1] \/ (f[1] = g[1] /\ f[2] > g[2])      \* mutant
Before(f, g) == f[1] < g[1] \/ (f[1] = g[1] /\ f[2] < g[2])

(* The first n - size of the n names in order. *)
Oldest ==
    LET all == DOMAIN files
    IN  {f \in all : Cardinality({g \in all : Before(g, f)}) < Cardinality(all) - Size}

Maintain ==
    /\ pc = "linked"
    /\ IF Due /\ Size >= 0
       THEN \/ doomed' = Oldest /\ missed' = FALSE
            \/ doomed' = {} /\ missed' = TRUE       \* scandir fails
       ELSE doomed' = {} /\ UNCHANGED missed
    /\ Goto("maintain")
    /\ UNCHANGED <<published, news, memory, mine, counter, name, taking, folder, clock>>

(* A file that unlink cannot delete is left, and the loop goes on. *)
Delete ==
    /\ pc = "maintain"
    /\ \E f \in doomed :
        /\ \A g \in doomed \ {f} : Before(f, g)
        /\ doomed' = doomed \ {f}
        /\ \/ files' = [g \in DOMAIN files \ {f} |-> files[g]] /\ UNCHANGED missed
           \/ missed' = TRUE /\ UNCHANGED files
    /\ UNCHANGED <<published, news, memory, pc, mine, counter, name, taking, data, link, clock>>

Again ==
    /\ pc = "maintain" /\ doomed = {}
    /\ Goto("wait")
    /\ UNCHANGED <<published, news, memory, mine, counter, ring, taking, folder, clock>>

(* output_stop cancels the worker where it is, or the loop sees that the   *)
(* program stops. worker_cleanup frees frame; takers, which live until the *)
(* process exits, go on. A worker that ended by return NULL does neither.  *)
StopWorker ==
    /\ pc \notin {"ended", "cancelled"}
    /\ \/ Goto("ended")
       \/ pc = "wait" /\ Goto("cancelled")
    /\ Free(TRUE)
    /\ news' = FALSE
    /\ UNCHANGED <<published, mine, counter, ring, taking, folder, clock>>

----------------------------------------------------------------------------
(* output_cmd: OUT_FILE_CMD_TAKE                                           *)

Take(t) ==
    /\ DbFree /\ t \notin taking
    /\ \/ CopyPicture /\ taking' = taking \cup {t}
       \/ NoMemory /\ UNCHANGED taking
    /\ UNCHANGED <<published, news, pc, mine, counter, ring, folder, clock>>

(* The taker's file is no file of the ring; the thread writes it, from     *)
(* what frame is now, or fails to open it.                                 *)
WriteTaken(t) ==
    /\ t \in taking
    /\ taking' = taking \ {t}
    /\ overrun' = (overrun \/ dangling)
    /\ UNCHANGED <<frame, room, maxFrame, dangling, noMemory, givenBack>>
    /\ UNCHANGED <<published, news, pc, mine, counter, ring, folder, clock>>

----------------------------------------------------------------------------
(* Time passes, or is set back (by the user, or at the end of summer time) *)
Tick ==
    /\ now < MaxTime
    /\ now' = now + 1
    /\ UNCHANGED <<published, news, memory, pc, mine, counter, ring, taking, folder, backs, restarts, steady>>

SetBack ==
    /\ backs < MaxBack /\ now > 0
    /\ now' = now - 1
    /\ backs' = backs + 1
    /\ steady' = FALSE
    /\ UNCHANGED <<published, news, memory, pc, mine, counter, ring, taking, folder, restarts>>

(* The program is killed, crashes, or exits, and is started again, with no *)
(* picture published; pictures are numbered on.                            *)
Restart ==
    /\ restarts < MaxRestarts
    /\ restarts' = restarts + 1
    /\ steady' = (steady /\ \A f \in DOMAIN files : f[1] < now)
    /\ published' = [published EXCEPT !.bytes = 0] /\ news' = FALSE
    /\ frame' = Nothing /\ room' = 0 /\ maxFrame' = 0
    /\ dangling' = FALSE /\ overrun' = FALSE /\ noMemory' = FALSE /\ givenBack' = FALSE
    /\ pc' = "wait" /\ mine' = Nothing /\ counter' = 0
    /\ name' = <<0, 0>> /\ doomed' = {} /\ missed' = FALSE
    /\ taking' = {}
    /\ UNCHANGED <<folder, now, backs>>

Next ==
    \/ Publish \/ Copy \/ NoName \/ Open \/ Write \/ Unlink \/ Link \/ Maintain \/ Delete \/ Again \/ StopWorker
    \/ \E t \in Takers : Take(t) \/ WriteTaken(t)
    \/ Tick \/ SetBack \/ Restart

Spec == Init /\ [][Next]_vars

----------------------------------------------------------------------------
(* The types; the frame's recorded size is one that was asked for, and the *)
(* worker's file is in the folder while the worker is at it.               *)
TypeOK ==
    /\ published \in [nr: 0..MaxPictures, bytes: Bytes \cup {0}] /\ news \in BOOLEAN
    /\ frame \in [nr: 0..MaxPictures, bytes: Bytes \cup {0}]
    /\ room \in {0} \cup {b + Slack : b \in Bytes} /\ maxFrame \in {0} \cup {b + Slack : b \in Bytes}
    /\ pc \in {"wait", "copied", "opened", "written", "unlinked", "linked", "maintain", "ended", "cancelled"}
    /\ counter \in 0..MaxPictures /\ name \in (0..MaxTime) \X (0..MaxPictures)
    /\ doomed \subseteq DOMAIN files
    /\ \A f \in DOMAIN files : files[f] \in 1..Len(data)
    /\ \A i \in 1..Len(data) : data[i] \in {Empty, Torn} \cup 1..MaxPictures
    /\ link \in 0..Len(data)
    /\ pc \in {"opened", "written", "unlinked", "linked"} => name \in DOMAIN files

(* The ring is kept "ringbuffer_size to ringbuffer_size + exceed" (the     *)
(* text output_init prints): whenever the worker waits for another picture *)
(* after having saved one, no more pictures are in the folder, whatever    *)
(* interrupted runs of the program left there and however time was set,    *)
(* unless the latest call of maintain_ringbuffer could not scan the folder *)
(* or delete a file; the next call that can makes up for it. And the       *)
(* variables have their types.                                             *)
RingBounded ==
    /\ TypeOK
    /\ pc = "wait" /\ counter > 0 /\ Size >= 0 /\ ~missed =>
         Cardinality(DOMAIN files) <= Size + (IF Exceed > 0 THEN Exceed ELSE 0)

(* maintain_ringbuffer deletes the "oldest files, just keep size most      *)
(* recent files": a picture is deleted only when Size pictures made after  *)
(* it are in the folder. A restart within the second of a picture, or a    *)
(* clock set back, can break this (the comment at output_file.c:149 warns  *)
(* of an invalid time only).                                               *)
KeepsNewest ==
    [][\A f \in DOMAIN files \ DOMAIN files' :
          steady => Cardinality({g \in DOMAIN files' : files[g] > files[f]}) >= Size]_vars

(* Who opens the file of fixed name never finds a picture that is about to *)
(* be written, was left so by a crash, or could not be written: the link   *)
(* is made after the write. A name that is given twice may truncate the    *)
(* picture that is linked; so this too needs a steady clock.               *)
LinkNotEmpty == steady /\ link # 0 => data[link] # Empty

(* The picture the worker or a taker copies fits the frame they share,     *)
(* whichever of them made it grow, and no one uses a frame that was freed, *)
(* with two exceptions: a realloc has failed (max_frame_size is larger     *)
(* than the frame from then on), or the worker, which has found no name or *)
(* was stopped, has freed frame (takers neither know nor wait).            *)
CopyFits == overrun => noMemory \/ givenBack
====
