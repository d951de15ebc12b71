---- MODULE StreamerProofs ----
(***************************************************************************)
(* The streamer as its signal handler and its viewers see it.              *)
(*                                                                         *)
(* The shutdown of mjpg_streamer for any number of inputs, outputs and     *)
(* clients: what the process can die of while its threads are cancelled,   *)
(* their memory freed and their libraries unloaded, and who is at the      *)
(* picture as long as its mutex is there.                                  *)
(*                                                                         *)
(* The pictures of the pages: a page draws only what is newer than its     *)
(* fetch, for any number of fetches outstanding, pages, pictures and       *)
(* deaths.                                                                 *)
(***************************************************************************)
EXTENDS Lifecycle, CameraFeed, FiniteSetTheorems, WellFoundedInduction, TLAPS

-----------------------------------------------------------------------------
(* Lifecycle.                                                              *)

Thread == [at : ConsumerSteps, lib : SUBSET Outputs, in : Inputs, once : BOOLEAN]

TypesOK ==
    /\ kind \in [Outputs -> Kinds]
    /\ started \in 0..AllStarted
    /\ handler \in [at : HandlerSteps, n : 0..(NIn + NOut + 1)]
    /\ cam \in [Inputs -> CamSteps]
    /\ th \in [Consumers -> Thread]
    /\ cancelled \in [in : SUBSET Inputs, out : SUBSET Outputs]
    /\ holder \in [Inputs -> Consumers \cup {Cam, NoThread}]
    /\ destroyed \subseteq Inputs
    /\ unloaded \subseteq Outputs
    /\ over \in {"no", "exited", "crashed"}
    /\ slow \in [in : SUBSET Inputs, out : SUBSET Outputs]
    /\ culprit \in [of : {"nothing", "early", "unmapped", "input", "buffer", "frame"},
                    who : Consumers \cup {NoThread}]
    /\ \A k \in Outputs : th[k].lib = {k}

StopOK == stop \in BOOLEAN /\ (stop => handler.at # "off") /\ (handler.at # "off" => stop)

\* What main has not started does not run. A worker comes to its cleanup handler, and
\* a wait is broken off, only when the program is told to end.
ThreadsOK ==
    /\ \A k \in Outputs : ~OutRan(k) => th[k].at = "none"
    /\ \A i \in Inputs : ~InRan(i) => cam[i] = "none"
    /\ \A k \in Outputs : th[k].at = "clean" => handler.at # "off"
    /\ \A t \in Consumers : th[t].at = "reclaim" => Cancelled(t)

\* The stop function of an output of k's plugin has cancelled somebody there.
Reached(k) == SamePlugin(k) \cap cancelled.out # {}

\* How far the handler is tells which threads it has cancelled.
HandlerOK ==
    /\ handler.at = "stopIn" =>
         /\ handler.n \in 1..(NIn + 1)
         /\ \A i \in Inputs : i < handler.n => i \in cancelled.in
    /\ handler.at \notin {"off", "sleep", "stopIn"} => cancelled.in = Inputs
    /\ handler.at \in {"off", "sleep", "stopIn"} => cancelled.out = {}
    /\ handler.at = "stopOut" =>
         /\ handler.n \in 1..(NOut + 1)
         /\ \A k \in Outputs : k < handler.n => Reached(k)
    /\ handler.at \in {"cond", "mutex"} =>
         /\ handler.n \in Outputs
         /\ \A k \in Outputs : k <= handler.n => Reached(k)
    /\ handler.at \in {"sleepAgain", "closeIn", "closeOut", "exit"} =>
         \A k \in Outputs : Reached(k)
    /\ handler.at = "closeOut" => handler.n \in 1..(NOut + 1)
    /\ unloaded # {} => handler.at \in {"closeOut", "exit"}
    /\ \A k \in unloaded : SamePlugin(k) = {k}

Closing == handler.at \in {"closeIn", "closeOut", "exit"}

\* After the second sleep a cancelled thread is at rest, or was too slow for it.
RestOK ==
    Closing =>
        /\ \A k \in Outputs : k \in cancelled.out => AtRest(k) \/ k \in slow.out
        /\ \A i \in Inputs : CamAtRest(i) \/ i \in slow.in

EndOK ==
    over = "crashed" =>
        \/ culprit.of = "early" /\ started < AllStarted
        \/ culprit.of = "buffer"
        \/ /\ culprit.of = "frame" /\ handler.at # "off"
           /\ culprit.who \in Clients \/ SamePlugin(culprit.who) # {culprit.who}
        \/ culprit.of = "unmapped" /\ culprit.who \in Clients \cup slow.out
        \/ culprit.of = "input" /\ slow.in # {}

LifeInv == TypesOK /\ StopOK /\ ThreadsOK /\ HandlerOK /\ RestOK /\ EndOK

LEMMA NewThread ==
    ASSUME NEW a \in ConsumerSteps, NEW l \in SUBSET Outputs, NEW i \in Inputs, NEW b \in BOOLEAN
    PROVE  [at |-> a, lib |-> l, in |-> i, once |-> b] \in Thread
  BY Zenon DEF Thread

LEMMA LifeInit == Init => LifeInv
<1> SUFFICES ASSUME Init PROVE LifeInv
  OBVIOUS
<1> USE LifecycleAssumption
<1>1. StopOK
  <2>1. handler.at = "off" /\ stop = FALSE
    BY DEF Init, Off
  <2> QED BY <2>1, Zenon DEF StopOK
<1>2. \A t \in Consumers : /\ th[t] \in Thread /\ th[t].at = "none"
                           /\ t \in Outputs => th[t].lib = {t}
  <2>1. 1 \in Inputs /\ "none" \in ConsumerSteps
    BY DEF Inputs, ConsumerSteps
  <2> FALSE \in BOOLEAN
    OBVIOUS
  <2>2. SUFFICES ASSUME NEW t \in Consumers
                 PROVE  /\ th[t] \in Thread /\ th[t].at = "none"
                        /\ t \in Outputs => th[t].lib = {t}
    OBVIOUS
  <2>3. CASE t \in Outputs
    <3>1. th[t] = [at |-> "none", lib |-> {t}, in |-> 1, once |-> FALSE]
      BY <2>3 DEF Init, Absent
    <3>2. [at |-> "none", lib |-> {t}, in |-> 1, once |-> FALSE] \in Thread
      <4>1. {t} \in SUBSET Outputs
        BY <2>3
      <4> QED BY <2>1, <4>1, NewThread
    <3> QED BY <3>1, <3>2
  <2>4. CASE t \notin Outputs
    <3>1. th[t] = [at |-> "none", lib |-> {}, in |-> 1, once |-> FALSE]
      BY <2>4 DEF Init, Absent
    <3>2. [at |-> "none", lib |-> {}, in |-> 1, once |-> FALSE] \in Thread
      <4>1. {} \in SUBSET Outputs
        OBVIOUS
      <4> QED BY <2>1, <4>1, NewThread
    <3> QED BY <2>4, <3>1, <3>2
  <2> QED BY <2>3, <2>4
<1>3. th \in [Consumers -> Thread]
  BY <1>2 DEF Init
<1>4. TypesOK
  <2>1. /\ kind \in [Outputs -> Kinds] /\ started = 0 /\ handler = Off
        /\ cam = [i \in Inputs |-> "none"]
        /\ cancelled = [in |-> {}, out |-> {}] /\ holder = [i \in Inputs |-> NoThread]
        /\ destroyed = {} /\ unloaded = {} /\ over = "no"
        /\ slow = [in |-> {}, out |-> {}]
        /\ culprit = [of |-> "nothing", who |-> NoThread]
    BY DEF Init
  <2>2. started \in 0..AllStarted
    BY <2>1 DEF AllStarted
  <2>3. handler \in [at : HandlerSteps, n : 0..(NIn + NOut + 1)]
    BY <2>1 DEF Off, HandlerSteps
  <2> QED BY <1>2, <1>3, <2>1, <2>2, <2>3 DEF TypesOK, CamSteps, Consumers
<1>5. HandlerOK /\ RestOK /\ EndOK
  BY DEF Init, Off, HandlerOK, RestOK, Closing, EndOK
<1>6. ThreadsOK
  BY <1>2 DEF Init, ThreadsOK, Consumers
<1> QED BY <1>1, <1>4, <1>5, <1>6 DEF LifeInv

-----------------------------------------------------------------------------
(* main and the ends.                                                      *)

\* A thread changes its place and nothing else.
LEMMA PlaceOnly ==
    ASSUME NEW r \in Thread, NEW to \in ConsumerSteps
    PROVE  [r EXCEPT !.at = to] \in Thread
  BY Zenon DEF Thread

LEMMA MainKeeps == LifeInv /\ MainStep => LifeInv'
<1> SUFFICES ASSUME LifeInv, MainStep PROVE LifeInv'
  OBVIOUS
<1> USE LifecycleAssumption DEF LifeInv
<1> DEFINE in  == started + 1 - (NIn + NOut)
           out == started + 1 - (2 * NIn + NOut)
<1>1. /\ over = "no" /\ handler = Off /\ started' = started + 1 /\ started < AllStarted
      /\ cam' = IF in \in Inputs THEN [cam EXCEPT ![in] = "test"] ELSE cam
      /\ UNCHANGED <<kind, stop, handler, destroyed, unloaded, slow, holder, cancelled, over, culprit>>
  BY DEF MainStep, handlerVars
<1>2. StopOK'
  BY <1>1, Zenon DEF StopOK
<1>3. /\ th' \in [Consumers -> Thread]
      /\ \A k \in Outputs : th'[k].lib = {k}
      /\ \A t \in Consumers : t # out => th'[t] = th[t]
      /\ out \in Outputs => th'[out].at \in {"accept", "test"}
  <2>1. CASE out \in Outputs
    <3>1. PICK i \in Inputs, at \in {"accept", "test"} :
            th' = [th EXCEPT ![out].at = at, ![out].in = i]
      BY <2>1 DEF MainStep
    <3>2. out \in Consumers /\ th[out] \in Thread
      BY <2>1 DEF Consumers, TypesOK
    <3>3. /\ th'[out] = [[th[out] EXCEPT !.at = at] EXCEPT !.in = i]
          /\ \A t \in Consumers : t # out => th'[t] = th[t]
      BY <3>1, <3>2 DEF TypesOK
    <3>4. th'[out] \in Thread
      BY <3>2, <3>3, Zenon DEF Thread, ConsumerSteps
    <3>5. th'[out].lib = th[out].lib /\ th'[out].at = at
      BY <3>2, <3>3 DEF Thread
    <3>6. th' \in [Consumers -> Thread]
      BY <3>1, <3>3, <3>4 DEF TypesOK
    <3> QED BY <3>3, <3>5, <3>6 DEF TypesOK, Consumers
  <2>2. CASE out \notin Outputs
    BY <2>2 DEF MainStep, TypesOK
  <2> QED BY <2>1, <2>2
<1>4. cam' \in [Inputs -> CamSteps]
  BY <1>1 DEF TypesOK, CamSteps
<1>5. TypesOK'
  BY <1>1, <1>3, <1>4 DEF TypesOK, AllStarted
<1>6. HandlerOK' /\ RestOK' /\ EndOK'
  BY <1>1 DEF HandlerOK, RestOK, Closing, EndOK, Off, Reached, SamePlugin
<1>7. ThreadsOK'
  <2>1. started \in Nat
    BY DEF TypesOK, AllStarted
  <2>2. \A k \in Outputs : ~OutRan(k)' => k # out /\ ~OutRan(k)
    BY <1>1, <2>1 DEF OutRan, Outputs
  <2>3. \A i \in Inputs : ~InRan(i)' => i # in /\ ~InRan(i)
    BY <1>1, <2>1 DEF InRan, Inputs
  <2>4. \A i \in Inputs : ~InRan(i)' => cam'[i] = "none"
    BY <1>1, <2>3 DEF ThreadsOK, TypesOK
  <2>5. \A k \in Outputs : ~OutRan(k)' => th'[k].at = "none"
    BY <1>3, <2>2 DEF ThreadsOK, Consumers
  <2>6. \A t \in Consumers : th'[t].at \in {"clean", "reclaim"} => th'[t] = th[t]
    <3>1. out \notin Outputs => th' = th
      BY DEF MainStep
    <3> QED BY <1>3, <3>1
  <2> QED BY <1>1, <2>4, <2>5, <2>6 DEF ThreadsOK, Cancelled, Consumers
<1> QED BY <1>2, <1>5, <1>6, <1>7

\* The process is over, and the rest is as it was.
LEMMA OverKeeps ==
    ASSUME LifeInv, over' \in {"exited", "crashed"},
           UNCHANGED <<kind, started, stop, handler, destroyed, unloaded, slow, cam, holder, th, cancelled>>,
           culprit' \in [of : {"nothing", "early", "unmapped", "input", "buffer", "frame"},
                         who : Consumers \cup {NoThread}],
           EndOK'
    PROVE  LifeInv'
<1> USE DEF LifeInv
<1>1. StopOK'
  BY Zenon DEF StopOK
<1>2. TypesOK'
  BY DEF TypesOK
<1>3. ThreadsOK'
  BY DEF ThreadsOK, OutRan, InRan, Cancelled
<1>4. HandlerOK'
  BY DEF HandlerOK, Reached, SamePlugin
<1>5. RestOK'
  BY DEF RestOK, Closing, AtRest, CamAtRest, TakenAlong
<1> QED BY <1>1, <1>2, <1>3, <1>4, <1>5

LEMMA FailKeeps == LifeInv /\ (MainFails \/ Exit) => LifeInv'
<1> SUFFICES ASSUME LifeInv, MainFails \/ Exit PROVE LifeInv'
  OBVIOUS
<1>1. /\ over' = "exited"
      /\ UNCHANGED <<kind, started, stop, handler, destroyed, unloaded, slow, cam, holder, th,
                     cancelled, culprit>>
  BY DEF MainFails, Exit, HandlerStep, handlerVars, camVars
<1>2. EndOK'
  BY <1>1 DEF EndOK
<1>3. culprit' \in [of : {"nothing", "early", "unmapped", "input", "buffer", "frame"},
                    who : Consumers \cup {NoThread}]
  BY <1>1 DEF LifeInv, TypesOK
<1> QED BY <1>1, <1>2, <1>3, OverKeeps

LEMMA CrashKeeps ==
    ASSUME LifeInv,
           NEW of \in {"early", "unmapped", "input", "buffer", "frame"},
           NEW who \in Consumers \cup {NoThread}, Crash(of, who),
           of = "early" => started < AllStarted,
           of = "frame" => handler.at # "off" /\ (who \in Clients \/ SamePlugin(who) # {who}),
           of = "unmapped" => who \in Clients \cup slow.out,
           of = "input" => slow.in # {}
    PROVE  LifeInv'
<1>1. /\ over' = "crashed" /\ culprit' = [of |-> of, who |-> who]
      /\ UNCHANGED <<kind, started, stop, handler, destroyed, unloaded, slow, cam, holder, th, cancelled>>
  BY DEF Crash, handlerVars, camVars
<1>2. EndOK'
  BY <1>1 DEF EndOK, SamePlugin
<1>3. culprit' \in [of : {"nothing", "early", "unmapped", "input", "buffer", "frame"},
                    who : Consumers \cup {NoThread}]
  BY <1>1
<1> QED BY <1>1, <1>2, <1>3, OverKeeps

\* A stop function that is missing, or that has no thread to cancel, means that main
\* had not got so far.
LEMMA Greatest ==
    ASSUME NEW S \in SUBSET Outputs, S # {}
    PROVE  \E m \in S : \A n \in S : n <= m
<1> USE LifecycleAssumption DEF Outputs
<1> DEFINE T == {NOut - m : m \in S}
<1>1. T \subseteq Nat /\ T # {}
  <2>1. \A m \in S : m \in Nat /\ m <= NOut
    OBVIOUS
  <2>2. \A m \in S : NOut - m \in Nat
    BY <2>1
  <2>3. T \subseteq Nat
    BY <2>2
  <2> QED BY <2>3
<1>2. \E x \in T : \A y \in T : ~ (<<y, x>> \in OpToRel(<, Nat))
  <2> HIDE DEF T
  <2> QED BY ONLY <1>1, WFMin, NatLessThanWellFounded
<1>3. PICK x \in T : \A y \in T : ~ (<<y, x>> \in OpToRel(<, Nat))
  BY <1>2
<1>4. \A y \in T : ~ (y < x)
  <2> TAKE y \in T
  <2>1. <<y, x>> \in OpToRel(<, Nat) <=> y < x
    BY <1>1 DEF OpToRel
  <2> QED BY <1>3, <2>1
<1>5. PICK m \in S : x = NOut - m
  OBVIOUS
<1>6. \A n \in S : NOut - n \in T
  OBVIOUS
<1>7. \A n \in S : n \in Int
  OBVIOUS
<1>8. \A n \in S : n <= m
  <2> TAKE n \in S
  <2>1. ~ (NOut - n < NOut - m)
    BY <1>4, <1>5, <1>6
  <2> HIDE DEF T
  <2> QED BY <1>7, <2>1
<1> QED BY <1>8

LEMMA EarlyKeeps == LifeInv /\ StopTooEarly => LifeInv'
<1> SUFFICES ASSUME LifeInv, StopTooEarly PROVE LifeInv'
  OBVIOUS
<1>1. started < AllStarted
  <2> SUFFICES ASSUME ~(started < AllStarted) PROVE FALSE
    OBVIOUS
  <2>1. \A i \in Inputs : InRan(i)
    BY LifecycleAssumption DEF InRan, AllStarted, Inputs, LifeInv, TypesOK
  <2>2. \A k \in Outputs : OutRan(k) /\ OutLoaded(k)
    BY LifecycleAssumption DEF OutRan, OutLoaded, AllStarted, Outputs, LifeInv, TypesOK
  <2>3. PICK k \in Outputs : Handle(k) = {}
    BY <2>1, <2>2 DEF StopTooEarly
  <2>4. SamePlugin(k) \in SUBSET Outputs /\ k \in SamePlugin(k)
    BY DEF SamePlugin
  <2>5. CASE kind[k] = "server"
    BY <2>2, <2>3, <2>4, <2>5 DEF Handle
  <2>6. CASE kind[k] # "server"
    <3>1. PICK m \in SamePlugin(k) : \A n \in SamePlugin(k) : n <= m
      BY <2>4, Greatest
    <3> QED BY <2>2, <2>3, <2>4, <2>6, <3>1 DEF Handle
  <2> QED BY <2>5, <2>6
<1> QED BY <1>1, CrashKeeps DEF StopTooEarly

\* Who is at rest needs a mutex that will not come.
LEMMA RestIsStill ==
    ASSUME LifeInv
    PROVE  /\ \A t \in Consumers :
                AtRest(t) => \/ th[t].at \in {"none", "clean", "ended"}
                             \/ /\ th[t].at \in {"lock", "woken", "reclaim"}
                                /\ ~Enterable(th[t].in)
           /\ \A i \in Inputs :
                CamAtRest(i) => \/ cam[i] \in {"none", "gone"}
                                \/ cam[i] = "lock" /\ ~Enterable(i)
<1>1. \A i \in Inputs : TakenAlong(i) => ~Enterable(i)
  BY LifecycleAssumption DEF TakenAlong, Enterable, Consumers
<1>2. \A t \in Consumers : th[t].in \in Inputs
  BY DEF LifeInv, TypesOK, Thread
<1> QED BY <1>1, <1>2 DEF AtRest, CamAtRest

\* A thread in an unloaded library was cancelled: the library was its plugin's alone.
LEMMA UnmappedKeeps ==
    ASSUME LifeInv, NEW t \in Consumers, Unmapped(t)
    PROVE  LifeInv'
<1>1. t \in Outputs => t \in slow.out
  <2> SUFFICES ASSUME t \in Outputs PROVE t \in slow.out
    OBVIOUS
  <2>1. t \in unloaded
    BY DEF Unmapped, Loaded, LifeInv, TypesOK
  <2>2. Closing /\ SamePlugin(t) = {t} /\ Reached(t)
    BY <2>1 DEF LifeInv, HandlerOK, Closing
  <2>3. t \in cancelled.out
    BY <2>2 DEF Reached
  <2>4. AtRest(t) \/ t \in slow.out
    BY <2>2, <2>3 DEF LifeInv, RestOK
  <2>5. ~AtRest(t)
    BY RestIsStill DEF Unmapped
  <2> QED BY <2>4, <2>5
<1>2. t \in Clients \cup slow.out /\ Crash("unmapped", t)
  BY <1>1 DEF Unmapped, Consumers
<1> QED BY <1>2, CrashKeeps

LEMMA CamUnmappedKeeps ==
    ASSUME LifeInv, NEW i \in Inputs, CamUnmapped(i)
    PROVE  LifeInv'
<1>1. Closing /\ Crash("input", NoThread)
  BY DEF CamUnmapped, InputsUnmapped, Closing
<1>2. ~CamAtRest(i)
  BY RestIsStill DEF CamUnmapped
<1>3. slow.in # {}
  BY <1>1, <1>2 DEF LifeInv, RestOK
<1> QED BY <1>1, <1>3, CrashKeeps

\* The frame a thread is at was freed by another worker of its plugin: its own
\* cleanup would have been its end.
LEMMA FreedKeeps ==
    ASSUME LifeInv, NEW t \in Consumers, FreedFrame(t)
    PROVE  LifeInv'
<1>1. PICK k \in Outputs : th[k].at = "clean" /\ th[t].lib \cap SamePlugin(k) # {}
  BY DEF FreedFrame
<1>2. handler.at # "off"
  BY <1>1 DEF LifeInv, ThreadsOK
<1>3. t \in Outputs => SamePlugin(t) # {t}
  <2> SUFFICES ASSUME t \in Outputs PROVE SamePlugin(t) # {t}
    OBVIOUS
  <2>1. th[t].lib = {t}
    BY DEF LifeInv, TypesOK
  <2>2. t \in SamePlugin(k)
    BY <1>1, <2>1
  <2>3. k \in SamePlugin(t)
    BY <2>2 DEF SamePlugin
  <2>4. k # t
    BY <1>1 DEF FreedFrame
  <2> QED BY <2>3, <2>4
<1>4. Crash("frame", t) /\ (t \in Clients \/ SamePlugin(t) # {t})
  BY <1>3 DEF FreedFrame, Consumers
<1> QED BY <1>2, <1>4, CrashKeeps

LEMMA BufferKeeps ==
    ASSUME LifeInv, NEW i \in Inputs, FreedInCopy(i)
    PROVE  LifeInv'
<1>1. PICK t \in Consumers : Crash("buffer", t)
  BY DEF FreedInCopy
<1> QED BY <1>1, CrashKeeps

-----------------------------------------------------------------------------
(* The threads.                                                            *)

\* A mutex that a dead worker took along is never free again, so nobody gets it
\* and nobody gives it back.
LEMMA StaysAtRest ==
    ASSUME LifeInv, UNCHANGED <<handler, destroyed, slow, cancelled>>,
           \A k \in Outputs : AtRest(k) => th'[k] = th[k],
           \A i \in Inputs : CamAtRest(i) => cam'[i] = cam[i],
           \A i \in Inputs : TakenAlong(i) => holder'[i] = holder[i]
    PROVE  RestOK'
<1> SUFFICES ASSUME Closing PROVE RestOK'
  BY DEF RestOK, Closing
<1>1. \A k \in Outputs : th[k].at = "clean" => th'[k] = th[k]
  BY DEF AtRest
<1>2. \A i \in Inputs : TakenAlong(i) => TakenAlong(i)'
  BY <1>1 DEF TakenAlong
<1>3. \A k \in Outputs : AtRest(k) => AtRest(k)'
  <2> TAKE k \in Outputs
  <2>1. th[k].in \in Inputs
    BY DEF LifeInv, TypesOK, Thread, Consumers
  <2> QED BY <1>2, <2>1 DEF AtRest
<1>4. \A i \in Inputs : CamAtRest(i) => CamAtRest(i)'
  BY <1>2 DEF CamAtRest
<1> QED BY <1>3, <1>4 DEF LifeInv, RestOK

LEMMA Enters ==
    ASSUME LifeInv, NEW i \in Inputs, NEW t \in Consumers \cup {Cam},
           \/ holder' = holder
           \/ Enterable(i) /\ holder' = Entered(i, t)
           \/ (t = Cam \/ th[t].at = "hold") /\ holder' = Left(i, t)
    PROVE  /\ holder' \in [Inputs -> Consumers \cup {Cam, NoThread}]
           /\ \A j \in Inputs : TakenAlong(j) => holder'[j] = holder[j]
<1> USE LifecycleAssumption DEF LifeInv, TypesOK, Consumers
<1>1. CASE holder' = holder
  BY <1>1
<1>2. CASE Enterable(i) /\ holder' = Entered(i, t)
  BY <1>2 DEF Enterable, Entered, TakenAlong
<1>3. CASE (t = Cam \/ th[t].at = "hold") /\ holder' = Left(i, t)
  BY <1>3 DEF Left, TakenAlong
<1> QED BY <1>1, <1>2, <1>3

\* What the steps of a worker or a client have in common.
LEMMA ThreadStep ==
    ASSUME LifeInv, NEW t \in Consumers, ThreadNext(t)
    PROVE  \E from \in ConsumerSteps \ {"none", "clean", "ended"}, to \in ConsumerSteps :
             /\ Goto(t, from, to)
             /\ from \in {"lock", "take", "woken", "reclaim"} => Enterable(th[t].in)
             /\ \/ holder' = holder
                \/ Enterable(th[t].in) /\ holder' = Entered(th[t].in, t)
                \/ from = "hold" /\ holder' = Left(th[t].in, t)
             /\ to = "clean" => t \in Outputs
             /\ to = "clean" => stop \/ from = "reclaim" \/ Cancelled(t)
             /\ to = "reclaim" => Cancelled(t)
<1>1. t \in Clients \/ t \in Outputs
  BY DEF Consumers
<1>2. Cancelled(t) => t \in Outputs
  BY DEF Cancelled, LifeInv, TypesOK
<1>3. CASE LoopTest(t)
  <2>1. stop \in BOOLEAN
    BY DEF LifeInv, StopOK
  <2>2. Goto(t, "test", IF stop THEN Done(t) ELSE "lock") /\ holder' = holder
    BY <1>3 DEF LoopTest
  <2>3. (IF stop THEN Done(t) ELSE "lock") \in {"none", "clean", "lock"}
    BY DEF Done
  <2>4. (IF stop THEN Done(t) ELSE "lock") = "clean" => stop /\ t \in Outputs
    BY <1>1 DEF Done
  <2> QED BY <2>2, <2>3, <2>4 DEF ConsumerSteps
<1>4. CASE Lock(t)
  <2>1. Goto(t, "lock", "hold") \/ Goto(t, "lock", "wait")
    BY <1>4 DEF Lock
  <2> QED BY <1>4, <2>1 DEF Lock, ConsumerSteps
<1>5. CASE Take(t)
  <2>1. Goto(t, "take", "none") \/ Goto(t, "take", "hold")
    BY <1>5 DEF Take
  <2> QED BY <1>5, <2>1 DEF Take, ConsumerSteps
<1>6. CASE Wake(t)
  BY <1>6 DEF Wake, ConsumerSteps
<1>7. CASE Unlock(t)
  BY <1>7 DEF Unlock, ConsumerSteps
<1>8. CASE Write(t)
  <2>1. Goto(t, "write", "test") \/ Goto(t, "write", "none") \/ Goto(t, "write", "ended")
    BY <1>8 DEF Write
  <2> QED BY <1>8, <2>1 DEF Write, ConsumerSteps
<1>9. CASE CancelWait(t)
  BY <1>9 DEF CancelWait, ConsumerSteps
<1>10. CASE Reclaim(t)
  <2>1. Goto(t, "reclaim", "clean") /\ Enterable(th[t].in) /\ holder' = Entered(th[t].in, t)
    BY <1>10 DEF Reclaim
  <2>2. t \in Outputs
    BY <1>2, <2>1 DEF Goto, LifeInv, ThreadsOK
  <2> QED BY <2>1, <2>2 DEF ConsumerSteps
<1>11. CASE CancelElsewhere(t)
  BY <1>2, <1>11 DEF CancelElsewhere, ConsumerSteps
<1> QED BY <1>3, <1>4, <1>5, <1>6, <1>7, <1>8, <1>9, <1>10, <1>11 DEF ThreadNext

LEMMA ThreadKeeps ==
    ASSUME LifeInv, NEW t \in Consumers, ThreadNext(t)
    PROVE  LifeInv'
<1> USE LifecycleAssumption DEF LifeInv
<1>1. PICK from \in ConsumerSteps \ {"none", "clean", "ended"}, to \in ConsumerSteps :
        /\ Goto(t, from, to)
        /\ from \in {"lock", "take", "woken", "reclaim"} => Enterable(th[t].in)
        /\ \/ holder' = holder
           \/ Enterable(th[t].in) /\ holder' = Entered(th[t].in, t)
           \/ from = "hold" /\ holder' = Left(th[t].in, t)
        /\ to = "clean" => t \in Outputs
        /\ to = "clean" => stop \/ from = "reclaim" \/ Cancelled(t)
        /\ to = "reclaim" => Cancelled(t)
  BY ThreadStep
<1>2. /\ over = "no" /\ th[t].at = from /\ th' = [th EXCEPT ![t].at = to]
      /\ UNCHANGED <<kind, started, stop, handler, destroyed, unloaded, slow, cam, cancelled, over, culprit>>
  BY <1>1 DEF Goto, handlerVars
<1>3. StopOK'
  BY <1>2, Zenon DEF StopOK
<1>4. th[t] \in Thread /\ th[t].in \in Inputs
  BY DEF TypesOK, Thread
<1>5. /\ th'[t] = [th[t] EXCEPT !.at = to]
      /\ \A u \in Consumers : u # t => th'[u] = th[u]
      /\ th' \in [Consumers -> Thread]
  <2>1. th'[t] = [th[t] EXCEPT !.at = to] /\ \A u \in Consumers : u # t => th'[u] = th[u]
    BY <1>2 DEF TypesOK
  <2>2. th'[t] \in Thread
    BY <1>4, <2>1, PlaceOnly
  <2> QED BY <1>2, <2>1, <2>2 DEF TypesOK
<1>6. \A k \in Outputs : th'[k].lib = {k}
  BY <1>4, <1>5 DEF TypesOK, Thread, Consumers
<1>7. ~AtRest(t)
  BY <1>1, <1>2, RestIsStill
<1>8. /\ holder' \in [Inputs -> Consumers \cup {Cam, NoThread}]
      /\ \A j \in Inputs : TakenAlong(j) => holder'[j] = holder[j]
  BY <1>1, <1>2, <1>4, Enters
<1>9. TypesOK'
  BY <1>2, <1>5, <1>6, <1>8 DEF TypesOK
<1>10. RestOK'
  BY <1>2, <1>5, <1>7, <1>8, StaysAtRest DEF Consumers
<1>11. ThreadsOK'
  <2>1. th'[t].at = to
    BY <1>4, <1>5 DEF Thread
  <2>2. to = "clean" => handler.at # "off"
    <3>1. stop => handler.at # "off"
      BY Zenon DEF StopOK
    <3>2. from = "reclaim" => Cancelled(t)
      BY <1>2 DEF ThreadsOK
    <3>3. Cancelled(t) => handler.at # "off"
      BY DEF Cancelled, HandlerOK
    <3> QED BY <1>1, <3>1, <3>2, <3>3
  <2>3. \A k \in Outputs : ~OutRan(k) => k # t
    BY <1>1, <1>2 DEF ThreadsOK
  <2>4. \A k \in Outputs : ~OutRan(k)' => th'[k].at = "none"
    BY <1>2, <1>5, <2>3 DEF ThreadsOK, OutRan, Consumers
  <2>5. \A k \in Outputs : th'[k].at = "clean" => handler'.at # "off"
    BY <1>2, <1>5, <2>1, <2>2 DEF ThreadsOK, Consumers
  <2>6. \A u \in Consumers : th'[u].at = "reclaim" => Cancelled(u)'
    BY <1>1, <1>2, <1>5, <2>1 DEF ThreadsOK, Cancelled
  <2> QED BY <1>2, <2>4, <2>5, <2>6 DEF ThreadsOK, InRan
<1>12. HandlerOK' /\ EndOK'
  BY <1>2 DEF HandlerOK, EndOK, Reached, SamePlugin
<1> QED BY <1>3, <1>9, <1>10, <1>11, <1>12

\* A server thread that accepts is not at rest, nor has a client come to anything yet.
LEMMA AcceptKeeps ==
    ASSUME LifeInv, NEW k \in Outputs, NEW c \in Clients, Accept(k, c)
    PROVE  LifeInv'
<1> USE LifecycleAssumption DEF LifeInv
<1>1. PICK i \in Inputs, a \in {"accept", "clean"}, p \in {"lock", "test"}, snapshot \in BOOLEAN :
        /\ th' = [th EXCEPT ![k].at = a,
                            ![c] = [at |-> p, lib |-> {k}, in |-> i, once |-> snapshot]]
        /\ a = "clean" => stop
  <2>1. PICK i \in Inputs, snapshot \in BOOLEAN :
          th' = [th EXCEPT ![k].at = IF stop THEN "clean" ELSE "accept",
                           ![c] = [at |-> IF snapshot THEN "lock" ELSE "test",
                                   lib |-> {k}, in |-> i, once |-> snapshot]]
    BY Zenon DEF Accept
  <2>2. /\ (IF stop THEN "clean" ELSE "accept") \in {"accept", "clean"}
        /\ (IF stop THEN "clean" ELSE "accept") = "clean" => stop
    BY DEF StopOK
  <2>3. (IF snapshot THEN "lock" ELSE "test") \in {"lock", "test"}
    OBVIOUS
  <2> QED BY <2>1, <2>2, <2>3, Zenon
<1>2. /\ over = "no" /\ th[k].at = "accept"
      /\ UNCHANGED <<kind, started, stop, handler, destroyed, unloaded, slow, cam, holder, cancelled,
                     over, culprit>>
  BY DEF Accept, handlerVars, camVars
<1>3. StopOK'
  BY <1>2, Zenon DEF StopOK
<1>4. k # c /\ k \in Consumers /\ c \in Consumers /\ th[k] \in Thread /\ c \notin Outputs
  BY DEF Consumers, TypesOK
<1>5. [at |-> p, lib |-> {k}, in |-> i, once |-> snapshot] \in Thread
  <2>1. p \in ConsumerSteps /\ {k} \in SUBSET Outputs
    BY DEF ConsumerSteps
  <2> QED BY <2>1, NewThread
<1>6. /\ th'[k] = [th[k] EXCEPT !.at = a]
      /\ th'[c] = [at |-> p, lib |-> {k}, in |-> i, once |-> snapshot]
      /\ \A u \in Consumers : u # k /\ u # c => th'[u] = th[u]
  BY <1>1, <1>4 DEF TypesOK
<1>7. /\ th'[k] \in Thread /\ th'[k].lib = th[k].lib /\ th'[k].at = a
      /\ th'[c].at = p
  <2>1. a \in ConsumerSteps
    BY DEF ConsumerSteps
  <2> QED BY <1>4, <1>6, <2>1, PlaceOnly DEF Thread
<1>8. th' \in [Consumers -> Thread] /\ \A o \in Outputs : th'[o].lib = {o}
  <2>1. \A u \in Consumers : th'[u] \in Thread
    BY <1>5, <1>6, <1>7 DEF TypesOK
  <2>2. th' \in [Consumers -> Thread]
    BY <1>1, <2>1 DEF TypesOK
  <2>3. \A o \in Outputs : th'[o].lib = {o}
    BY <1>4, <1>6, <1>7 DEF TypesOK, Consumers
  <2> QED BY <2>2, <2>3
<1>9. TypesOK'
  BY <1>2, <1>8 DEF TypesOK
<1>10. ~AtRest(k)
  BY <1>2 DEF AtRest
<1>11. RestOK'
  <2>1. \A o \in Outputs : AtRest(o) => th'[o] = th[o]
    BY <1>4, <1>6, <1>10 DEF Consumers
  <2> QED BY <1>2, <2>1, StaysAtRest
<1>12. ThreadsOK'
  <2>1. stop => handler.at # "off"
    BY Zenon DEF StopOK
  <2>2. \A o \in Outputs : ~OutRan(o) => o # k
    BY <1>2 DEF ThreadsOK
  <2>3. \A o \in Outputs : ~OutRan(o)' => th'[o].at = "none"
    BY <1>2, <1>4, <1>6, <2>2 DEF ThreadsOK, OutRan, Consumers
  <2>4. \A o \in Outputs : th'[o].at = "clean" => handler'.at # "off"
    BY <1>1, <1>2, <1>4, <1>6, <1>7, <2>1 DEF ThreadsOK, Consumers
  <2>5. \A u \in Consumers : th'[u].at = "reclaim" => Cancelled(u)'
    BY <1>1, <1>2, <1>6, <1>7 DEF ThreadsOK, Cancelled
  <2> QED BY <1>2, <2>3, <2>4, <2>5 DEF ThreadsOK, InRan
<1>13. HandlerOK' /\ EndOK'
  BY <1>2 DEF HandlerOK, EndOK, Reached, SamePlugin
<1> QED BY <1>3, <1>9, <1>11, <1>12, <1>13

\* A client turns to another plugin.
LEMMA CommandKeeps ==
    ASSUME LifeInv, NEW m \in Outputs, NEW c \in Clients, Command(c, m)
    PROVE  LifeInv'
<1> USE LifecycleAssumption DEF LifeInv
<1>1. PICK i \in Inputs :
        th' = [th EXCEPT ![c].at = "take", ![c].lib = @ \cup {m}, ![c].in = i]
  BY DEF Command
<1>2. /\ over = "no"
      /\ UNCHANGED <<kind, started, stop, handler, destroyed, unloaded, slow, cam, holder, cancelled,
                     over, culprit>>
  BY DEF Command, handlerVars, camVars
<1>3. StopOK'
  BY <1>2, Zenon DEF StopOK
<1>4. c \in Consumers /\ c \notin Outputs /\ th[c] \in Thread
  BY DEF Consumers, TypesOK
<1>5. /\ th'[c] = [[[th[c] EXCEPT !.at = "take"] EXCEPT !.lib = @ \cup {m}] EXCEPT !.in = i]
      /\ \A u \in Consumers : u # c => th'[u] = th[u]
  BY <1>1, <1>4 DEF TypesOK
<1>6. th'[c] \in Thread /\ th'[c].at = "take"
  <2>1. th[c].lib \cup {m} \in SUBSET Outputs /\ "take" \in ConsumerSteps
    BY <1>4 DEF Thread, ConsumerSteps
  <2> DEFINE r1 == [th[c] EXCEPT !.at = "take"]
             r2 == [r1 EXCEPT !.lib = th[c].lib \cup {m}]
             r3 == [r2 EXCEPT !.in = i]
  <2>2. r1 \in Thread /\ r1.lib = th[c].lib /\ r1.at = "take"
    BY <1>4, <2>1, PlaceOnly DEF Thread
  <2>3. r2 \in Thread /\ r2.at = "take"
    <3> HIDE DEF r1
    <3>1. r2 \in Thread
      BY <2>1, <2>2, Zenon DEF Thread
    <3> QED BY <2>2, <3>1 DEF Thread
  <2>4. r3 \in Thread /\ r3.at = "take"
    <3> HIDE DEF r1, r2
    <3>1. r3 \in Thread
      BY <2>3, Zenon DEF Thread
    <3> QED BY <2>3, <3>1 DEF Thread
  <2>5. th'[c] = r3
    BY <1>5, <2>2
  <2> QED BY <2>4, <2>5
<1>7. th' \in [Consumers -> Thread] /\ \A o \in Outputs : th'[o] = th[o]
  <2>1. \A u \in Consumers : th'[u] \in Thread
    BY <1>5, <1>6 DEF TypesOK
  <2>2. th' \in [Consumers -> Thread]
    BY <1>1, <2>1 DEF TypesOK
  <2> QED BY <1>4, <1>5, <2>2 DEF Consumers
<1>8. TypesOK'
  BY <1>2, <1>7 DEF TypesOK
<1>9. RestOK'
  BY <1>2, <1>7, StaysAtRest
<1>10. ThreadsOK'
  <2>1. \A u \in Consumers : th'[u].at = "reclaim" => Cancelled(u)'
    BY <1>2, <1>5, <1>6 DEF ThreadsOK, Cancelled
  <2> QED BY <1>2, <1>7, <2>1 DEF ThreadsOK, InRan, OutRan
<1>11. HandlerOK' /\ EndOK'
  BY <1>2 DEF HandlerOK, EndOK, Reached, SamePlugin
<1> QED BY <1>3, <1>8, <1>9, <1>10, <1>11

\* What the steps of a camera thread have in common.
LEMMA CamStep ==
    ASSUME LifeInv, NEW i \in Inputs, CamNext(i)
    PROVE  \E from \in {"test", "grab", "lock", "hold", "clean"}, to \in CamSteps :
             /\ CamGoto(i, from, to)
             /\ from = "lock" => Enterable(i)
             /\ \/ holder' = holder
                \/ Enterable(i) /\ holder' = Entered(i, Cam)
                \/ holder' = Left(i, Cam)
<1>1. CASE CamTest(i)
  <2>1. CamGoto(i, "test", "clean") \/ CamGoto(i, "test", "grab")
    BY <1>1 DEF CamTest
  <2> QED BY <1>1, <2>1 DEF CamTest, CamSteps
<1>2. CASE CamGrab(i) \/ CamLock(i) \/ CamPublish(i) \/ CamCleanup(i)
  BY <1>2 DEF CamGrab, CamLock, CamPublish, CamCleanup, CamSteps
<1> QED BY <1>1, <1>2 DEF CamNext

\* The threads a camera thread wakes were waiting.
LEMMA Wakes ==
    ASSUME LifeInv, NEW i \in Inputs, CamNext(i)
    PROVE  /\ th' \in [Consumers -> Thread]
           /\ \A t \in Consumers :
                /\ th'[t].lib = th[t].lib /\ th'[t].in = th[t].in
                /\ th'[t] # th[t] => th[t].at = "wait" /\ th'[t].at = "woken"
<1> USE DEF LifeInv
<1>1. CASE th' = th
  BY <1>1 DEF TypesOK
<1>2. CASE CamPublish(i)
  <2>1. th' = [t \in Consumers |-> IF th[t].at = "wait" /\ th[t].in = i
                                   THEN [th[t] EXCEPT !.at = "woken"] ELSE th[t]]
    BY <1>2 DEF CamPublish
  <2>2. "woken" \in ConsumerSteps
    BY DEF ConsumerSteps
  <2>3. \A t \in Consumers : /\ th'[t] \in Thread /\ th'[t].lib = th[t].lib
                             /\ th'[t].in = th[t].in
                             /\ th'[t] # th[t] => th[t].at = "wait" /\ th'[t].at = "woken"
    <3> TAKE t \in Consumers
    <3>1. th[t] \in Thread
      BY DEF TypesOK
    <3>2. [th[t] EXCEPT !.at = "woken"] \in Thread
      BY <2>2, <3>1, PlaceOnly
    <3>3. /\ [th[t] EXCEPT !.at = "woken"].lib = th[t].lib
          /\ [th[t] EXCEPT !.at = "woken"].in = th[t].in
          /\ [th[t] EXCEPT !.at = "woken"].at = "woken"
      BY <3>1 DEF Thread
    <3> QED BY <2>1, <3>1, <3>2, <3>3
  <2> QED BY <2>1, <2>3
<1> QED BY <1>1, <1>2 DEF CamNext, CamTest, CamGrab, CamLock, CamCleanup

LEMMA CamKeeps ==
    ASSUME LifeInv, NEW i \in Inputs, CamNext(i)
    PROVE  LifeInv'
<1> USE LifecycleAssumption DEF LifeInv
<1>1. PICK from \in {"test", "grab", "lock", "hold", "clean"}, to \in CamSteps :
        /\ CamGoto(i, from, to)
        /\ from = "lock" => Enterable(i)
        /\ \/ holder' = holder
           \/ Enterable(i) /\ holder' = Entered(i, Cam)
           \/ holder' = Left(i, Cam)
  BY CamStep
<1>2. /\ over = "no" /\ cam[i] = from /\ cam' = [cam EXCEPT ![i] = to]
      /\ UNCHANGED <<kind, started, stop, handler, destroyed, unloaded, slow, cancelled, over, culprit>>
  BY <1>1 DEF CamGoto, handlerVars
<1>3. StopOK'
  BY <1>2, Zenon DEF StopOK
<1>4. /\ cam' \in [Inputs -> CamSteps]
      /\ \A j \in Inputs : j # i => cam'[j] = cam[j]
  BY <1>2 DEF TypesOK
<1>5. ~CamAtRest(i)
  BY <1>1, <1>2, RestIsStill
<1>6. /\ holder' \in [Inputs -> Consumers \cup {Cam, NoThread}]
      /\ \A j \in Inputs : TakenAlong(j) => holder'[j] = holder[j]
  BY <1>1, Enters
<1>7. /\ th' \in [Consumers -> Thread]
      /\ \A t \in Consumers :
           /\ th'[t].lib = th[t].lib
           /\ th'[t] # th[t] => th[t].at = "wait" /\ th'[t].at = "woken"
  BY Wakes
<1>8. TypesOK'
  BY <1>2, <1>4, <1>6, <1>7 DEF TypesOK, Consumers
<1>9. RestOK'
  <2>1. \A k \in Outputs : AtRest(k) => th'[k] = th[k]
    BY <1>7 DEF AtRest, Consumers
  <2>2. \A j \in Inputs : CamAtRest(j) => cam'[j] = cam[j]
    BY <1>4, <1>5
  <2> QED BY <1>2, <1>6, <2>1, <2>2, StaysAtRest
<1>10. ThreadsOK'
  <2>1. \A k \in Outputs : ~OutRan(k)' => th'[k].at = "none"
    BY <1>2, <1>7 DEF ThreadsOK, OutRan, Consumers
  <2>2. \A j \in Inputs : ~InRan(j)' => cam'[j] = "none"
    BY <1>1, <1>2, <1>4 DEF ThreadsOK, InRan
  <2>3. \A k \in Outputs : th'[k].at = "clean" => handler'.at # "off"
    BY <1>2, <1>7 DEF ThreadsOK, Consumers
  <2>4. \A t \in Consumers : th'[t].at = "reclaim" => Cancelled(t)'
    BY <1>2, <1>7 DEF ThreadsOK, Cancelled
  <2> QED BY <2>1, <2>2, <2>3, <2>4 DEF ThreadsOK
<1>11. HandlerOK' /\ EndOK'
  BY <1>2 DEF HandlerOK, EndOK, Reached, SamePlugin
<1> QED BY <1>3, <1>8, <1>9, <1>10, <1>11

-----------------------------------------------------------------------------
(* signal_handler.                                                         *)

\* The handler goes on to a step at which its invariants hold again.
LEMMA GoonKeeps ==
    ASSUME LifeInv, NEW at \in HandlerSteps \ {"off"}, NEW n \in 0..(NIn + NOut + 1), Goon(at, n),
           UNCHANGED <<kind, started, cam, holder, th, culprit, over>>, over = "no",
           stop' = stop \/ stop' = TRUE, handler.at = "off" => stop' = TRUE,
           cancelled' \in [in : SUBSET Inputs, out : SUBSET Outputs],
           cancelled.out \subseteq cancelled'.out,
           slow' \in [in : SUBSET Inputs, out : SUBSET Outputs],
           destroyed' \subseteq Inputs, unloaded' \subseteq Outputs,
           HandlerOK', RestOK'
    PROVE  LifeInv'
<1>1. handler' = [at |-> at, n |-> n]
  BY DEF Goon
<1>2. StopOK'
  <2>1. handler'.at # "off"
    BY <1>1
  <2>2. CASE handler.at = "off"
    <3>1. stop' = TRUE
      BY <2>2
    <3> QED BY <2>1, <3>1, Zenon DEF StopOK
  <2>3. CASE handler.at # "off"
    <3>1. stop
      BY <2>3, Zenon DEF StopOK, LifeInv
    <3> QED BY <2>1, <3>1, Zenon DEF StopOK, LifeInv
  <2> QED BY <2>2, <2>3
<1>3. handler' \in [at : HandlerSteps, n : 0..(NIn + NOut + 1)]
  BY <1>1
<1>4. TypesOK'
  BY <1>3 DEF LifeInv, TypesOK
<1>5. ThreadsOK'
  BY <1>1 DEF LifeInv, ThreadsOK, OutRan, InRan, Cancelled
<1> QED BY <1>2, <1>4, <1>5 DEF LifeInv, EndOK

\* The steps before the libraries are closed.
LEMMA CancelKeeps ==
    LifeInv /\ (Signal \/ Sleep \/ StopIn \/ StopOut \/ DestroyCond \/ DestroyMutex) => LifeInv'
<1> SUFFICES ASSUME LifeInv, Signal \/ Sleep \/ StopIn \/ StopOut \/ DestroyCond \/ DestroyMutex
             PROVE  LifeInv'
  OBVIOUS
<1> USE LifecycleAssumption DEF Inputs, Outputs
<1>1. /\ over = "no" /\ UNCHANGED <<kind, started, cam, holder, th, culprit, over, unloaded, slow>>
      /\ stop' = stop \/ stop' = TRUE
      /\ handler.at = "off" => stop' = TRUE
  BY DEF Signal, Sleep, StopIn, StopOut, DestroyCond, DestroyMutex, HandlerStep, camVars
<1>2. unloaded = {} /\ unloaded \subseteq Outputs
  BY DEF Signal, Sleep, StopIn, StopOut, DestroyCond, DestroyMutex, HandlerStep, LifeInv, HandlerOK, TypesOK
<1>3. /\ handler.n \in 0..(NIn + NOut + 1) /\ destroyed \subseteq Inputs
      /\ cancelled \in [in : SUBSET Inputs, out : SUBSET Outputs]
      /\ slow' \in [in : SUBSET Inputs, out : SUBSET Outputs]
  BY <1>1 DEF LifeInv, TypesOK
<1>4. PICK at \in {"sleep", "stopIn", "stopOut", "cond", "mutex", "sleepAgain"}, n \in 0..(NIn + NOut + 1) :
        Goon(at, n)
  BY <1>3 DEF Signal, Sleep, StopIn, StopOut, DestroyCond, DestroyMutex, HandlerStep, LifeInv, HandlerOK
<1>5. handler' = [at |-> at, n |-> n]
  BY <1>4 DEF Goon
<1>6. RestOK'
  BY <1>5 DEF RestOK, Closing
<1>7. \A k \in Outputs : Handle(k) \subseteq SamePlugin(k) /\ SamePlugin(k) \subseteq Outputs
  BY DEF Handle, SamePlugin
<1>8. /\ destroyed' \subseteq Inputs /\ cancelled' \in [in : SUBSET Inputs, out : SUBSET Outputs]
      /\ cancelled.out \subseteq cancelled'.out
  BY <1>3, <1>7 DEF Signal, Sleep, StopIn, StopOut, DestroyCond, DestroyMutex
<1>9. \A k \in Outputs : Reached(k) => Reached(k)'
  BY <1>1, <1>8 DEF Reached, SamePlugin
<1>10. HandlerOK'
  <2>1. CASE Signal \/ Sleep
    BY <1>1, <1>2, <1>5, <2>1 DEF Signal, Sleep, Goon, HandlerStep, LifeInv, HandlerOK
  <2>2. CASE StopIn
    <3>1. CASE handler.n \in Inputs
      <4>1. /\ handler.at = "stopIn" /\ handler'.at = "stopIn" /\ handler'.n = handler.n + 1
            /\ cancelled' = [cancelled EXCEPT !.in = @ \cup {handler.n}]
        BY <2>2, <3>1 DEF StopIn, HandlerStep, Goon
      <4>2. cancelled'.in = cancelled.in \cup {handler.n} /\ cancelled'.out = {}
        BY <1>3, <4>1 DEF LifeInv, HandlerOK
      <4>3. \A i \in Inputs : i < handler.n => i \in cancelled.in
        BY <4>1 DEF LifeInv, HandlerOK
      <4> QED BY <1>1, <1>2, <1>3, <3>1, <4>1, <4>2, <4>3 DEF HandlerOK
    <3>2. CASE handler.n \notin Inputs
      <4>1. handler.at = "stopIn" /\ handler.n = NIn + 1
        BY <1>3, <2>2, <3>2 DEF StopIn, HandlerStep, LifeInv, HandlerOK
      <4>2. cancelled.in = Inputs
        <5>1. \A i \in Inputs : i \in cancelled.in
          BY <4>1 DEF LifeInv, HandlerOK
        <5>2. cancelled.in \subseteq Inputs
          BY <1>3
        <5> QED BY <5>1, <5>2
      <4>3. handler'.at = "stopOut" /\ handler'.n = 1 /\ cancelled' = cancelled
        BY <2>2, <3>2 DEF StopIn, Goon
      <4> QED BY <1>1, <1>2, <4>2, <4>3 DEF HandlerOK
    <3> QED BY <3>1, <3>2
  <2>3. CASE StopOut
    <3>0. handler.at = "stopOut" /\ cancelled.in = Inputs
      BY <2>3 DEF StopOut, HandlerStep, LifeInv, HandlerOK
    <3>1. CASE handler.n \in Outputs
      <4>1. /\ handler'.at = "cond" /\ handler'.n = handler.n
            /\ cancelled' = [cancelled EXCEPT !.out = @ \cup Handle(handler.n)]
            /\ Handle(handler.n) # {}
        BY <2>3, <3>1 DEF StopOut, HandlerStep, Goon
      <4>2. cancelled'.in = cancelled.in /\ Reached(handler.n)'
        BY <1>1, <1>3, <1>7, <3>1, <4>1 DEF Reached, SamePlugin
      <4>3. \A k \in Outputs : k < handler.n => Reached(k)
        BY <3>0 DEF LifeInv, HandlerOK
      <4>4. \A k \in Outputs : k <= handler.n => Reached(k)'
        <5> TAKE k \in Outputs
        <5>1. k <= handler.n => k < handler.n \/ k = handler.n
          BY <3>1
        <5> HIDE DEF Inputs, Outputs
        <5>2. CASE k < handler.n
          BY <1>9, <4>3, <5>2
        <5>3. CASE k = handler.n
          BY <4>1, <4>2, <5>3 DEF Reached, SamePlugin
        <5> QED BY <5>1, <5>2, <5>3
      <4> QED BY <1>1, <1>2, <3>0, <3>1, <4>1, <4>2, <4>4 DEF HandlerOK
    <3>2. CASE handler.n \notin Outputs
      <4>1. handler.n = NOut + 1
        BY <1>3, <3>0, <3>2 DEF LifeInv, HandlerOK
      <4>2. \A k \in Outputs : Reached(k)
        BY <3>0, <4>1 DEF LifeInv, HandlerOK
      <4>3. \A k \in Outputs : Reached(k)'
        BY <1>9, <4>2
      <4>4. handler'.at = "sleepAgain" /\ cancelled' = cancelled
        BY <2>3, <3>2 DEF StopOut, Goon
      <4> QED BY <1>1, <1>2, <3>0, <4>3, <4>4 DEF HandlerOK
    <3> QED BY <3>1, <3>2
  <2>4. CASE DestroyCond \/ DestroyMutex
    <3>1. /\ handler.at \in {"cond", "mutex"} /\ cancelled' = cancelled
          /\ \/ handler'.at = "mutex" /\ handler'.n = handler.n
             \/ handler'.at = "stopOut" /\ handler'.n = handler.n + 1
      BY <2>4 DEF DestroyCond, DestroyMutex, HandlerStep, Goon
    <3>2. /\ handler.n \in Outputs /\ cancelled.in = Inputs
          /\ \A k \in Outputs : k <= handler.n => Reached(k)
      BY <3>1 DEF LifeInv, HandlerOK
    <3>3. \A k \in Outputs : k <= handler.n => Reached(k)'
      BY <1>9, <3>2
    <3> QED BY <1>1, <1>2, <3>1, <3>2, <3>3 DEF HandlerOK
  <2> QED BY <2>1, <2>2, <2>3, <2>4
<1>11. at \in HandlerSteps \ {"off"}
  BY DEF HandlerSteps
<1>12. unloaded' \subseteq Outputs
  BY <1>1, <1>2
<1> HIDE DEF Inputs, Outputs
<1> QED BY <1>1, <1>3, <1>4, <1>6, <1>8, <1>10, <1>11, <1>12, GoonKeeps

\* A second later what was cancelled is at rest or too slow, and stays at rest while
\* the libraries go.
LEMMA CloseKeeps == LifeInv /\ (SleepAgain \/ CloseIn \/ CloseOut) => LifeInv'
<1> SUFFICES ASSUME LifeInv, SleepAgain \/ CloseIn \/ CloseOut PROVE LifeInv'
  OBVIOUS
<1> USE LifecycleAssumption
<1>1. /\ over = "no"
      /\ UNCHANGED <<kind, started, cam, holder, th, culprit, over, stop, cancelled, destroyed>>
      /\ handler.at \in {"sleepAgain", "closeIn", "closeOut"}
      /\ handler.n \in 0..(NIn + NOut + 1)
  BY DEF SleepAgain, CloseIn, CloseOut, HandlerStep, camVars, LifeInv, TypesOK
<1>2. cancelled.in = Inputs /\ \A k \in Outputs : Reached(k)
  BY <1>1 DEF LifeInv, HandlerOK
<1>3. slow' \in [in : SUBSET Inputs, out : SUBSET Outputs]
  <2>1. CASE SleepAgain
    <3>1. cancelled \in [in : SUBSET Inputs, out : SUBSET Outputs]
      BY DEF LifeInv, TypesOK
    <3>2. slow' = [in  |-> {i \in cancelled.in : ~CamAtRest(i)},
                   out |-> {k \in cancelled.out : ~AtRest(k)}]
      BY <2>1 DEF SleepAgain
    <3> QED BY <3>1, <3>2
  <2>2. CASE CloseIn \/ CloseOut
    BY <2>2 DEF CloseIn, CloseOut, LifeInv, TypesOK
  <2> QED BY <2>1, <2>2
<1>4. /\ \A k \in Outputs : k \in cancelled.out => AtRest(k) \/ k \in slow'.out
      /\ \A i \in Inputs : CamAtRest(i) \/ i \in slow'.in
  <2>1. CASE SleepAgain
    BY <1>2, <2>1 DEF SleepAgain
  <2>2. CASE CloseIn \/ CloseOut
    BY <2>2 DEF CloseIn, CloseOut, HandlerStep, LifeInv, RestOK, Closing
  <2> QED BY <2>1, <2>2
<1>5. RestOK'
  BY <1>1, <1>4 DEF RestOK, AtRest, CamAtRest, TakenAlong
<1>6. /\ unloaded' \subseteq Outputs
      /\ unloaded' # {} => handler.at = "closeOut"
      /\ \A k \in unloaded' : SamePlugin(k) = {k}
  <2>1. /\ unloaded \subseteq Outputs
        /\ unloaded # {} => handler.at = "closeOut"
        /\ \A k \in unloaded : SamePlugin(k) = {k}
    BY <1>1 DEF LifeInv, TypesOK, HandlerOK
  <2>2. CASE SleepAgain \/ CloseIn
    BY <2>1, <2>2 DEF SleepAgain, CloseIn
  <2>3. CASE CloseOut
    BY <2>1, <2>3 DEF CloseOut, HandlerStep
  <2> QED BY <2>2, <2>3
<1>7. PICK at \in {"closeIn", "closeOut", "exit"}, n \in 0..(NOut + 1) :
        /\ Goon(at, n)
        /\ at = "closeOut" => n \in 1..(NOut + 1)
        /\ handler.at = "closeOut" => at # "closeIn"
  BY <1>1 DEF SleepAgain, CloseIn, CloseOut, HandlerStep, Outputs
<1>8. handler' = [at |-> at, n |-> n]
  BY <1>7 DEF Goon
<1>9. HandlerOK'
  BY <1>1, <1>2, <1>6, <1>7, <1>8 DEF HandlerOK, Reached, SamePlugin
<1>10. at \in HandlerSteps \ {"off"} /\ n \in 0..(NIn + NOut + 1)
  BY DEF HandlerSteps
<1>11. /\ cancelled' \in [in : SUBSET Inputs, out : SUBSET Outputs] /\ destroyed' \subseteq Inputs
       /\ cancelled.out \subseteq cancelled'.out
       /\ stop' = stop \/ stop' = TRUE
       /\ handler.at # "off"
  BY <1>1 DEF LifeInv, TypesOK
<1> QED BY <1>1, <1>3, <1>5, <1>6, <1>7, <1>9, <1>10, <1>11, GoonKeeps

-----------------------------------------------------------------------------

LEMMA LifeStep == LifeInv /\ [Next]_vars => LifeInv'
<1> SUFFICES ASSUME LifeInv, [Next]_vars PROVE LifeInv'
  OBVIOUS
<1>1. CASE MainStep \/ MainFails
  BY <1>1, MainKeeps, FailKeeps
<1>2. CASE Signal \/ HandlerNext
  BY <1>2, CancelKeeps, CloseKeeps, EarlyKeeps, FailKeeps DEF HandlerNext
<1>3. CASE \E i \in Inputs : CamNext(i) \/ FreedInCopy(i) \/ CamUnmapped(i)
  BY <1>3, CamKeeps, BufferKeeps, CamUnmappedKeeps
<1>4. CASE \E k \in Outputs, c \in Clients : Accept(k, c) \/ Command(c, k)
  BY <1>4, AcceptKeeps, CommandKeeps
<1>5. CASE \E t \in Consumers : ThreadNext(t) \/ Unmapped(t) \/ FreedFrame(t)
  BY <1>5, ThreadKeeps, UnmappedKeeps, FreedKeeps
<1>6. CASE UNCHANGED vars
  <2>1. UNCHANGED <<kind, started, stop, handler, destroyed, unloaded, slow, cam, holder, th, cancelled,
                    over, culprit>>
    BY <1>6 DEF vars, handlerVars, camVars
  <2>2. StopOK'
    BY <2>1, Zenon DEF LifeInv, StopOK
  <2>3. TypesOK' /\ ThreadsOK'
    BY <2>1 DEF LifeInv, TypesOK, ThreadsOK, OutRan, InRan, Cancelled
  <2>4. HandlerOK' /\ RestOK' /\ EndOK'
    BY <2>1 DEF LifeInv, HandlerOK, RestOK, Closing, AtRest, CamAtRest, TakenAlong, EndOK, Reached,
                SamePlugin
  <2> QED BY <2>2, <2>3, <2>4 DEF LifeInv
<1> QED BY <1>1, <1>2, <1>3, <1>4, <1>5, <1>6 DEF Next

LEMMA LifeAlways == Spec => []LifeInv
  BY LifeInit, LifeStep, PTL DEF Spec

\* Whatever the inputs and outputs are and whenever CTRL+C comes, what the program
\* can die of while it ends is a signal that came too early, a picture's buffer or
\* a frame that a cleanup handler freed, and a library unloaded under a client or
\* under a cancelled thread that the second sleep was too short for. A worker that
\* nothing cancelled (its plugin lost its handle) keeps its library.
THEOREM ShutdownIsSafe == Spec => []DiesOnlyOf
<1>1. LifeInv => DiesOnlyOf
  <2> SUFFICES ASSUME LifeInv PROVE DiesOnlyOf
    OBVIOUS
  <2>1. TypeOK
    BY Zenon DEF LifeInv, TypesOK, StopOK, Thread, TypeOK
  <2>2. handler.at # "off" => stop
    BY Zenon DEF LifeInv, StopOK
  <2> QED BY <2>1, <2>2 DEF DiesOnlyOf, LifeInv, EndOK
<1> QED BY <1>1, LifeAlways, PTL

-----------------------------------------------------------------------------
(* Who is at the picture.                                                  *)

\* OneAtThePicture, of one input and one consumer.
Accounted(i, t) ==
    /\ th[t].at = "hold" /\ th[t].in = i => holder[i] = t
    /\ holder[i] = t => \/ th[t].at = "hold" /\ th[t].in = i
                        \/ th[t].at = "clean" /\ Cancelled(t)

LEMMA InParts ==
    OneAtThePicture <=>
        \A i \in Inputs \ destroyed :
            /\ cam[i] = "hold" <=> holder[i] = Cam
            /\ \A t \in Consumers : Accounted(i, t)
  BY Zenon DEF OneAtThePicture, Accounted

LEMMA PictureInit == Init => OneAtThePicture
<1> SUFFICES ASSUME Init PROVE OneAtThePicture
  OBVIOUS
<1>1. \A t \in Consumers : th[t].at = "none"
  BY DEF Init, Absent
<1> QED BY <1>1, InParts, LifecycleAssumption DEF Init, Accounted

LEMMA HandlerPicture ==
    ASSUME OneAtThePicture, UNCHANGED <<cam, holder, th>>,
           destroyed \subseteq destroyed', cancelled.out \subseteq cancelled'.out
    PROVE  OneAtThePicture'
<1>1. \A i \in Inputs, t \in Consumers : Accounted(i, t) => Accounted(i, t)'
  BY DEF Accounted, Cancelled
<1> QED BY <1>1 DEF OneAtThePicture, Accounted, Cancelled

LEMMA MainPicture ==
    ASSUME LifeInv, OneAtThePicture, MainStep
    PROVE  OneAtThePicture'
<1> USE LifecycleAssumption DEF LifeInv
<1> DEFINE in  == started + 1 - (NIn + NOut)
           out == started + 1 - (2 * NIn + NOut)
<1>1. /\ cam' = IF in \in Inputs THEN [cam EXCEPT ![in] = "test"] ELSE cam
      /\ UNCHANGED <<destroyed, holder, cancelled>>
  BY DEF MainStep, handlerVars
<1>2. started \in Nat
  BY DEF TypesOK, AllStarted
<1>3. in \in Inputs => cam[in] = "none"
  BY <1>2 DEF ThreadsOK, InRan, Inputs
<1>4. out \in Outputs => th[out].at = "none"
  BY <1>2 DEF ThreadsOK, OutRan, Outputs
<1>5. /\ \A t \in Consumers : t # out => th'[t] = th[t]
      /\ out \in Outputs => th'[out].at \in {"accept", "test"}
  <2>1. CASE out \in Outputs
    <3>1. PICK i \in Inputs, at \in {"accept", "test"} :
            th' = [th EXCEPT ![out].at = at, ![out].in = i]
      BY <2>1 DEF MainStep
    <3>2. out \in Consumers /\ th[out] \in Thread
      BY <2>1 DEF Consumers, TypesOK
    <3>3. /\ th'[out] = [[th[out] EXCEPT !.at = at] EXCEPT !.in = i]
          /\ \A t \in Consumers : t # out => th'[t] = th[t]
      BY <3>1, <3>2 DEF TypesOK
    <3>4. th'[out].at = at
      BY <3>2, <3>3 DEF Thread
    <3> QED BY <3>3, <3>4
  <2>2. CASE out \notin Outputs
    BY <2>2 DEF MainStep, TypesOK
  <2> QED BY <2>1, <2>2
<1>6. \A i \in Inputs : cam'[i] = "hold" <=> cam[i] = "hold"
  BY <1>1, <1>3 DEF TypesOK
<1>7. \A i \in Inputs, t \in Consumers : Accounted(i, t) => Accounted(i, t)'
  <2> SUFFICES ASSUME NEW i \in Inputs, NEW t \in Consumers, Accounted(i, t)
               PROVE  Accounted(i, t)'
    OBVIOUS
  <2>1. CASE t # out
    BY <1>1, <1>5, <2>1 DEF Accounted, Cancelled
  <2>2. CASE t = out /\ out \in Outputs
    BY <1>1, <1>4, <1>5, <2>2 DEF Accounted
  <2>3. CASE t = out /\ out \notin Outputs
    BY <2>3, <1>1 DEF MainStep, Accounted, Cancelled
  <2> QED BY <2>1, <2>2, <2>3
<1> QED BY <1>1, <1>6, <1>7, InParts DEF OneAtThePicture, Accounted, Cancelled

LEMMA CamPicture ==
    ASSUME LifeInv, OneAtThePicture, NEW j \in Inputs, CamNext(j)
    PROVE  OneAtThePicture'
<1> USE LifecycleAssumption DEF LifeInv
<1>1. UNCHANGED <<destroyed, cancelled>>
  BY DEF CamNext, CamTest, CamGrab, CamLock, CamPublish, CamCleanup, CamGoto, handlerVars
<1>2. /\ \A t \in Consumers :
           /\ th'[t].in = th[t].in
           /\ th'[t].at = "hold" <=> th[t].at = "hold"
           /\ th'[t].at = "clean" <=> th[t].at = "clean"
  BY Wakes
<1>3. SUFFICES ASSUME NEW i \in Inputs, i \notin destroyed
               PROVE  /\ cam'[i] = "hold" <=> holder'[i] = Cam
                      /\ \A t \in Consumers : Accounted(i, t)'
  BY <1>1 DEF OneAtThePicture, Accounted, Cancelled
<1>4. /\ cam[i] = "hold" <=> holder[i] = Cam
      /\ \A t \in Consumers : Accounted(i, t)
  BY <1>3, InParts
<1>5. \A t \in Consumers : t # Cam /\ t # NoThread
  OBVIOUS
<1>6. CASE CamTest(j) \/ CamGrab(j) \/ CamCleanup(j)
  <2>1. holder' = holder
    BY <1>6 DEF CamTest, CamGrab, CamCleanup
  <2>2. cam'[i] = "hold" <=> cam[i] = "hold"
    BY <1>6 DEF CamTest, CamGrab, CamCleanup, CamGoto, TypesOK
  <2> QED BY <1>1, <1>2, <1>4, <2>1, <2>2 DEF Accounted, Cancelled
<1>7. CASE CamLock(j)
  <2>1. /\ Enterable(j) /\ holder' = Entered(j, Cam) /\ cam[j] = "lock"
        /\ cam' = [cam EXCEPT ![j] = "hold"]
    BY <1>7 DEF CamLock, CamGoto
  <2>2. CASE i # j
    <3>1. holder'[i] = holder[i] /\ cam'[i] = cam[i]
      BY <2>1, <2>2 DEF Entered, TypesOK
    <3> QED BY <1>1, <1>2, <1>4, <3>1 DEF Accounted, Cancelled
  <2>3. CASE i = j
    <3>1. holder[i] = NoThread /\ holder'[i] = Cam /\ cam'[i] = "hold"
      BY <1>3, <2>1, <2>3 DEF Enterable, Entered, TypesOK
    <3> QED BY <1>2, <1>4, <1>5, <3>1 DEF Accounted
  <2> QED BY <2>2, <2>3
<1>8. CASE CamPublish(j)
  <2>1. /\ holder' = Left(j, Cam) /\ cam[j] = "hold" /\ cam' = [cam EXCEPT ![j] = "test"]
    BY <1>8 DEF CamPublish, CamGoto
  <2>2. CASE i # j
    <3>1. holder'[i] = holder[i] /\ cam'[i] = cam[i]
      BY <2>1, <2>2 DEF Left, TypesOK
    <3> QED BY <1>1, <1>2, <1>4, <3>1 DEF Accounted, Cancelled
  <2>3. CASE i = j
    <3>1. holder[i] = Cam
      BY <1>4, <2>1, <2>3
    <3>2. holder'[i] = NoThread /\ cam'[i] = "test"
      BY <2>1, <2>3, <3>1 DEF Left, TypesOK
    <3> QED BY <1>2, <1>4, <1>5, <3>1, <3>2 DEF Accounted
  <2> QED BY <2>2, <2>3
<1> QED BY <1>6, <1>7, <1>8 DEF CamNext

\* A thread that is not at the picture turns to something else.
LEMMA ElsewherePicture ==
    ASSUME LifeInv, OneAtThePicture, UNCHANGED <<cam, holder, destroyed, cancelled>>,
           \A u \in Consumers : \/ th'[u] = th[u]
                                \/ /\ th[u].at \notin {"hold", "clean"}
                                   /\ th'[u].at # "hold" \/ th'[u].in \in destroyed
    PROVE  OneAtThePicture'
<1>1. SUFFICES ASSUME NEW i \in Inputs, i \notin destroyed
               PROVE  /\ cam'[i] = "hold" <=> holder'[i] = Cam
                      /\ \A u \in Consumers : Accounted(i, u)'
  BY DEF OneAtThePicture, Accounted, Cancelled
<1>2. /\ cam[i] = "hold" <=> holder[i] = Cam
      /\ \A u \in Consumers : Accounted(i, u)
  BY <1>1, InParts
<1>3. \A u \in Consumers : Accounted(i, u)'
  <2> TAKE u \in Consumers
  <2>1. CASE th'[u] = th[u]
    BY <1>2, <2>1 DEF Accounted, Cancelled
  <2>2. CASE /\ th[u].at \notin {"hold", "clean"}
             /\ th'[u].at # "hold" \/ th'[u].in \in destroyed
    BY <1>1, <1>2, <2>2 DEF Accounted
  <2> QED BY <2>1, <2>2
<1> QED BY <1>2, <1>3

LEMMA ThreadPicture ==
    ASSUME LifeInv, OneAtThePicture, NEW t \in Consumers, ThreadNext(t)
    PROVE  OneAtThePicture'
<1> USE LifecycleAssumption DEF LifeInv
<1>1. PICK from \in ConsumerSteps \ {"none", "clean", "ended"}, to \in ConsumerSteps :
        Goto(t, from, to)
  BY ThreadStep
<1>2. /\ th[t].at = from /\ th' = [th EXCEPT ![t].at = to]
      /\ UNCHANGED <<destroyed, cam, cancelled>>
  BY <1>1 DEF Goto, handlerVars
<1>3. th[t] \in Thread /\ th[t].in \in Inputs
  BY DEF TypesOK, Thread
<1>4. /\ th'[t].at = to /\ th'[t].in = th[t].in
      /\ \A u \in Consumers : u # t => th'[u] = th[u]
  BY <1>2, <1>3 DEF TypesOK, Thread
<1>5. t # Cam /\ t # NoThread
  OBVIOUS
<1>6. CASE LoopTest(t) \/ Lock(t) \/ Write(t) \/ CancelWait(t) \/ CancelElsewhere(t)
  <2>1. /\ holder' = holder
        /\ th[t].at \notin {"hold", "clean"}
        /\ th'[t].at = "hold" => th[t].in \in destroyed
    BY <1>4, <1>6 DEF LoopTest, Lock, Write, CancelWait, CancelElsewhere, Goto, Done, TypesOK, Thread
  <2>2. \A u \in Consumers : \/ th'[u] = th[u]
                             \/ /\ th[u].at \notin {"hold", "clean"}
                                /\ th'[u].at # "hold" \/ th'[u].in \in destroyed
    BY <1>4, <2>1
  <2> QED BY <1>2, <2>1, <2>2, ElsewherePicture
<1>7. CASE Take(t) \/ Wake(t) \/ Reclaim(t) \/ Unlock(t)
  <2>1. SUFFICES ASSUME NEW i \in Inputs, i \notin destroyed
                 PROVE  /\ cam'[i] = "hold" <=> holder'[i] = Cam
                        /\ \A u \in Consumers : Accounted(i, u)'
    BY <1>2 DEF OneAtThePicture, Accounted, Cancelled
  <2>2. /\ cam[i] = "hold" <=> holder[i] = Cam
        /\ \A u \in Consumers : Accounted(i, u)
    BY <2>1, InParts
  <2>3. CASE i # th[t].in
    <3>1. holder'[i] = holder[i]
      BY <1>3, <1>7, <2>3 DEF Take, Wake, Reclaim, Unlock, Entered, Left, TypesOK
    <3>2. th[t].at # "clean" /\ Accounted(i, t)
      BY <1>2, <2>2
    <3>3. holder[i] # t
      BY <2>3, <3>2 DEF Accounted
    <3>4. Accounted(i, t)'
      BY <1>4, <2>3, <3>1, <3>3 DEF Accounted
    <3>5. \A u \in Consumers : u # t => Accounted(i, u)'
      BY <1>2, <1>4, <2>2, <3>1 DEF Accounted, Cancelled
    <3> QED BY <1>2, <2>2, <3>1, <3>4, <3>5
  <2>4. CASE i = th[t].in /\ Unlock(t)
    <3>1. holder[i] = t
      BY <2>2, <2>4 DEF Unlock, Goto, Accounted
    <3>2. holder'[i] = NoThread /\ th'[t].at = "write"
      BY <1>3, <1>4, <2>4, <3>1 DEF Unlock, Goto, Left, TypesOK, Thread
    <3>3. \A u \in Consumers : u # NoThread
      OBVIOUS
    <3>4. Accounted(i, t)'
      BY <3>2, <3>3 DEF Accounted
    <3>5. \A u \in Consumers : u # t => Accounted(i, u)'
      BY <1>4, <2>2, <3>1, <3>2, <3>3 DEF Accounted
    <3> QED BY <1>2, <1>5, <2>2, <3>1, <3>2, <3>4, <3>5
  <2>5. CASE i = th[t].in /\ (Take(t) \/ Wake(t) \/ Reclaim(t))
    <3>1. holder[i] = NoThread /\ holder'[i] = t
      BY <1>3, <2>1, <2>5 DEF Take, Wake, Reclaim, Enterable, Entered, TypesOK
    <3>2. th'[t].at = "hold" \/ (th'[t].at = "clean" /\ Cancelled(t))
      <4>1. CASE Take(t) \/ Wake(t)
        BY <1>3, <1>4, <2>1, <2>5, <4>1 DEF Take, Wake, Goto, TypesOK, Thread
      <4>2. CASE Reclaim(t)
        BY <1>3, <1>4, <4>2 DEF Reclaim, Goto, TypesOK, Thread, ThreadsOK
      <4> QED BY <2>5, <4>1, <4>2
    <3>3. Accounted(i, t)'
      BY <1>2, <1>4, <2>5, <3>1, <3>2 DEF Accounted, Cancelled
    <3>4. \A u \in Consumers : u # NoThread
      OBVIOUS
    <3>5. \A u \in Consumers : u # t => Accounted(i, u)'
      BY <1>4, <2>2, <3>1, <3>4 DEF Accounted
    <3> QED BY <1>2, <1>5, <2>2, <3>1, <3>3, <3>5
  <2> QED BY <1>7, <2>3, <2>4, <2>5
<1> QED BY <1>6, <1>7 DEF ThreadNext

LEMMA ClientPicture ==
    ASSUME LifeInv, OneAtThePicture, NEW k \in Outputs, NEW c \in Clients,
           Accept(k, c) \/ Command(c, k)
    PROVE  OneAtThePicture'
<1> USE LifecycleAssumption DEF LifeInv
<1>1. k # c /\ k \in Consumers /\ c \in Consumers /\ th[k] \in Thread /\ th[c] \in Thread
  BY DEF Consumers, TypesOK
<1>2. UNCHANGED <<cam, holder, destroyed, cancelled>>
  BY DEF Accept, Command, handlerVars, camVars
<1>3. CASE Accept(k, c)
  <2>1. PICK i \in Inputs, snapshot \in BOOLEAN :
          th' = [th EXCEPT ![k].at = IF stop THEN "clean" ELSE "accept",
                           ![c] = [at |-> IF snapshot THEN "lock" ELSE "test",
                                   lib |-> {k}, in |-> i, once |-> snapshot]]
    BY <1>3, Zenon DEF Accept
  <2>2. /\ th'[k] = [th[k] EXCEPT !.at = IF stop THEN "clean" ELSE "accept"]
        /\ th'[c] = [at |-> IF snapshot THEN "lock" ELSE "test",
                     lib |-> {k}, in |-> i, once |-> snapshot]
        /\ \A u \in Consumers : u # k /\ u # c => th'[u] = th[u]
    BY <1>1, <2>1 DEF TypesOK
  <2>3. th'[k].at # "hold" /\ th'[c].at # "hold"
    BY <1>1, <2>2 DEF Thread
  <2>4. th[k].at = "accept" /\ th[c].at = "none"
    BY <1>3 DEF Accept
  <2> QED BY <1>2, <2>2, <2>3, <2>4, ElsewherePicture
<1>4. CASE Command(c, k)
  <2>1. PICK i \in Inputs :
          th' = [th EXCEPT ![c].at = "take", ![c].lib = @ \cup {k}, ![c].in = i]
    BY <1>4 DEF Command
  <2>2. /\ th'[c] = [[[th[c] EXCEPT !.at = "take"] EXCEPT !.lib = @ \cup {k}] EXCEPT !.in = i]
        /\ \A u \in Consumers : u # c => th'[u] = th[u]
    BY <1>1, <2>1 DEF TypesOK
  <2>3. th'[c].at # "hold" /\ th[c].at = "lock"
    BY <1>1, <1>4, <2>2 DEF Thread, Command
  <2> QED BY <1>2, <2>2, <2>3, ElsewherePicture
<1> QED BY <1>3, <1>4

LEMMA PictureStep == LifeInv /\ OneAtThePicture /\ [Next]_vars => OneAtThePicture'
<1> SUFFICES ASSUME LifeInv, OneAtThePicture, [Next]_vars PROVE OneAtThePicture'
  OBVIOUS
<1>1. CASE MainStep
  BY <1>1, MainPicture
<1>2. CASE MainFails \/ Signal \/ HandlerNext \/ UNCHANGED vars
  <2>1. UNCHANGED <<cam, holder, th>>
    BY <1>2 DEF MainFails, Signal, HandlerNext, HandlerStep, Sleep, StopIn, StopOut, StopTooEarly,
                Crash, DestroyCond, DestroyMutex, SleepAgain, CloseIn, CloseOut, Exit, vars, camVars
  <2>2. cancelled \in [in : SUBSET Inputs, out : SUBSET Outputs]
    BY DEF LifeInv, TypesOK
  <2>3. destroyed \subseteq destroyed' /\ cancelled.out \subseteq cancelled'.out
    BY <1>2, <2>2 DEF MainFails, Signal, HandlerNext, HandlerStep, Sleep, StopIn, StopOut,
                StopTooEarly, Crash, DestroyCond, DestroyMutex, SleepAgain, CloseIn, CloseOut, Exit,
                vars, handlerVars
  <2> QED BY <2>1, <2>3, HandlerPicture
<1>3. CASE \E of \in {"buffer", "input", "unmapped", "frame"}, who \in Consumers \cup {NoThread} :
             Crash(of, who)
  BY <1>3, HandlerPicture DEF Crash, handlerVars, camVars
<1>4. CASE \E i \in Inputs : CamNext(i)
  BY <1>4, CamPicture
<1>5. CASE \E k \in Outputs, c \in Clients : Accept(k, c) \/ Command(c, k)
  BY <1>5, ClientPicture
<1>6. CASE \E t \in Consumers : ThreadNext(t)
  BY <1>6, ThreadPicture
<1> QED BY <1>1, <1>2, <1>3, <1>4, <1>5, <1>6 DEF Next, FreedInCopy, CamUnmapped, Unmapped, FreedFrame

\* For any number of inputs, outputs and clients, and while the signal handler
\* cancels threads and destroys mutexes under them: as long as a mutex is there, its
\* owner in the code is its holder, and nobody else is at the picture.
THEOREM PictureIsGuarded == Spec => []OneAtThePicture
  BY LifeAlways, PictureInit, PictureStep, PTL DEF Spec


-----------------------------------------------------------------------------
(* CameraFeed.                                                             *)

\* The numbers of the pictures and the deaths; a streamer was started once for
\* each start of Node.
CountsOK ==
    /\ newest \in Pictures
    /\ deaths \in 0..MaxDeaths
    /\ starting \in Nat
    /\ starting <= deaths + (IF node THEN 1 ELSE 0)

FetchTyped ==
    fetch \in [Fetches -> [at : {"away", "sent", "waiting", "woken", "answered", "failed"},
                           asked : Pictures, picture : Pictures]]

\* A fetch that waits was sent at the newest picture or before; one that was woken
\* has a newer one to copy, whenever it gets to it.
FetchOK(f) ==
    /\ fetch[f].at \in {"sent", "waiting"} => fetch[f].asked <= newest
    /\ fetch[f].at = "woken" => Newer(newest, fetch[f].asked)
    /\ fetch[f].at = "answered" => Newer(fetch[f].picture, fetch[f].asked)

PagesOK ==
    /\ open \subseteq Pages
    /\ decoding \in [Pages -> SUBSET Emitted]
    /\ \A p \in Pages :
         /\ IsFiniteSet(decoding[p])
         /\ Cardinality(decoding[p]) <= MaxDecoding
         /\ \A e \in decoding[p] : Newer(e.picture, e.asked)

FlagsOK == node \in BOOLEAN /\ serving \in BOOLEAN /\ camera \in BOOLEAN

FeedInv == FlagsOK /\ CountsOK /\ FetchTyped /\ (\A f \in Fetches : FetchOK(f)) /\ PagesOK

LEMMA FeedInvInit == FeedInit => FeedInv
<1> SUFFICES ASSUME FeedInit PROVE FeedInv
  OBVIOUS
<1> USE CameraFeedAssumption
<1>1. FlagsOK /\ CountsOK
  <2>1. FlagsOK
    BY Zenon DEF FeedInit, FlagsOK
  <2>2. starting = 0 /\ deaths = 0 /\ newest = 0
    BY DEF FeedInit
  <2>3. 0 <= deaths + (IF node THEN 1 ELSE 0)
    BY <2>2
  <2> QED BY <2>1, <2>2, <2>3 DEF CountsOK, Pictures
<1>2. FetchTyped /\ \A f \in Fetches : FetchOK(f)
  BY DEF FeedInit, FetchTyped, FetchOK, Away, Pictures
<1>3. PagesOK
  BY FS_EmptySet DEF FeedInit, PagesOK
<1> QED BY <1>1, <1>2, <1>3 DEF FeedInv

\* What a page decodes next is one more, and as new as the rest.
LEMMA RoomForOne ==
    ASSUME NEW S, IsFiniteSet(S), Cardinality(S) < MaxDecoding, NEW e
    PROVE  IsFiniteSet(S \cup {e}) /\ Cardinality(S \cup {e}) <= MaxDecoding
<1>1. Cardinality(S) \in Nat
  BY FS_CardinalityType
<1>2. IsFiniteSet(S \cup {e}) /\ Cardinality(S \cup {e}) \in {Cardinality(S), Cardinality(S) + 1}
  BY FS_AddElement, <1>1
<1> QED BY <1>1, <1>2, CameraFeedAssumption

\* A picture that settles comes to every page that has room for it.
LEMMA SettleKeepsPages ==
    ASSUME FeedInv, NEW f \in Fetches, Settle(f)
    PROVE  PagesOK'
<1> USE DEF FeedInv, PagesOK
<1> DEFINE new == [asked |-> fetch[f].asked, picture |-> fetch[f].picture]
<1>1. new \in Emitted
  BY DEF FetchTyped, Emitted
<1>2. open' = open
  BY DEF Settle
<1>3. CASE fetch[f].at # "answered"
  <2>1. decoding' = decoding
    BY <1>3 DEF Settle
  <2> QED BY <1>2, <2>1
<1>4. CASE fetch[f].at = "answered"
  <2>1. Newer(new.picture, new.asked)
    BY <1>4 DEF FetchOK
  <2>2. decoding' = [p \in Pages |-> IF p \in open THEN decoding[p] \cup {new} ELSE decoding[p]]
    BY <1>4 DEF Settle
  <2>3. decoding' \in [Pages -> SUBSET Emitted]
    BY <1>1, <2>2
  <2>4. ASSUME NEW p \in Pages
        PROVE  /\ IsFiniteSet(decoding'[p])
               /\ Cardinality(decoding'[p]) <= MaxDecoding
               /\ \A e \in decoding'[p] : Newer(e.picture, e.asked)
    <3>1. CASE p \in open
      <4>1. Cardinality(decoding[p]) < MaxDecoding
        BY <1>4, <3>1 DEF Settle, Room
      <4>2. IsFiniteSet(decoding[p] \cup {new}) /\ Cardinality(decoding[p] \cup {new}) <= MaxDecoding
        BY <4>1, RoomForOne
      <4>3. decoding'[p] = decoding[p] \cup {new}
        BY <2>2, <3>1
      <4>4. \A e \in decoding[p] \cup {new} : Newer(e.picture, e.asked)
        BY <2>1
      <4> QED BY <4>2, <4>3, <4>4
    <3>2. CASE p \notin open
      BY <2>2, <3>2
    <3> QED BY <3>1, <3>2
  <2>5. \A e : Newer(e.picture, e.asked)' <=> Newer(e.picture, e.asked)
    BY DEF Newer
  <2> QED BY <1>2, <2>3, <2>4, <2>5 DEF Newer
<1> QED BY <1>3, <1>4

\* A page draws one of the pictures it has.
LEMMA DrawKeepsPages ==
    ASSUME FeedInv, NEW p \in Pages, Draw(p)
    PROVE  PagesOK'
<1> USE DEF FeedInv, PagesOK
<1>1. PICK e \in decoding[p] : decoding' = [decoding EXCEPT ![p] = @ \ {e}]
  BY DEF Draw
<1>2. open' = open
  BY DEF Draw
<1>3. decoding' \in [Pages -> SUBSET Emitted]
  BY <1>1
<1>4. IsFiniteSet(decoding[p] \ {e}) /\ Cardinality(decoding[p] \ {e}) <= Cardinality(decoding[p])
  BY FS_Subset
<1>5. Cardinality(decoding[p]) \in Nat /\ Cardinality(decoding[p] \ {e}) \in Nat
  BY <1>4, FS_CardinalityType
<1>6. Cardinality(decoding[p] \ {e}) <= MaxDecoding
  BY <1>4, <1>5, CameraFeedAssumption
<1>7. ASSUME NEW q \in Pages
      PROVE  /\ IsFiniteSet(decoding'[q])
             /\ Cardinality(decoding'[q]) <= MaxDecoding
             /\ \A x \in decoding'[q] : Newer(x.picture, x.asked)
  <2>1. CASE q = p
    <3>1. decoding'[q] = decoding[p] \ {e}
      BY <1>1, <2>1
    <3> QED BY <1>4, <1>6, <3>1
  <2>2. CASE q # p
    BY <1>1, <2>2
  <2> QED BY <2>1, <2>2
<1> QED BY <1>2, <1>3, <1>7 DEF Newer

\* Every step keeps the parts of the invariant.
LEMMA FlagsStep == FlagsOK /\ [FeedNext]_feedVars => FlagsOK'
<1> SUFFICES ASSUME FlagsOK, [FeedNext]_feedVars PROVE FlagsOK'
  OBVIOUS
<1> USE DEF FlagsOK
<1>1. CASE StreamerServes \/ StreamerExits \/ StreamerDies \/ CameraLost \/ Publish
  BY <1>1, Zenon DEF StreamerServes, StreamerExits, StreamerDies, CameraLost, Publish
<1>2. CASE StartNode \/ Tick \/ NodeDies \/ ServiceStops
  BY <1>2, Zenon DEF StartNode, Tick, NodeDies, ServiceStops
<1>3. ASSUME NEW f \in Fetches, Connect(f) \/ Answer(f) \/ Settle(f)
      PROVE  FlagsOK'
  BY <1>3, Zenon DEF Connect, Answer, Settle
<1>4. ASSUME NEW p \in Pages, OpenPage(p) \/ ClosePage(p) \/ Draw(p)
      PROVE  FlagsOK'
  BY <1>4, Zenon DEF OpenPage, ClosePage, Draw
<1>5. CASE UNCHANGED feedVars
  BY <1>5, Zenon DEF feedVars
<1> QED BY <1>1, <1>2, <1>3, <1>4, <1>5, Zenon DEF FeedNext

LEMMA FeedInvStep == FeedInv /\ [FeedNext]_feedVars => FeedInv'
<1> SUFFICES ASSUME FeedInv, [FeedNext]_feedVars PROVE FeedInv'
  OBVIOUS
<1> USE CameraFeedAssumption DEF FeedInv
<1>f. FlagsOK'
  BY FlagsStep
<1>a. newest \in 0..Last /\ Last \in Nat
  BY DEF CountsOK, Pictures
<1>1. CASE StreamerServes \/ StreamerExits
  <2>1. UNCHANGED <<node, newest, fetch, open, decoding, deaths>> /\ starting > 0 /\ starting' = starting - 1
    BY <1>1 DEF StreamerServes, StreamerExits
  <2>2. CountsOK'
    BY <2>1 DEF CountsOK
  <2> QED BY <1>f, <2>1, <2>2 DEF FetchTyped, FetchOK, PagesOK, Newer
<1>2. CASE StreamerDies
  <2>2. /\ UNCHANGED <<node, starting, newest, open, decoding>>
        /\ deaths < MaxDeaths /\ deaths' = deaths + 1 /\ fetch' = Broken
    BY <1>2 DEF StreamerDies
  <2>1. CountsOK' /\ PagesOK'
    BY <2>2 DEF CountsOK, PagesOK, Newer
  <2>3. FetchTyped'
    BY <2>2 DEF Broken, FetchTyped
  <2>4. \A f \in Fetches : FetchOK(f)'
    BY <2>2 DEF Broken, FetchTyped, FetchOK
  <2> QED BY <1>f, <2>1, <2>3, <2>4
<1>3. CASE CameraLost
  <2>1. /\ UNCHANGED <<node, starting, newest, fetch, open, decoding>>
        /\ deaths < MaxDeaths /\ deaths' = deaths + 1
    BY <1>3 DEF CameraLost
  <2>2. CountsOK'
    BY <2>1 DEF CountsOK
  <2> QED BY <1>f, <2>1, <2>2 DEF FetchTyped, FetchOK, PagesOK, Newer
<1>4. CASE Publish
  <2>1. CountsOK' /\ PagesOK'
    BY <1>4 DEF Publish, CountsOK, PagesOK, Pictures
  <2>2. newest' = IF newest < Last THEN newest + 1 ELSE Last
    BY <1>4 DEF Publish
  <2>3. fetch' = [f \in Fetches |->
                   IF fetch[f].at = "waiting" THEN [fetch[f] EXCEPT !.at = "woken"] ELSE fetch[f]]
    BY <1>4 DEF Publish
  <2>4. FetchTyped'
    BY <2>3 DEF FetchTyped
  <2>5. ASSUME NEW f \in Fetches PROVE FetchOK(f)'
    <3>1. fetch[f].asked \in 0..Last
      BY DEF FetchTyped, Pictures
    <3>2. fetch[f] \in [at : {"away", "sent", "waiting", "woken", "answered", "failed"},
                        asked : Pictures, picture : Pictures]
      BY DEF FetchTyped
    <3>3. CASE fetch[f].at = "waiting"
      <4>1. fetch'[f].at = "woken" /\ fetch'[f].asked = fetch[f].asked
        BY <2>3, <3>2, <3>3
      <4>2. fetch[f].asked <= newest
        BY <3>3 DEF FetchOK
      <4>3. newest' > fetch[f].asked \/ (newest' = Last /\ fetch[f].asked = Last)
        BY <1>a, <2>2, <3>1, <4>2
      <4> QED BY <4>1, <4>3 DEF FetchOK, Newer
    <3>4. CASE fetch[f].at # "waiting"
      <4>1. fetch'[f] = fetch[f]
        BY <2>3, <3>4
      <4> QED BY <1>a, <2>2, <3>1, <4>1 DEF FetchOK, Newer
    <3> QED BY <3>3, <3>4
  <2> QED BY <1>f, <2>1, <2>4, <2>5
<1>5. CASE StartNode
  BY <1>f, <1>5 DEF StartNode, CountsOK, FetchTyped, FetchOK, PagesOK, Newer
<1>6. CASE Tick
  <2>1. CountsOK' /\ PagesOK' /\ newest' = newest
    BY <1>6 DEF Tick, CountsOK, PagesOK
  <2>2. PICK f \in Fetches :
          fetch' = [fetch EXCEPT ![f] = [at |-> "sent", asked |-> newest, picture |-> 0]]
    BY <1>6 DEF Tick
  <2>3. FetchTyped'
    BY <1>a, <2>2 DEF FetchTyped, Pictures
  <2>4. \A g \in Fetches : FetchOK(g)'
    BY <1>a, <2>1, <2>2 DEF FetchTyped, FetchOK, Newer
  <2> QED BY <1>f, <2>1, <2>3, <2>4
<1>7. CASE NodeDies \/ ServiceStops
  <2>2. /\ node /\ ~node' /\ deaths < MaxDeaths /\ deaths' = deaths + 1
        /\ starting' \in {0, starting} /\ open' = {} /\ UNCHANGED <<newest, decoding>>
        /\ fetch' = [f \in Fetches |-> Away]
    BY <1>7 DEF NodeDies, ServiceStops
  <2>1. CountsOK' /\ PagesOK'
    BY <2>2 DEF CountsOK, PagesOK, Newer
  <2>3. FetchTyped' /\ \A f \in Fetches : FetchOK(f)'
    BY <1>a, <2>2 DEF FetchTyped, FetchOK, Away, Pictures
  <2> QED BY <1>f, <2>1, <2>3
<1>8. ASSUME NEW f \in Fetches, Connect(f) \/ Answer(f)
      PROVE  FeedInv'
  <2>1. CountsOK' /\ PagesOK' /\ newest' = newest
    BY <1>8 DEF Connect, Answer, CountsOK, PagesOK
  <2>2. \/ fetch' = [fetch EXCEPT ![f].at = "waiting"] /\ fetch[f].at = "sent"
        \/ fetch' = [fetch EXCEPT ![f].at = "failed"]
        \/ fetch' = [fetch EXCEPT ![f].at = "answered", ![f].picture = newest] /\ fetch[f].at = "woken"
    BY <1>8 DEF Connect, Answer
  <2>3. FetchTyped'
    BY <1>a, <2>2 DEF FetchTyped, Pictures
  <2>4. \A g \in Fetches : FetchOK(g)'
    BY <1>a, <2>1, <2>2 DEF FetchTyped, FetchOK, Newer
  <2> QED BY <1>f, <2>1, <2>3, <2>4
<1>9. ASSUME NEW f \in Fetches, Settle(f)
      PROVE  FeedInv'
  <2>1. CountsOK' /\ newest' = newest /\ fetch' = [fetch EXCEPT ![f] = Away]
    BY <1>9 DEF Settle, CountsOK
  <2>2. FetchTyped' /\ \A g \in Fetches : FetchOK(g)'
    BY <1>a, <2>1 DEF FetchTyped, FetchOK, Away, Newer, Pictures
  <2> QED BY <1>f, <1>9, <2>1, <2>2, SettleKeepsPages
<1>10. ASSUME NEW p \in Pages, OpenPage(p)
       PROVE  FeedInv'
  BY <1>f, <1>10 DEF OpenPage, CountsOK, FetchTyped, FetchOK, PagesOK, Newer
<1>11. ASSUME NEW p \in Pages, Draw(p)
       PROVE  FeedInv'
  <2>1. CountsOK' /\ FetchTyped' /\ \A f \in Fetches : FetchOK(f)'
    BY <1>11 DEF Draw, CountsOK, FetchTyped, FetchOK, Newer
  <2> QED BY <1>f, <1>11, <2>1, DrawKeepsPages
<1>13. ASSUME NEW p \in Pages, ClosePage(p)
       PROVE  FeedInv'
  <2>1. CountsOK' /\ FetchTyped' /\ \A f \in Fetches : FetchOK(f)'
    BY <1>13 DEF ClosePage, CountsOK, FetchTyped, FetchOK, Newer
  <2>2. PagesOK'
    <3>1. /\ open' = open \ {p} /\ newest' = newest
          /\ decoding' = [decoding EXCEPT ![p] = decoding[p]] \/ decoding' = [decoding EXCEPT ![p] = {}]
      BY <1>13 DEF ClosePage
    <3>2. IsFiniteSet({}) /\ Cardinality({}) = 0
      BY FS_EmptySet
    <3> QED BY <3>1, <3>2, CameraFeedAssumption DEF PagesOK, Newer
  <2> QED BY <1>f, <2>1, <2>2
<1>12. CASE UNCHANGED feedVars
  BY <1>f, <1>12 DEF feedVars, CountsOK, FetchTyped, FetchOK, PagesOK, Newer
<1> QED
  BY <1>1, <1>2, <1>3, <1>4, <1>5, <1>6, <1>7, <1>8, <1>9, <1>10, <1>11, <1>12, <1>13 DEF FeedNext

LEMMA FeedMeansNewer == FeedInv => DrawsOnlyNewer
<1> SUFFICES ASSUME FeedInv PROVE DrawsOnlyNewer
  OBVIOUS
<1>1. starting \in 0..(MaxDeaths + 1)
  <2>1. (IF node THEN 1 ELSE 0) \in 0..1
    OBVIOUS
  <2> QED BY <2>1, CameraFeedAssumption DEF FeedInv, CountsOK
<1>2. FeedTypeOK
  BY <1>1 DEF FeedInv, FlagsOK, CountsOK, FetchTyped, PagesOK, FeedTypeOK
<1> QED BY <1>2 DEF FeedInv, FetchOK, PagesOK, DrawsOnlyNewer

\* Whatever dies, however many fetches overtake each other: a page never draws a
\* picture that was there already when its fetch was sent.
THEOREM PagesDrawNewer == FeedSpec => []DrawsOnlyNewer
<1>1. FeedSpec => []FeedInv
  BY FeedInvInit, FeedInvStep, PTL DEF FeedSpec
<1> QED BY <1>1, FeedMeansNewer, PTL
====
