---- MODULE TurretController ----
(***************************************************************************)
(* The turret's three devices: the TurretController object of the Node     *)
(* process, the pipes to its subprocesses, and servo.py (twice) and        *)
(* laser.py at their other ends. The handlers of TurretServer set the      *)
(* targets, here to anything at any time; every 10 ms update writes what   *)
(* changed to the pipes; each subprocess reads its lines in order and      *)
(* drives its device. A servo's line is map(angle, 0, 180, -1, 1), here    *)
(* multiplied by Span.                                                     *)
(***************************************************************************)
EXTENDS TurretConfig

CONSTANT MaxPipe    \* bound: lines in a pipe

ASSUME PipeAssumption == MaxPipe \in Nat \ {0}

Servos  == {"azimuth", "elevation"}
Devices == Servos \cup {"laser"}

VARIABLES
    nodeUp,   \* the Node process lives
    current,  \* currentAzimuth, currentElevation, currentLaserState
    pipe,     \* lines written to each subprocess and not read yet
    proc,     \* each subprocess: "up"; "dead", unknown to Node; "gone"
    device    \* what each device does: a servo's pulse, the laser's level

controllerVars == <<nodeUp, target, current, pipe, proc, device>>

Unset   == [az |-> -1, el |-> -1, laser |-> "unset"]

\* What a device does once gpiozero's clean-up at exit has released it: a servo
\* gets no pulse, the laser is off.
Limp        == Span + 1
Released(d) == IF d \in Servos THEN Limp ELSE 0

ControllerTypeOK ==
    /\ nodeUp \in BOOLEAN
    /\ target \in Setting
    /\ current \in Setting \cup {Unset}
    /\ \A d \in Devices : pipe[d] \in Seq((-Span)..Span) /\ Len(pipe[d]) <= MaxPipe
    /\ proc \in [Devices -> {"up", "dead", "gone"}]
    /\ device \in [Devices -> (-Span)..Limp]

\* new TurretController: the processes are spawned; gpiozero centres a servo
\* and switches the laser off.
ControllerInit ==
    /\ nodeUp = TRUE
    /\ target = Default
    /\ current = Unset
    /\ pipe = [d \in Devices |-> <<>>]
    /\ proc = [d \in Devices |-> "up"]
    /\ device = [d \in Devices |-> 0]

\* mutant: map(angle, 0, 90, -1, 1)
LineHalfRange(s, d) == CASE d = "azimuth"   -> 4 * s.az - Span
                         [] d = "elevation" -> 4 * s.el - Span
                         [] d = "laser"     -> IF s.laser = "on" THEN 1 ELSE 0

\* The line that tells device d about setting s: map(...) or Number(state).
Line(s, d) == CASE d = "azimuth"   -> 2 * s.az - Span
                [] d = "elevation" -> 2 * s.el - Span
                [] d = "laser"     -> IF s.laser = "on" THEN 1 ELSE 0

\* update: both servos are written when either angle changed.
Changed(d) == IF d \in Servos
              THEN current.az # target.az \/ current.el # target.el
              ELSE current.laser # target.laser

\* mutant: && between the two angle comparisons
UpdateBothMoved ==
    /\ nodeUp
    /\ LET changed(d) == IF d \in Servos
                         THEN current.az # target.az /\ current.el # target.el
                         ELSE current.laser # target.laser
       IN  /\ \E d \in Devices : changed(d)
           /\ \A d \in Devices : changed(d) => Len(pipe[d]) < MaxPipe
           /\ pipe' = [d \in Devices |-> IF changed(d) /\ proc[d] = "up"
                                         THEN Append(pipe[d], Line(target, d)) ELSE pipe[d]]
           /\ current' = [az |-> IF changed("azimuth") THEN target.az ELSE current.az,
                          el |-> IF changed("azimuth") THEN target.el ELSE current.el,
                          laser |-> target.laser]
    /\ UNCHANGED <<nodeUp, target, proc, device>>

\* mutant: setServos forgets the elevation's stdin.write
UpdateAzimuthOnly ==
    /\ nodeUp
    /\ \E d \in Devices : Changed(d)
    /\ \A d \in Devices : Changed(d) => Len(pipe[d]) < MaxPipe
    /\ current' = target
    /\ pipe' = [d \in Devices |-> IF Changed(d) /\ proc[d] = "up" /\ d # "elevation"
                                  THEN Append(pipe[d], Line(target, d)) ELSE pipe[d]]
    /\ UNCHANGED <<nodeUp, target, proc, device>>

\* The 10 ms timer. A write to a process that died is an 'error' event nobody
\* listens to, which ends Node; one that Node has seen exit swallows it.
Update ==
    /\ nodeUp
    /\ \E d \in Devices : Changed(d)
    /\ \A d \in Devices : Changed(d) => Len(pipe[d]) < MaxPipe
    /\ current' = target
    /\ pipe' = [d \in Devices |-> IF Changed(d) /\ proc[d] = "up"
                                  THEN Append(pipe[d], Line(target, d)) ELSE pipe[d]]
    /\ nodeUp' = ~ \E d \in Devices : Changed(d) /\ proc[d] = "dead"
    /\ UNCHANGED <<target, proc, device>>

\* One turn of the loop in servo.py or laser.py. gpiozero refuses a servo value
\* outside -1..1; the exception is printed and the device stays as it is.
Read(d) ==
    /\ proc[d] = "up"
    /\ pipe[d] # <<>>
    /\ device' = [device EXCEPT ![d] =
                    IF Head(pipe[d]) \in (-Span)..Span THEN Head(pipe[d]) ELSE @]
    /\ pipe' = [pipe EXCEPT ![d] = Tail(@)]
    /\ UNCHANGED <<nodeUp, target, current, proc>>

\* A subprocess ends: by an exception or an interrupt, after which gpiozero
\* releases the device, or by a signal that runs no clean-up: the laser's pin
\* keeps its level and pigpiod keeps the servo's pulses.
ProcDies(d) ==
    /\ proc[d] = "up"
    /\ proc' = [proc EXCEPT ![d] = "dead"]
    /\ pipe' = [pipe EXCEPT ![d] = <<>>]
    /\ \E left \in {Released(d), device[d]} : device' = [device EXCEPT ![d] = left]
    /\ UNCHANGED <<nodeUp, target, current>>

\* Node's 'exit' event: onExit logs it, and nothing starts the process again.
Exited(d) ==
    /\ nodeUp
    /\ proc[d] = "dead"
    /\ proc' = [proc EXCEPT ![d] = "gone"]
    /\ UNCHANGED <<nodeUp, target, current, pipe, device>>

\* Without Node, input() raises EOFError at every turn until the messages about
\* it fill the broken stdout pipe; that exception is not caught.
ProcEnds(d) ==
    /\ ~nodeUp
    /\ proc[d] = "up"
    /\ pipe[d] = <<>>
    /\ proc' = [proc EXCEPT ![d] = "gone"]
    /\ device' = [device EXCEPT ![d] = Released(d)]
    /\ UNCHANGED <<nodeUp, target, current, pipe>>

\* A handler of the server sets new targets (turret.targetAzimuth = ...).
Command ==
    /\ nodeUp
    /\ target' \in Setting \ {target}
    /\ UNCHANGED <<nodeUp, current, pipe, proc, device>>

\* The Node process is killed.
NodeExit ==
    /\ nodeUp
    /\ nodeUp' = FALSE
    /\ UNCHANGED <<target, current, pipe, proc, device>>

ControllerNext ==
    \/ Update \/ Command \/ NodeExit
    \/ \E d \in Devices : Read(d) \/ ProcDies(d) \/ Exited(d) \/ ProcEnds(d)

ControllerSpec == ControllerInit /\ [][ControllerNext]_controllerVars

\* The timer fires and the subprocesses run; nobody must command or fail.
FairControllerSpec ==
    /\ ControllerSpec
    /\ WF_controllerVars(Update)
    /\ \A d \in Devices : WF_controllerVars(Read(d)) /\ WF_controllerVars(ProcEnds(d))

-----------------------------------------------------------------------------

\* The last line on its way to a live device, or the device itself, is what
\* current says: a change that update has seen is neither lost nor overtaken
\* (setServos and setLaserState against the loops of servo.py and laser.py).
NothingLost ==
    current # Unset =>
        \A d \in Devices : proc[d] = "up" =>
            LET lines == <<device[d]>> \o pipe[d]
            IN  lines[Len(lines)] = Line(current, d)

\* While Node and a subprocess live, a target that stays is what its device
\* does in the end. A subprocess that outlives Node does what is left in its
\* pipe, ends and releases its device; only one that is killed itself leaves
\* the device as it was (TurretController.update, servo.py and laser.py).
Follows ==
    \A d \in Devices :
        /\ <>[](nodeUp /\ proc[d] = "up") /\ <>[][target' = target]_target
               => <>[](device[d] = Line(target, d))
        /\ (~nodeUp /\ proc[d] = "up")
               ~> (proc[d] = "dead" \/ (proc[d] = "gone" /\ device[d] = Released(d)))
====
