---- MODULE SharedPicture ----
(***************************************************************************)
(* What an input plugin and an output plugin share (struct _input in       *)
(* input.h): the picture in->buf with in->size, the mutex in->db and the   *)
(* condition variable in->db_update. Inputs and Outputs extend this        *)
(* module, Pipeline composes them.                                         *)
(***************************************************************************)
EXTENDS Integers

CONSTANTS
    Last,    \* bound: publications beyond this one look like it
    MaxSize  \* bound: pictures have a size of 1..MaxSize units

ASSUME SharedPictureAssumption ==
    /\ Last \in Nat \ {0}
    /\ MaxSize \in Nat \ {0}

Sizes == 1..MaxSize

VARIABLES
    stop,     \* pglobal->stop
    holder,   \* who holds in->db: the "input", the "worker", "nobody"
    waiting,  \* threads in pthread_cond_wait on db_update
    db,       \* which picture in->buf has, in->size, the memory of in->buf
    died      \* the first bad memory access; what follows it is not modelled

sharedVars == <<stop, holder, waiting, db, died>>

Memory == {"null", "live", "freed"}
Deaths == {"no", "picture", "list", "overrun", "stale", "ring", "null", "long"}

SharedTypeOK ==
    /\ stop \in BOOLEAN
    /\ holder \in {"nobody", "input", "worker"}
    /\ waiting \subseteq {"worker"}
    /\ db \in [n : 0..Last, size : 0..MaxSize, mem : Memory]
    /\ died \in Deaths

SharedInit ==
    /\ stop = FALSE
    /\ holder = "nobody"
    /\ waiting = {}
    /\ died = "no"

Alive      == died = "no"
Die(of)    == died' = of
Acquire(t) == holder = "nobody" /\ holder' = t
Release(t) == holder = t /\ holder' = "nobody"
NextPicture == IF db.n < Last THEN db.n + 1 ELSE Last

\* pthread_cond_broadcast; the waiting threads then compete for the mutex.
Broadcast == waiting' = {}
BeginToWait(t) == holder = "nobody" /\ waiting' = waiting \cup {t}
WakesUp(t) == t \notin waiting /\ Acquire(t)

\* SIGINT: signal_handler sets pglobal->stop, then cancels the threads.
Stop ==
    /\ Alive
    /\ ~stop
    /\ stop' = TRUE
    /\ UNCHANGED <<holder, waiting, db, died>>
====
