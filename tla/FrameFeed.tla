---- MODULE FrameFeed ----
(***************************************************************************)
(* What the picture buffer promises to those who read it: a reader that    *)
(* asks is handed one whole picture, the latest, and it was published      *)
(* after the reader asked. Nothing is promised once the source is closed.  *)
(***************************************************************************)
EXTENDS Integers

CONSTANTS Readers, Last   \* pictures are numbered; Last stands for all from it on

VARIABLES
    open,     \* the source still publishes
    latest,   \* the published picture: its time, and its body (0 when empty)
    state,    \* what each reader is doing
    answer    \* what each reader was handed

feedVars == <<open, latest, state, answer>>

Picture == [n : 0..Last, body : 0..Last]
NoPicture == [n |-> 0, body |-> 0]

FeedInit ==
    /\ open = TRUE
    /\ latest = NoPicture
    /\ state = [r \in Readers |-> "away"]
    /\ answer = [r \in Readers |-> NoPicture]

\* A new picture, of a later time than the one before, replaces it. Every reader
\* that asked has its fresh picture.
Publish ==
    /\ open
    /\ \E p \in Picture :
         /\ p.n > latest.n \/ latest.n = Last
         /\ p.body \in {0, p.n}
         /\ latest' = p
    /\ state' = [r \in Readers |-> IF state[r] = "asking" THEN "ready" ELSE state[r]]
    /\ UNCHANGED <<open, answer>>

Ask(r) ==
    /\ state[r] = "away"
    /\ state' = [state EXCEPT ![r] = "asking"]
    /\ UNCHANGED <<open, latest, answer>>

\* From an open source the reader is handed the latest picture; from a closed
\* one, anything.
Take(r) ==
    /\ state[r] = "ready"
    /\ state' = [state EXCEPT ![r] = "served"]
    /\ open => answer'[r] = latest
    /\ \A q \in Readers \ {r} : answer'[q] = answer[q]
    /\ UNCHANGED <<open, latest>>

\* The reader gives up, or is done with its picture.
Leave(r) ==
    /\ state[r] \in {"ready", "served"}
    /\ state' = [state EXCEPT ![r] = "away"]
    /\ answer' = [answer EXCEPT ![r] = NoPicture]
    /\ UNCHANGED <<open, latest>>

Close ==
    /\ open
    /\ open' = FALSE
    /\ latest' = NoPicture
    /\ UNCHANGED <<state, answer>>

FeedNext ==
    \/ Publish \/ Close
    \/ \E r \in Readers : Ask(r) \/ Take(r) \/ Leave(r)

FeedSpec == FeedInit /\ [][FeedNext]_feedVars
====
