----------------------------- MODULE ThreadLife -----------------------------
(***************************************************************************)
(* What the dispatcher promises: the life of a thread as es::Thread        *)
(* declares its states, and a processor that executes one thread at a time *)
(* while no thread is executed by two.  A core is still on a thread, on    *)
(* its registers and its stack, for a while after the thread's state has   *)
(* changed; the thread is not given to another core before that is over.   *)
(***************************************************************************)
CONSTANTS Threads, Cores, Boot, BootCore, NoThread

VARIABLES
    life,       \* the state of each thread
    on          \* the thread whose context each core is using, or NoThread

vars == <<life, on>>

Init ==
    /\ life = [t \in Threads |-> IF t = Boot THEN "RUNNING" ELSE "NEW"]
    /\ on = [c \in Cores |-> IF c = BootCore THEN Boot ELSE NoThread]

Move(t, from, to) ==
    /\ life[t] = from
    /\ life' = [life EXCEPT ![t] = to]

Executing(t) == \E c \in Cores : on[c] = t

Start(t) == Move(t, "NEW", "RUNNABLE") /\ UNCHANGED on

Wake(t) == Move(t, "WAITING", "RUNNABLE") /\ UNCHANGED on

Dispatch(c, t) ==
    /\ on[c] = NoThread
    /\ ~Executing(t)
    /\ Move(t, "RUNNABLE", "RUNNING")
    /\ on' = [on EXCEPT ![c] = t]

Preempt(t) == Executing(t) /\ Move(t, "RUNNING", "RUNNABLE") /\ UNCHANGED on

Block(t) == Executing(t) /\ Move(t, "RUNNING", "WAITING") /\ UNCHANGED on

(* A thread exits, or is cancelled where it stands. *)
Terminate(t) ==
    /\ \E s \in {"RUNNABLE", "RUNNING", "WAITING"} : Move(t, s, "TERMINATED")
    /\ UNCHANGED on

(* The core has saved the thread's context and leaves it. *)
Leave(c) ==
    /\ on[c] # NoThread
    /\ life[on[c]] # "RUNNING"
    /\ on' = [on EXCEPT ![c] = NoThread]
    /\ UNCHANGED life

Next ==
    \/ \E t \in Threads :
          Start(t) \/ Wake(t) \/ Preempt(t) \/ Block(t) \/ Terminate(t)
    \/ \E c \in Cores : Leave(c) \/ \E t \in Threads : Dispatch(c, t)

Spec == Init /\ [][Next]_vars
=============================================================================
