--------------------------- MODULE MandelThreads ---------------------------
(* What the pthread programs of 2nd_project_OS that draw the Mandelbrot set *)
(* have in common: main creates thrcnt threads, joins them in turn and then *)
(* destroys what they synchronised with; a thread computes every thrcnt-th  *)
(* line and writes it to the terminal, which all threads share.             *)
EXTENDS Integers

CONSTANTS
    thrcnt,   \* threads
    y_chars,  \* lines of the picture, 50 in the code
    pieces    \* writes that one line takes: its points and the newline

ASSUME MandelAssumption ==
    /\ thrcnt \in Nat \ {0}
    /\ y_chars \in Nat \ {0}
    /\ pieces \in Nat \ {0}

VARIABLES
    pc,    \* thread |-> where it is
    line,  \* thread |-> its loop variable i
    col,   \* thread |-> the piece of its line it writes next
    last,  \* <<line, piece>> of the last write on the terminal
    mpc,   \* where main is
    k      \* main's loop variable

threadVars == <<pc, line, col>>
mainVars == <<mpc, k>>
drawVars == <<threadVars, last, mainVars>>

Threads == 0 .. thrcnt - 1
Succ(t) == (t + 1) % thrcnt

DrawTypeOK(points) ==
    /\ pc \in [Threads -> {"none", "compute", "output", "done"} \cup points]
    /\ line \in [Threads -> Nat]
    /\ col \in [Threads -> 0 .. pieces - 1]
    /\ last \in (-1 .. y_chars - 1) \X (0 .. pieces - 1)
    /\ mpc \in {"create", "join", "destroy", "done"}
    /\ k \in Threads

DrawInit ==
    /\ pc = [t \in Threads |-> "none"]
    /\ line = [t \in Threads |-> t]
    /\ col = [t \in Threads |-> 0]
    /\ last = <<-1, pieces - 1>>
    /\ mpc = "create"
    /\ k = 0

\* main's loops over the threads: the index of the next turn, or on to the
\* next part of main.
NextTurn(part) ==
    IF k = thrcnt - 1 THEN mpc' = part /\ k' = 0 ELSE mpc' = mpc /\ k' = k + 1

Create ==
    /\ mpc = "create"
    /\ pc' = [pc EXCEPT ![k] = "compute"]
    /\ NextTurn("join")
    /\ UNCHANGED <<line, col, last>>

\* Mutant: the threads are not waited for.
Join_NoWait ==
    /\ mpc = "join"
    /\ NextTurn("destroy")
    /\ UNCHANGED <<threadVars, last>>

Join ==
    /\ mpc = "join"
    /\ pc[k] = "done"
    /\ NextTurn("destroy")
    /\ UNCHANGED <<threadVars, last>>

\* Semaphores, or mutex and condition variables, are destroyed.
Destroy ==
    /\ mpc = "destroy"
    /\ mpc' = "done"
    /\ UNCHANGED <<threadVars, last, k>>

Main == Create \/ Join \/ Destroy

\* compute_mandel_line, for a line that is left, without any lock; the thread
\* goes on to `sync`.
Compute(t, sync) ==
    /\ pc[t] = "compute"
    /\ line[t] < y_chars
    /\ pc' = [pc EXCEPT ![t] = sync]
    /\ UNCHANGED <<line, col, last, mainVars>>

Return(t) ==
    /\ pc[t] = "compute"
    /\ line[t] >= y_chars
    /\ pc' = [pc EXCEPT ![t] = "done"]
    /\ UNCHANGED <<line, col, last, mainVars>>

\* Mutant: one write too many on each line.
Output_OneTooMany(t, next) ==
    /\ pc[t] = "output"
    /\ last' = <<line[t], col[t]>>
    /\ IF col[t] = pieces
       THEN /\ col' = [col EXCEPT ![t] = 0]
            /\ pc' = [pc EXCEPT ![t] = next]
       ELSE /\ col' = [col EXCEPT ![t] = @ + 1]
            /\ UNCHANGED pc
    /\ UNCHANGED <<line, mainVars>>

\* One write of output_mandel_line; after the newline the thread goes on to
\* `next`.
Output(t, next) ==
    /\ pc[t] = "output"
    /\ last' = <<line[t], col[t]>>
    /\ IF col[t] = pieces - 1
       THEN /\ col' = [col EXCEPT ![t] = 0]
            /\ pc' = [pc EXCEPT ![t] = next]
       ELSE /\ col' = [col EXCEPT ![t] = @ + 1]
            /\ UNCHANGED pc
    /\ UNCHANGED <<line, mainVars>>

\* Mutant: i += 1.
NextLine_NextOne(t) ==
    /\ line' = [line EXCEPT ![t] = @ + 1]
    /\ pc' = [pc EXCEPT ![t] = "compute"]

\* i += thrcnt, at the end of the loop's body.
NextLine(t) ==
    /\ line' = [line EXCEPT ![t] = @ + thrcnt]
    /\ pc' = [pc EXCEPT ![t] = "compute"]

\* The picture, as a single thread would draw it.
Picture == INSTANCE OrderedOutput
=============================================================================
