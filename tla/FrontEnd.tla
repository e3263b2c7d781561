----------------------------- MODULE FrontEnd -----------------------------
(* The front_end process (front_end.c): it takes the user's commands, hands *)
(* them to the dispatcher one at a time, waits for each answer, and prints  *)
(* the total when the dispatcher has ended.  What it needs to know of the   *)
(* dispatcher's process is a parameter of its actions.                      *)
EXTENDS Link

CONSTANT MaxCommands    \* bound: commands the user types

ASSUME MaxCommandsAssumption == MaxCommands \in Nat

VARIABLES
    fpc,     \* where main or the SIGUSR1 handler is
    typed,   \* commands typed so far
    printed  \* what "Total_count is" shows: "nothing" until it is printed

frontEndVars == <<fpc, typed, printed>>

\* callend is the SIGUSR1 handler, which never returns to main; killed means
\* by a signal, done by its own exit.
FrontEndTypeOK ==
    /\ fpc \in {"top", "prompt", "written", "await", "reading", "exiting",
                "callend", "done", "killed"}
    /\ typed \in 0 .. MaxCommands
    /\ printed \in {"nothing", "total", "garbage"}

FrontEndInit ==
    /\ fpc = "top"
    /\ typed = 0
    /\ printed = "nothing"

\* A step of main that follows a return from a blocking call: a SIGUSR1 that
\* has come is handled first.
At(pc) == fpc = pc /\ ~ended

\* waitpid(WNOHANG) at the head of the loop.
Top(gone) ==
    /\ At("top")
    /\ fpc' = IF gone THEN "exiting" ELSE "prompt"
    /\ UNCHANGED <<linkVars, typed, printed>>

\* fgets returns a line that is not exit, and the line is written.  With no
\* reader left, SIGPIPE kills the process.
Type(c, readers) ==
    /\ At("prompt")
    /\ typed < MaxCommands
    /\ typed' = typed + 1
    /\ IF readers
       THEN cmdPipe' = Append(cmdPipe, c) /\ fpc' = "written"
       ELSE UNCHANGED cmdPipe /\ fpc' = "killed"
    /\ UNCHANGED <<outPipe, command_available, responseReady, ended, printed>>

\* fgets returns exit or the end of the input; the pipe's write end is closed.
Quit ==
    /\ At("prompt")
    /\ fpc' = "exiting"
    /\ UNCHANGED <<linkVars, typed, printed>>

\* kill(dispatcher, SIGUSR1); what it does there is the composition's part.
Notify ==
    /\ fpc = "written"
    /\ fpc' = "await"
    /\ UNCHANGED <<cmdPipe, outPipe, responseReady, ended, typed, printed>>

\* Mutant: the answer is not read after the wait for it.
Awake_NoRead ==
    /\ At("await")
    /\ responseReady
    /\ responseReady' = FALSE
    /\ fpc' = "top"
    /\ UNCHANGED <<cmdPipe, outPipe, command_available, ended, typed, printed>>

\* while (!responseReady) sleep(1); responseReady = 0
Awake ==
    /\ At("await")
    /\ responseReady
    /\ responseReady' = FALSE
    /\ fpc' = "reading"
    /\ UNCHANGED <<cmdPipe, outPipe, command_available, ended, typed, printed>>

\* read() blocks while the pipe is empty and takes all that is in it.
ReadResponse ==
    /\ fpc = "reading"
    /\ outPipe # <<>>
    /\ outPipe' = <<>>
    /\ fpc' = "top"
    /\ UNCHANGED <<cmdPipe, command_available, responseReady, ended, typed,
                   printed>>

\* wait(NULL) after the loop returns, and main ends.
Leave(gone) ==
    /\ At("exiting")
    /\ gone
    /\ fpc' = "done"
    /\ UNCHANGED <<linkVars, typed, printed>>

\* SIGUSR1 interrupts whatever main is doing.
HandleEnd ==
    /\ ended
    /\ fpc \notin {"callend", "done", "killed"}
    /\ fpc' = "callend"
    /\ UNCHANGED <<linkVars, typed, printed>>

\* callend: wait for the dispatcher, read four bytes, print them as the total.
callend(gone) ==
    /\ fpc = "callend"
    /\ gone
    /\ outPipe # <<>>
    /\ outPipe' = Tail(outPipe)
    /\ printed' = IF Head(outPipe) = "count" THEN "total" ELSE "garbage"
    /\ fpc' = "done"
    /\ UNCHANGED <<cmdPipe, command_available, responseReady, ended, typed>>
=============================================================================
