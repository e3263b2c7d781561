----------------------------- MODULE CharCount -----------------------------
(* The character-counting program: front_end, dispatcher and the workers    *)
(* composed.                                                                *)
EXTENDS Dispatcher, FrontEnd, FiniteSets

KnownVerbs == {"increase", "decrease", "terminate", "progress", "info", "other"}

ASSUME VerbsAssumption == Verbs \subseteq KnownVerbs

vars == <<linkVars, dispatcherVars, frontEndVars>>

TypeOK == LinkTypeOK /\ DispatcherTypeOK /\ FrontEndTypeOK

Init == LinkInit /\ DispatcherInit /\ FrontEndInit

-----------------------------------------------------------------------------
\* SIGUSR1 reaches the dispatcher: the handler sets the flag, or there is no
\* handler yet and the signal kills it.  A dispatcher that has ended gets
\* nothing.
NotifyFlag ==
    /\ Notify
    /\ dpc # "boot"
    /\ command_available' = IF Gone THEN command_available ELSE TRUE
    /\ UNCHANGED dispatcherVars

NotifyTooEarly ==
    /\ Notify
    /\ dpc = "boot"
    /\ dpc' = "dead"
    /\ UNCHANGED <<command_available, tableVars, shareVars, crewVars,
                   terminated_children, count, reported, after, killVars>>

\* A command can be written while some process can still read it: the workers
\* inherit the dispatcher's standard input.
Readers == ~Gone \/ \E w \in Slots : proc[w] = "running"

User == \/ \E c \in Commands : Type(c, Readers) /\ UNCHANGED dispatcherVars
        \/ Quit /\ UNCHANGED dispatcherVars

FrontEndMain ==
    \/ NotifyFlag
    \/ NotifyTooEarly
    \/ /\ \/ Top(Gone) \/ Awake \/ ReadResponse \/ Leave(Gone)
          \/ HandleEnd \/ callend(Gone)
       /\ UNCHANGED dispatcherVars

\* kill(-1, SIGKILL) takes front_end with it.
Calamity ==
    /\ KillEveryone
    /\ fpc' = IF fpc = "done" THEN fpc ELSE "killed"
    /\ UNCHANGED <<typed, printed>>

Dispatching == (DispatcherMain /\ UNCHANGED frontEndVars) \/ Calamity

Exiting(w) == WorkerExit(w) /\ UNCHANGED frontEndVars

Reaping(w) == Reap(w) /\ UNCHANGED frontEndVars

Next ==
    \/ User
    \/ FrontEndMain
    \/ Dispatching
    \/ \E w \in Slots : Exiting(w) \/ Reaping(w)

\* The scheduler runs each process, and a pending SIGCHLD is handled.  The
\* user need not type.
Fairness ==
    /\ WF_vars(FrontEndMain)
    /\ WF_vars(Dispatching)
    /\ \A w \in Slots : WF_vars(Exiting(w)) /\ WF_vars(Reaping(w))

Spec == Init /\ [][Next]_vars /\ Fairness

-----------------------------------------------------------------------------
(* Properties of the dialogue, whatever the user types. *)

\* Command and answer take turns.  front_end types no command before the last
\* one was taken; and an answer lies in the pipe only while front_end still has
\* it to read: it waits for it, reads it, or has been sent to callend by the
\* final signal.  No answer is left behind to be taken for the next one's
\* (front_end.c 122-138).
DialogueInTurn ==
    /\ Len(cmdPipe) <= 1
    /\ (\E i \in 1 .. Len(outPipe) : outPipe[i] = "text")
           => fpc \in {"written", "await", "reading", "callend", "done", "killed"}

\* A process that is still searching is in the table, active and with its own
\* pid, so that terminate can find it and SIGCHLD can match it.
NoOrphanWorker ==
    \A w \in Slots : proc[w] = "running" =>
        workers[w].active = 1 /\ workers[w].pid = w

\* A share marked as left by a killed worker keeps its mark until a launch
\* hands it to a new worker.
MarkStays ==
    [][\A i \in Slots :
          workers[i].active = -2 /\ workers'[i].active # -2 =>
              \E w \in Slots : /\ proc[w] = "none" /\ proc'[w] = "running"
                               /\ redo'[w] = i]_vars

\* The dispatcher waits for more workers than there are.
Starved ==
    /\ dpc = "drain" /\ terminated_children < total_current_workers
    /\ \A w \in Slots : proc[w] \in {"none", "reaped"}

\* front_end has read the total as if it were an answer, and callend reads a
\* pipe that is empty but has a writer left, front_end itself.
TotalTaken == fpc = "callend" /\ dpc = "done" /\ outPipe = <<>>

\* Whoever types is asked for the next command or sees front_end end: no wait for
\* an answer, and no wait of callend for the total, lasts for ever, even when the
\* notice of the command is lost, no worker can be killed, the word was no command
\* or the dispatcher ends meanwhile.  The exceptions: the dispatcher has died, or
\* waits for workers it does not have, or front_end has taken the total for the
\* answer it waited for (front_end.c 22-33, 122-138, dispatcher.c 254-266, 361-364,
\* 442-452).
UserGetsOn ==
    fpc \in {"await", "reading"} ~>
        \/ fpc \in {"prompt", "done", "killed"}
        \/ dpc \in {"dead", "crashed", "overrun"}
        \/ Starved
        \/ TotalTaken

-----------------------------------------------------------------------------
(* What the code's comments and documentation say, and the code does not do. *)

\* "it's start and end must be restored" (dispatcher.c:204): no share of a
\* killed worker is still waiting when the dispatcher is done.
SharesRestored == dpc = "done" => \A i \in Slots : workers[i].active # -2

\* "stop reading if reached the end position" (worker.c:37): a byte is not
\* counted more often than there are shares it lies in.
StopsAtEnd ==
    \A p \in Bytes :
        count[p] <= Cardinality({i \in Slots :
            p \in Share(workers[i].workerstart, workers[i].workerend)})

\* "Notify the dispatcher that there's new data" (front_end.c:119): when the
\* dispatcher reaches its check after the notice and before its last launch, the
\* command is taken.
NoticeTaken ==
    (fpc = "await" /\ dpc = "loop" /\ start < FileSize) ~> cmdPipe = <<>>
=============================================================================
