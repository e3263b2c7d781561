------------------------------- MODULE Link -------------------------------
(* What front_end and dispatcher share: the two pipes between them and the  *)
(* flags their signal handlers set.  A signal a process handles only by     *)
(* setting a flag is delivered when it is sent.                             *)
EXTENDS Integers, Sequences

CONSTANTS
    Verbs,    \* first words the user may type
    Amounts   \* numbers the user may type after increase or decrease

ASSUME LinkAssumption == Amounts \subseteq Int

VARIABLES
    cmdPipe,            \* commands, front_end to dispatcher's stdin
    outPipe,            \* dispatcher's stdout, to front_end
    command_available,  \* dispatcher's flag, set by SIGUSR1
    responseReady,      \* front_end's flag, set by SIGUSR2
    ended               \* SIGUSR1 was sent to front_end

linkVars == <<cmdPipe, outPipe, command_available, responseReady, ended>>

\* What sscanf("%s %d") makes of a line: value stays 0 without a number.  An
\* empty line leaves the word uninitialized: any verb, with 0.
Sized == {"increase", "decrease"}
Commands == [verb : Verbs \cap Sized, value : Amounts]
              \cup [verb : Verbs \ Sized, value : {0}]

\* What a write of the dispatcher leaves in its pipe: the text of an answer,
\* the four bytes of the final count, or the log flushed at its exit.
Outputs == {"text", "count", "log"}

LinkTypeOK ==
    /\ cmdPipe \in Seq(Commands)
    /\ outPipe \in Seq(Outputs)
    /\ command_available \in BOOLEAN
    /\ responseReady \in BOOLEAN
    /\ ended \in BOOLEAN

LinkInit ==
    /\ cmdPipe = <<>>
    /\ outPipe = <<>>
    /\ command_available = FALSE
    /\ responseReady = FALSE
    /\ ended = FALSE
=============================================================================
