---------------------------- MODULE DelveChannel ----------------------------
(***************************************************************************)
(* The text channel of one Delve session (executeCommand in                *)
(* pkg/tools/delve/delve.go): commands go to dlv's stdin one after         *)
(* another, under session.mu; each starts a goroutine that scans dlv's     *)
(* stdout for a line with a prompt and hands the result over the           *)
(* unbuffered channel "done"; the handler waits for it at most             *)
(* commandTimeout.  A goroutine whose handler has given up stays.          *)
(*                                                                         *)
(* dlv is the program on the other side of the pipes: it answers the       *)
(* commands in order, each with a few lines.  "(dlv)" or ">" in a line is  *)
(* taken for the prompt, and can be in any of them or in none.             *)
(***************************************************************************)
EXTENDS Naturals, Sequences, FiniteSets, SequencesExt

CONSTANTS
    N,          \* commands sent in the life of the session
    Responses,  \* shapes of dlv's answers: per line, whether it shows a prompt
    Greetings   \* shapes of what dlv prints when it starts

ASSUME ChannelAssumption ==
    /\ N \in Nat \ {0}
    /\ Responses \subseteq Seq(BOOLEAN) \ {<<>>}
    /\ Greetings \subseteq Seq(BOOLEAN) /\ Greetings # {}

Cmds == 1..N

VARIABLES
    cmd,     \* what has become of each command
    reply,   \* the lines its reader has collected (output)
    rd,      \* its reader goroutine
    readErr, \* its reader met an error other than the end of the file
    fdLock,  \* the reader inside Read on stdout, 0 for none (os.File's lock)
    stdin,   \* commands written and not yet taken by dlv
    said,    \* the lines dlv answers a command with; said[0] is the greeting
    pending, \* lines dlv has not printed yet
    stdout,  \* lines printed and not yet read
    alive,   \* dlv is running
    closed   \* the tool's ends of the pipes are closed

handlerVars == <<cmd, reply, rd, readErr, fdLock>>
dlvVars == <<stdin, said, pending, alive>>
vars == <<handlerVars, dlvVars, stdout, closed>>

Lines == [of: 0..N, nr: Nat, prompt: BOOLEAN]

TypeOK ==
    /\ cmd \in [Cmds -> {"new", "waiting", "ok", "error", "timeout"}]
    /\ reply \in [Cmds -> Seq(Lines)]
    /\ rd \in [Cmds -> {"none", "enter", "read", "send", "gone"}]
    /\ readErr \in [Cmds -> BOOLEAN]
    /\ fdLock \in 0..N
    /\ stdin \in Seq(Cmds)
    /\ said \in [0..N -> Seq(Lines)]
    /\ pending \in Seq(Lines)
    /\ stdout \in Seq(Lines)
    /\ alive \in BOOLEAN
    /\ closed \in BOOLEAN

Text(c, shape) ==
    [k \in 1..Len(shape) |-> [of |-> c, nr |-> k, prompt |-> shape[k]]]

\* A session just connected; connectSession sleeps and reads nothing.
Init ==
    /\ cmd = [c \in Cmds |-> "new"]
    /\ reply = [c \in Cmds |-> <<>>]
    /\ rd = [c \in Cmds |-> "none"]
    /\ readErr = [c \in Cmds |-> FALSE]
    /\ fdLock = 0
    /\ stdin = <<>>
    /\ \E g \in Greetings : said = [c \in 0..N |-> IF c = 0 THEN Text(0, g) ELSE <<>>]
    /\ pending = <<>>
    /\ stdout = said[0]
    /\ alive = TRUE
    /\ closed = FALSE

-----------------------------------------------------------------------------
(* executeCommand *)

\* Mutant of Next1: session.mu is not taken.
NextAnyTime(c) == cmd[c] = "new"

\* session.mu admits the next command when the one before has returned.
Next1(c) == cmd[c] = "new" /\ \A b \in 1..(c - 1) : cmd[b] \notin {"new", "waiting"}

Send(c) ==
    /\ Next1(c)
    /\ alive /\ ~closed
    /\ cmd' = [cmd EXCEPT ![c] = "waiting"]
    /\ stdin' = Append(stdin, c)
    /\ rd' = [rd EXCEPT ![c] = "enter"]
    /\ UNCHANGED <<reply, readErr, fdLock, said, pending, alive, stdout, closed>>

SendFails(c) ==
    /\ Next1(c)
    /\ ~alive \/ closed
    /\ cmd' = [cmd EXCEPT ![c] = "error"]
    /\ UNCHANGED <<reply, rd, readErr, fdLock, dlvVars, stdout, closed>>

\* Mutant of Receive: the result is polled, and the reader left sending.
ReceivePolls(c) ==
    /\ cmd[c] = "waiting"
    /\ rd[c] = "send"
    /\ cmd' = [cmd EXCEPT ![c] = IF readErr[c] THEN "error" ELSE "ok"]
    /\ UNCHANGED <<reply, rd, readErr, fdLock, dlvVars, stdout, closed>>

\* The select: the reader's result, or the timeout.
Receive(c) ==
    /\ cmd[c] = "waiting"
    /\ rd[c] = "send"
    /\ cmd' = [cmd EXCEPT ![c] = IF readErr[c] THEN "error" ELSE "ok"]
    /\ rd' = [rd EXCEPT ![c] = "gone"]
    /\ UNCHANGED <<reply, readErr, fdLock, dlvVars, stdout, closed>>

Timeout(c) ==
    /\ cmd[c] = "waiting"
    /\ cmd' = [cmd EXCEPT ![c] = "timeout"]
    /\ UNCHANGED <<reply, rd, readErr, fdLock, dlvVars, stdout, closed>>

-----------------------------------------------------------------------------
(* The reader goroutine of a command *)

\* Mutant of EnterRead: readers are counted, not kept apart.
EnterReadShared(c) ==
    /\ rd[c] = "enter"
    /\ ~closed
    /\ rd' = [rd EXCEPT ![c] = "read"]
    /\ fdLock' = fdLock + c
    /\ UNCHANGED <<cmd, reply, readErr, dlvVars, stdout, closed>>

EnterRead(c) ==
    /\ rd[c] = "enter"
    /\ fdLock = 0
    /\ ~closed
    /\ rd' = [rd EXCEPT ![c] = "read"]
    /\ fdLock' = c
    /\ UNCHANGED <<cmd, reply, readErr, dlvVars, stdout, closed>>

\* Mutant of ReadChunk: a line stays in the pipe when it is read.
ReadChunkPeeks(c) ==
    /\ rd[c] = "read"
    /\ ~closed /\ stdout # <<>>
    /\ reply' = [reply EXCEPT ![c] = Append(@, Head(stdout))]
    /\ rd' = [rd EXCEPT ![c] = IF Head(stdout).prompt THEN "send" ELSE "enter"]
    /\ fdLock' = 0
    /\ UNCHANGED <<cmd, readErr, dlvVars, stdout, closed>>

\* Read fills the new scanner's buffer with some of what is in the pipe; the
\* scan keeps the lines up to a prompt, and what is buffered behind the
\* prompt is dropped with the scanner.
ReadChunk(c) ==
    /\ rd[c] = "read"
    /\ ~closed
    /\ \E n \in 1..Len(stdout) : \E kept \in 1..n :
        /\ \A k \in 1..(kept - 1) : ~stdout[k].prompt
        /\ stdout[kept].prompt \/ kept = n
        /\ reply' = [reply EXCEPT ![c] = @ \o SubSeq(stdout, 1, kept)]
        /\ rd' = [rd EXCEPT ![c] = IF stdout[kept].prompt THEN "send" ELSE "enter"]
        /\ stdout' = SubSeq(stdout, n + 1, Len(stdout))
    /\ fdLock' = 0
    /\ UNCHANGED <<cmd, readErr, dlvVars, closed>>

\* End of file is no error: the scan ends and "done" is signalled.
ReadEOF(c) ==
    /\ rd[c] = "read"
    /\ stdout = <<>> /\ ~alive /\ ~closed
    /\ rd' = [rd EXCEPT ![c] = "send"]
    /\ fdLock' = 0
    /\ UNCHANGED <<cmd, reply, readErr, dlvVars, stdout, closed>>

\* Mutant of ReadClosed: Close does not interrupt a Read that is blocked.
ReadClosedLater(c) ==
    /\ rd[c] = "enter"
    /\ closed
    /\ rd' = [rd EXCEPT ![c] = "send"]
    /\ readErr' = [readErr EXCEPT ![c] = TRUE]
    /\ UNCHANGED <<cmd, reply, fdLock, dlvVars, stdout, closed>>

\* Closing the file fails a Read that is blocked and every later one.
ReadClosed(c) ==
    /\ rd[c] \in {"enter", "read"}
    /\ closed
    /\ rd' = [rd EXCEPT ![c] = "send"]
    /\ readErr' = [readErr EXCEPT ![c] = TRUE]
    /\ fdLock' = IF fdLock = c THEN 0 ELSE fdLock
    /\ UNCHANGED <<cmd, reply, dlvVars, stdout, closed>>

-----------------------------------------------------------------------------
(* dlv, its end, and cleanupSession *)

DlvTakes ==
    /\ alive /\ pending = <<>> /\ stdin # <<>>
    /\ \E shape \in Responses :
        /\ pending' = Text(Head(stdin), shape)
        /\ said' = [said EXCEPT ![Head(stdin)] = Text(Head(stdin), shape)]
    /\ stdin' = Tail(stdin)
    /\ UNCHANGED <<handlerVars, alive, stdout, closed>>

DlvPrints ==
    /\ alive /\ pending # <<>>
    /\ stdout' = Append(stdout, Head(pending))
    /\ pending' = Tail(pending)
    /\ UNCHANGED <<handlerVars, stdin, said, alive, closed>>

DlvExits ==
    /\ alive
    /\ alive' = FALSE
    /\ stdin' = <<>>
    /\ pending' = <<>>
    /\ UNCHANGED <<handlerVars, said, stdout, closed>>

\* The reaper's cmd.Wait() closes the pipes once dlv has ended, even when
\* output is left in them.
WaitCloses ==
    /\ ~alive /\ ~closed
    /\ closed' = TRUE
    /\ UNCHANGED <<handlerVars, dlvVars, stdout>>

\* A disconnect or the sweep closes the pipes at any time, without session.mu.
CleanupCloses ==
    /\ ~closed
    /\ closed' = TRUE
    /\ UNCHANGED <<handlerVars, dlvVars, stdout>>

-----------------------------------------------------------------------------

Reader(c) == EnterRead(c) \/ ReadChunk(c) \/ ReadEOF(c) \/ ReadClosed(c)

Next ==
    \/ \E c \in Cmds : Send(c) \/ SendFails(c) \/ Receive(c) \/ Timeout(c) \/ Reader(c)
    \/ DlvTakes \/ DlvPrints \/ DlvExits \/ WaitCloses \/ CleanupCloses

Spec == Init /\ [][Next]_vars

\* The scheduler runs the reader goroutines; the others need not move.
Fairness == \A c \in Cmds : WF_vars(Reader(c))

FairSpec == Spec /\ Fairness

-----------------------------------------------------------------------------
(* Properties *)

\* What dlv has answered can be recognised: its last line, and only that, is taken
\* for a prompt.  It prints its own without a line break, so that it can be missing
\* or come in front of the next answer; and a stop is shown as "> main.main() ...".
EndsAtPrompt(c) ==
    \A k \in 1..Len(said[c]) : said[c][k].prompt <=> k = Len(said[c])

\* As long as no command on the session has timed out, no answer could be taken to
\* end early, and dlv printed nothing when it started, a successful reply is what dlv
\* answered to that command, and all of it if that can be recognised and dlv lives.
ReplyIsOwnUnlessLate ==
    \A c \in Cmds :
        cmd[c] = "ok" /\ said[0] = <<>>
          /\ (\A b \in 1..(c - 1) : cmd[b] # "timeout" /\ EndsAtPrompt(b)) =>
            /\ IsPrefix(reply[c], said[c])
            /\ alive /\ EndsAtPrompt(c) => reply[c] = said[c]

\* Readers of the same pipe, leaked ones included, never share a line, and a
\* reply keeps the order in which dlv printed it.
Before(l, m) == l.of < m.of \/ (l.of = m.of /\ l.nr < m.nr)
LinesDeliveredOnce ==
    /\ \A c \in Cmds : \A j, k \in 1..Len(reply[c]) :
            j < k => Before(reply[c][j], reply[c][k])
    /\ \A b, c \in Cmds : b # c =>
            {reply[b][k] : k \in 1..Len(reply[b])}
                \cap {reply[c][k] : k \in 1..Len(reply[c])} = {}

\* A reader goroutine outlives its command only if the command timed out, and
\* then, once its scan is over, it waits on "done" for ever.
LeakOnlyByTimeout ==
    \A c \in Cmds :
        rd[c] \in {"enter", "read", "send"} => cmd[c] \in {"waiting", "timeout"}

\* Closing the pipes frees every goroutine that is blocked in Read on them.
CloseFreesReaders ==
    closed ~> \A c \in Cmds : rd[c] \notin {"enter", "read"}

\* "executeCommand sends a command to an existing session and reads the
\* response": a successful reply holds lines of no other command's answer.
ReplyIsOwn ==
    \A c \in Cmds : cmd[c] = "ok" =>
        \A k \in 1..Len(reply[c]) : reply[c][k].of \in {0, c}

=============================================================================
