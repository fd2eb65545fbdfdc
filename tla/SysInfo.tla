------------------------------ MODULE SysInfo ------------------------------
(***************************************************************************)
(* What the sysinfo tool (pkg/tools/sysinfo/sysinfo.go) makes of the       *)
(* commands it runs on a host, through "sh -c" or one ssh connection each. *)
(* The right answer to a command is named by the command, "uname -r" being *)
(* uname_r here.  A host is                                                *)
(*   remote        reached through ssh                                     *)
(*   noise         ssh or the remote shell writes to stderr                *)
(*   broken        commands that end with an error, whatever the reason    *)
(*   lacks         files that it does not have                             *)
(*   keyless       pipelines whose file is there, without the line sought: *)
(*                 "cpu cores" and "model name" are not in every kernel's  *)
(*                 /proc/cpuinfo, nor PRETTY_NAME in every os-release      *)
(*   stat1, stat2  counters of /proc/stat a second apart, [busy, idle]     *)
(*   mem           /proc/meminfo in KB; an entry can be missing            *)
(***************************************************************************)
EXTENDS Integers, Sequences

Commands == {"hostname", "uname_r", "os-release", "uname_s", "uptime", "model",
             "threads", "cores", "loadavg", "stat1", "sleep", "stat2", "meminfo"}

\* A pipeline ends like its last command, "cut" or "tr", which does not fail.
Pipelines == {"os-release", "model", "cores"}

\* The file that a command reads.
File(cmd) == CASE cmd \in {"model", "threads", "cores"} -> "cpuinfo"
               [] cmd \in {"stat1", "stat2"}            -> "stat"
               [] OTHER                                 -> cmd

Lacks(h, cmd) == File(cmd) \in h.lacks

\* grep finds no line, which is an error of its own but not of the pipeline.
FindsNothing(h, cmd) == Lacks(h, cmd) \/ cmd \in h.keyless

Succeeds(h, cmd) == cmd \notin h.broken /\ (Lacks(h, cmd) => cmd \in Pipelines)

\* ExecuteCommand appends the stderr of a remote command to its output, also
\* when it succeeds; a local command's is dropped.
Noisy(h, cmd) == h.remote /\ (h.noise \/ Lacks(h, cmd))

Nothing == <<"", FALSE>>

\* A trimmed output: the answer, and whether stderr follows it.
Said(h, cmd) == IF ~Succeeds(h, cmd) THEN Nothing
                ELSE <<IF FindsNothing(h, cmd) THEN "" ELSE cmd, Noisy(h, cmd)>>

\* Atoi takes nothing but the number.
Counted(h, cmd) == IF Said(h, cmd) = <<cmd, FALSE>> THEN cmd ELSE "0"

\* Mutant of Usage: without the test for counters that stand still or go back.
UsageUnchecked(s1, s2) ==
    LET used == s2.busy - s1.busy IN <<used * 100, used + s2.idle - s1.idle>>

\* calculateCPUUsage as a fraction of positive denominator, <<>> when negative.
Usage(s1, s2) ==
    LET used  == s2.busy - s1.busy
        total == used + s2.idle - s1.idle
    IN  IF total = 0 THEN <<0, 1>>
        ELSE IF used * total < 0 THEN <<>>
        ELSE IF total > 0 THEN <<used * 100, total>> ELSE <<-used * 100, -total>>

KB(mem, entry) == IF entry \in DOMAIN mem THEN mem[entry] ELSE 0
MB(mem, entry) == KB(mem, entry) \div 1024

Unread == [total |-> 0, used |-> 0, available |-> 0, free |-> 0, cached |-> 0,
           swapTotal |-> 0, swapUsed |-> 0, swapFree |-> 0]

\* What the kernel calls available, or what is free and cached when it does not
\* say or says less than one MB.
Available(mem) ==
    LET given == MB(mem, "available")
    IN  IF given = 0 THEN MB(mem, "free") + MB(mem, "cached") ELSE given

\* Mutant of Used: the fallback for available memory is forgotten.
UsedByGiven(mem) == MB(mem, "total") - MB(mem, "available")

Used(mem) == MB(mem, "total") - Available(mem)

Memory(mem) ==
    [total |-> MB(mem, "total"), used |-> Used(mem), available |-> Available(mem),
     free |-> MB(mem, "free"), cached |-> MB(mem, "cached"),
     swapTotal |-> MB(mem, "swapTotal"), swapFree |-> MB(mem, "swapFree"),
     swapUsed |-> MB(mem, "swapTotal") - MB(mem, "swapFree")]

\* A host that the tool can meet: what the kernel calls available, and what is free
\* or cached, is a part of the total.
IsHost(h) ==
    /\ {h.remote, h.noise} \subseteq BOOLEAN
    /\ h.broken \subseteq Commands /\ h.keyless \subseteq Pipelines
    /\ h.lacks \subseteq {"os-release", "cpuinfo", "loadavg", "stat", "meminfo"}
    /\ {h.stat1, h.stat2} \subseteq [busy : Nat, idle : Nat]
    /\ \A entry \in DOMAIN h.mem : h.mem[entry] \in Nat
    /\ KB(h.mem, "available") <= KB(h.mem, "total")
    /\ KB(h.mem, "free") + KB(h.mem, "cached") <= KB(h.mem, "total")
    /\ KB(h.mem, "swapFree") <= KB(h.mem, "swapTotal")

\* gatherSystemInfo: what cannot be had is left empty.
Gather(h) ==
    [hostname |-> Said(h, "hostname"), kernel |-> Said(h, "uname_r"),
     os |-> IF Succeeds(h, "os-release") THEN Said(h, "os-release") ELSE Said(h, "uname_s"),
     uptime |-> Said(h, "uptime"), model |-> Said(h, "model"),
     threads |-> Counted(h, "threads"), cores |-> Counted(h, "cores"),
     load |-> Said(h, "loadavg")[1],
     usage |-> IF \A cmd \in {"stat1", "sleep", "stat2"} : Succeeds(h, cmd)
               THEN Usage(h.stat1, h.stat2) ELSE <<>>,
     memory |-> IF Succeeds(h, "meminfo") THEN Memory(h.mem) ELSE Unread]

-----------------------------------------------------------------------------
(* The report: a sequence of lines, a line being a label and what it shows. *)

Heading(title) == <<title, "">>
Blank == Heading("")
Lines(r, labels) == [k \in 1..Len(labels) |-> <<labels[k], r[labels[k]]>>]

\* stderr takes lines of its own: one here.
TextLines(i, label) ==
    <<<<label, i[label][1]>>>> \o IF i[label][2] THEN <<<<label, "STDERR">>>> ELSE <<>>

\* formatSystemInfo; the text that follows the last line break is empty.
Format(i) ==
    <<Heading("System Information"), Heading("rule"), Blank, Heading("General")>>
    \o TextLines(i, "hostname") \o TextLines(i, "os")
    \o TextLines(i, "kernel") \o TextLines(i, "uptime")
    \o <<Blank, Heading("CPU")>>
    \o TextLines(i, "model") \o Lines(i, <<"cores", "threads", "load">>)
    \o (IF i.usage = <<>> THEN <<>> ELSE Lines(i, <<"usage">>))
    \o <<Blank, Heading("Memory")>>
    \o Lines(i.memory, <<"total", "used", "available", "free", "cached">>)
    \o (IF i.memory.swapTotal = 0 THEN <<>>
        ELSE <<Blank, Heading("Swap")>>
             \o Lines(i.memory, <<"swapTotal", "swapUsed", "swapFree">>))
    \o <<Blank>>

=============================================================================
