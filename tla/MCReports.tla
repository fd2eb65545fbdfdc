----------------------------- MODULE MCReports -----------------------------
(* Reports for TLC: a local host, a remote one and one with a banner, each   *)
(* without some command, file or line; memory and counters at their edges.   *)
EXTENDS Reports

Usual == [remote |-> FALSE, noise |-> FALSE, broken |-> {}, lacks |-> {}, keyless |-> {},
          stat1 |-> [busy |-> 4, idle |-> 4], stat2 |-> [busy |-> 5, idle |-> 7],
          mem |-> [total |-> 8000, free |-> 2000, available |-> 4100, cached |-> 3000,
                   swapTotal |-> 1500, swapFree |-> 1100]]

Reached == {[Usual EXCEPT !.remote = r, !.noise = n] : <<r, n>> \in
               {<<FALSE, FALSE>>, <<TRUE, FALSE>>, <<TRUE, TRUE>>}}

Broken == {[h EXCEPT !.broken = b] : h \in Reached, b \in
              {{}, {"os-release", "uname_s"}, Commands} \cup {{c} : c \in Commands}}

Lacking == {[h EXCEPT !.lacks = {f}] : h \in Reached,
               f \in {"os-release", "cpuinfo", "loadavg", "stat", "meminfo"}}

Keyless == {[h EXCEPT !.keyless = e] : h \in Reached,
               e \in {Pipelines} \cup {{c} : c \in Pipelines}}

Counters == {[Usual EXCEPT !.stat2 = [busy |-> b, idle |-> i]] : b \in 3..5, i \in 2..5}

Kilobytes == {0, 1023, 2047}
Memories ==
    {[Usual EXCEPT !.mem = [total |-> 4096, free |-> f, available |-> a, cached |-> c,
                            swapTotal |-> s, swapFree |-> f]] :
        f, a, c \in Kilobytes, s \in {2047, 2048}}
    \cup {[Usual EXCEPT !.mem = [total |-> 4096, free |-> f, cached |-> c]] :
        f, c \in Kilobytes}

AllHosts == Broken \cup Lacking \cup Keyless \cup Counters \cup Memories

=============================================================================
