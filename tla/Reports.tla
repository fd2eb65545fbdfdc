------------------------------ MODULE Reports ------------------------------
(***************************************************************************)
(* A client pages through the output of delve, pprof, sshexec or sysinfo:  *)
(* it follows the notice "Use offset parameter to view more" as long as it *)
(* names lines short of the last.  No tool keeps its output: each request  *)
(* makes the tool run anew, and the text may have changed between pages.   *)
(***************************************************************************)
EXTENDS Paging, SysInfo

CONSTANTS
    Tools,     \* the tools considered
    MaxTotal,  \* longest text of a tool other than sysinfo
    Pages,     \* the max_lines considered; 0 has been replaced by the default
    HostPages, \* the same for sysinfo
    Hosts      \* the hosts sysinfo looks at

ASSUME ReportsAssumption ==
    /\ Tools \subseteq {"delve", "pprof", "sshexec", "sysinfo"}
    /\ MaxTotal \in Nat \ {0} /\ Pages \cup HostPages \subseteq Nat \ {0}
    /\ \A m \in Pages : MaxTotal + m <= MaxInt
    /\ \A h \in Hosts : IsHost(h)
    /\ \A m \in HostPages, h \in Hosts : Len(Format(Gather(h))) + m <= MaxInt

VARIABLES
    tool, max,  \* which tool, and the page size
    source,     \* what it reports on: a text by version and length, or a host
    changed,    \* history: the source has changed since the first page
    offset,     \* of the next request
    page,       \* the last page received, with its offset and the text's length
    got,        \* the lines the reader has received
    status      \* "new", "reading", "done", "failed"; "probed" after a lone request

vars == <<tool, max, source, changed, offset, page, got, status>>

Sources == IF tool = "sysinfo" THEN Hosts ELSE [version: {0, 1}, total: 1..MaxTotal]

Gathered == [h \in Hosts |-> Gather(h)]
Formatted == [h \in Hosts |-> Format(Gathered[h])]

Text(s) == IF tool = "sysinfo" THEN Formatted[s]
           ELSE [k \in 1..s.total |-> <<s.version, k>>]

Answered == status \notin {"new", "failed"}

TypeOK ==
    /\ tool \in Tools /\ max \in Pages \cup HostPages
    /\ source \in Sources /\ changed \in BOOLEAN
    /\ offset \in 0..MaxInt
    /\ status \in {"new", "reading", "done", "failed", "probed"}
    /\ Answered => /\ 0 <= page.from /\ page.from <= page.to /\ page.to <= page.total
                   /\ page.more \in BOOLEAN /\ page.at \in 0..MaxInt

Init ==
    /\ tool \in Tools
    /\ max \in IF tool = "sysinfo" THEN HostPages ELSE Pages
    /\ source \in Sources
    /\ tool # "sysinfo" => source.version = 0
    /\ changed = FALSE
    /\ offset = 0
    /\ page = <<>>
    /\ got = <<>>
    /\ status = "new"

\* A page of the text that the tool has when it runs for this request.
Reply(text, at) ==
    LET p == Page(tool, Len(text), max, at)
    IN  [from |-> p.from, to |-> p.to, more |-> p.more, header |-> p.header,
         at |-> at, total |-> Len(text)]

\* The lines that the header names end before the last one.
MoreNamed(p) == p.header # <<>> /\ p.header[2] < p.total

\* The reader asks for the page behind the last line of the page before.
Read ==
    /\ status \in {"new", "reading"}
    /\ \/ source' = source
       \/ status = "reading" /\ ~changed /\ source' \in Sources
    /\ changed' = (changed \/ source' # source)
    /\ LET text == Text(source') IN
        /\ page' = Reply(text, offset)
        /\ got' = got \o SubSeq(text, page'.from + 1, page'.to)
    /\ offset' = offset + (page'.to - page'.from)
    /\ status' = IF MoreNamed(page') THEN "reading" ELSE "done"
    /\ UNCHANGED <<tool, max>>

\* The tool fails: no session, no profile, no binary, no connection to the host.
ReadFails ==
    /\ status \in {"new", "reading"}
    /\ tool = "sysinfo" => source.remote
    /\ status' = "failed"
    /\ UNCHANGED <<tool, max, source, changed, offset, page, got>>

\* Some client asks for any offset that the validation admits.
Probe(at) ==
    /\ status = "new"
    /\ tool # "sysinfo"
    /\ page' = Reply(Text(source), at)
    /\ status' = "probed"
    /\ UNCHANGED <<tool, max, source, changed, offset, got>>

Next == Read \/ ReadFails \/ \E at \in 0..MaxInt : Probe(at)

Spec == Init /\ [][Next]_vars

\* The reader goes on as long as the notices tell it to.
FairSpec == Spec /\ WF_vars(Read)

-----------------------------------------------------------------------------
(* Properties *)

\* pprof answers an offset behind the text with its first page.
PprofPastEnd == tool = "pprof" /\ page.at > 0 /\ page.at >= page.total

\* A page holds the lines offset+1 .. min(offset + max, total) and no others, for every
\* offset up to the largest int; behind the end that is none, except that pprof gives its
\* first page.  Short of the end the header names the lines of the page, and is missing
\* only where the text ends.  Behind the end sshexec and sysinfo have one only when
\* offset + max overflows, delve never, and pprof always: it names lines behind the last,
\* which do not exist, and so sends nobody on.
PageIsSlice ==
    Answered =>
        /\ LET start == IF PprofPastEnd THEN 0 ELSE page.at IN
            {n + 1 : n \in page.from..page.to - 1}
                = {n \in 1..page.total : n > start /\ n - start <= max}
        /\ page.at < page.total =>
            page.header = <<page.from + 1, page.to>> \/ (page.header = <<>> /\ page.to = page.total)
        /\ page.at >= page.total =>
            \/ page.header = <<>> /\ ~PprofPastEnd
            \/ page.at + max > MaxInt /\ tool # "delve"
            \/ PprofPastEnd /\ page.header[1] = page.at + 1 /\ page.header[2] >= page.total

\* A reader that follows the notices receives every line once and in order, in
\* spite of the different ways to compute them, as long as the text stays as it
\* was: nothing else ties one page to the next.
ReaderReadsAll ==
    status = "done" /\ ~changed => got = Text(source)

\* ... and comes to an end even when the text changes under it: a tool that is
\* asked for what is no longer there does not send it on.
ReaderEnds == status = "reading" ~> status \in {"done", "failed"}

Info == Gathered[source]

\* Used and available memory add up to the total and neither is below zero,
\* whatever entries the kernel leaves out; what is free is not called used when the
\* kernel does not say what is available.
MemoryAddsUp ==
    tool = "sysinfo" =>
        LET m == Info.memory IN
        /\ m.used + m.available = m.total
        /\ m.used \in 0..m.total /\ m.swapUsed \in 0..m.swapTotal
        /\ "available" \notin DOMAIN source.mem => m.used + m.free <= m.total

\* Whichever commands fail and whatever stderr says, a figure is the host's or is
\* missing, and is missing for a reason: a count of processors is lost to a failure, to
\* stderr or to a /proc/cpuinfo without it, the last with no sign of it; a usage needs
\* all three samples' commands and lies between 0 and 100 % as long as the counters did
\* not go back; the name of the system is lost when both ways to it fail, or when the
\* file or its line is missing, for which no fallback is taken.
FiguresAreTrue ==
    tool = "sysinfo" =>
        /\ \A count \in {"threads", "cores"} :
            \/ Info[count] = count
            \/ /\ Info[count] = "0"
               /\ count \in source.broken \cup source.keyless \/ "cpuinfo" \in source.lacks
                    \/ (source.remote /\ source.noise)
        /\ Info.usage # <<>> =>
            /\ {"stat1", "stat2", "sleep"} \cap source.broken = {}
            /\ Info.usage[1] >= 0 /\ Info.usage[2] > 0
            /\ source.stat1.idle <= source.stat2.idle /\ source.stat1.busy <= source.stat2.busy
                => Info.usage[1] <= 100 * Info.usage[2]
        /\ Info.os[1] = "" => \/ "os-release" \in source.lacks \cup source.keyless
                              \/ {"os-release", "uname_s"} \subseteq source.broken

=============================================================================
