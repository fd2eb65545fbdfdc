------------------------------- MODULE Paging -------------------------------
(***************************************************************************)
(* How the tools cut their output into pages (handleCommand in             *)
(* pkg/tools/delve, PprofHandler in pkg/tools/pprof, handleExecMode in     *)
(* pkg/tools/sshexec, SysInfoHandler in pkg/tools/sysinfo).  A page of a   *)
(* text of total > 0 lines is given by the numbers of its lines; delve,    *)
(* pprof and sshexec also trim the blank lines at its edges, left out here.*)
(***************************************************************************)
EXTENDS Integers, Sequences

CONSTANT MaxInt  \* the largest int, 2^63 - 1 on a 64-bit machine

ASSUME PagingAssumption == MaxInt \in Nat

\* An int holds the numbers from -(MaxInt + 1) to MaxInt.
Wrap(n) == ((n + MaxInt + 1) % (2 * MaxInt + 2)) - (MaxInt + 1)

-----------------------------------------------------------------------------
(* A page: the lines from+1..to, whether the reply calls itself truncated, *)
(* and the line numbers its header shows, <<>> when it has no header.      *)

Header(offset, from, to) == <<Wrap(offset + 1), Wrap(offset + to - from)>>

\* Mutant of DelvePage: the offset is taken for a line number.
DelvePageFromOne(total, max, offset) ==
    LET from == IF offset > 0 THEN offset - 1 ELSE 0
        to   == IF from + max > total THEN total ELSE from + max
    IN  [from |-> IF from < to THEN from ELSE to, to |-> to, more |-> to < total,
         header |-> <<>>]

DelvePage(total, max, offset) ==
    LET sum  == Wrap(offset + max)
        from == IF offset < total THEN offset ELSE 0
        to   == IF offset >= total THEN 0 ELSE IF sum > total THEN total ELSE sum
        more == offset < total /\ sum <= total
    IN  [from |-> from, to |-> to, more |-> more,
         header |-> IF more THEN Header(offset, from, to) ELSE <<>>]

\* Mutant of PprofPage: the last line is taken for the end of the text.
PprofPageDropsLast(total, max, offset) ==
    LET inside == offset > 0 /\ offset < total
        more   == IF inside THEN Wrap(offset + max) < total ELSE total > max
        from   == IF inside THEN offset ELSE 0
    IN  [from |-> from, to |-> IF more THEN from + max ELSE total - 1, more |-> more,
         header |-> <<>>]

PprofPage(total, max, offset) ==
    LET inside == offset > 0 /\ offset < total
        more   == IF inside THEN Wrap(offset + max) < total ELSE total > max
        from   == IF inside THEN offset ELSE 0
        to     == IF more THEN from + max ELSE total
    IN  [from |-> from, to |-> to, more |-> more,
         header |-> IF more \/ offset > 0 THEN Header(offset, from, to) ELSE <<>>]

\* Mutants of ExecPage: the start is not tested against the text; "more" is
\* decided by the end, which is 0 behind the text.
ExecPageUntested(total, max, offset) ==
    [from |-> offset, to |-> IF offset + max > total THEN total ELSE offset + max,
     more |-> total > offset + max, header |-> <<>>]

ExecPageByEnd(total, max, offset) ==
    LET from == IF offset >= total THEN 0 ELSE offset
        to   == IF offset >= total THEN 0 ELSE IF offset + max > total THEN total ELSE offset + max
    IN  [from |-> from, to |-> to, more |-> to < total,
         header |-> IF to < total THEN Header(from, from, to) ELSE <<>>]

\* sshexec and sysinfo.
ExecPage(total, max, offset) ==
    LET sum  == Wrap(offset + max)
        from == IF offset >= total THEN 0 ELSE offset
        to   == IF offset >= total THEN 0 ELSE IF sum > total THEN total ELSE sum
        more == total > sum
    IN  [from |-> from, to |-> to, more |-> more,
         header |-> IF more THEN Header(offset, from, to) ELSE <<>>]

Page(tool, total, max, offset) ==
    CASE tool = "delve" -> DelvePage(total, max, offset)
      [] tool = "pprof" -> PprofPage(total, max, offset)
      [] OTHER          -> ExecPage(total, max, offset)

=============================================================================
