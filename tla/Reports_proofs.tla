--------------------------- MODULE Reports_proofs ---------------------------
(***************************************************************************)
(* Pages are slices of the text, a reader who follows the notices gets the *)
(* whole of it, and sysinfo's figures are the host's, for texts and pages  *)
(* of any length, every largest int and all hosts.                         *)
(***************************************************************************)
EXTENDS Reports, SequenceTheorems, TLAPS

-----------------------------------------------------------------------------
(* The pages of the four tools *)

\* What the three ways to compute a page have in common.  Short of the end of the text
\* a page begins at the offset, and a header names its lines; behind it a page begins at
\* the first line (pprof's) or is empty, and a header names lines that do not exist.
Cut(p, total, m, at) ==
    /\ p.from \in Nat /\ p.to \in Nat /\ p.from <= p.to /\ p.to <= total
    /\ p.to - p.from <= m
    /\ at < total =>
        /\ p.from = at
        /\ p.to = IF at + m > total THEN total ELSE at + m
        /\ p.header = <<>> => p.to = total
        /\ p.header # <<>> => p.header = <<p.from + 1, p.to>>
    /\ at >= total =>
        /\ p.from = 0
        /\ p.header # <<>> /\ at + m <= MaxInt =>
              p.header[1] = at + 1 /\ p.header[2] \in Nat /\ p.header[2] >= total

\* An int that fits is not changed.
LEMMA WrapFits ==
    ASSUME NEW n \in 0..MaxInt
    PROVE  Wrap(n) = n
<1> DEFINE k == n + MaxInt + 1  m == 2 * MaxInt + 2
<1>1. k \in Nat /\ m \in Nat \ {0} /\ k < m
  BY PagingAssumption
<1>2. k % m = k
  <2>. HIDE DEF k, m
  <2>. QED
    BY <1>1
<1>. QED
  BY <1>2, PagingAssumption DEF Wrap

\* A page of delve.
LEMMA DelveCuts ==
    ASSUME NEW total \in Nat, NEW m \in Nat \ {0}, NEW at \in 0..MaxInt,
           total + m <= MaxInt
    PROVE  /\ Cut(DelvePage(total, m, at), total, m, at)
           /\ at >= total => DelvePage(total, m, at).to = 0
                                 /\ DelvePage(total, m, at).header = <<>>
<1>. DEFINE p == DelvePage(total, m, at)
<1>0. MaxInt \in Nat
  BY PagingAssumption
<1>1. CASE at < total
  <2>1. Wrap(at + m) = at + m
    BY <1>0, <1>1, WrapFits
  <2>2. /\ p.from = at
        /\ p.to = IF at + m > total THEN total ELSE at + m
        /\ p.header = IF at + m <= total THEN Header(at, at, at + m) ELSE <<>>
    BY <1>0, <1>1, <2>1 DEF DelvePage
  <2>3. at + m <= total => Header(at, at, at + m) = <<at + 1, at + m>>
    <3>1. Wrap(at + 1) = at + 1
      BY <1>0, <1>1, WrapFits
    <3>. QED
      BY <1>0, <1>1, <2>1, <3>1 DEF Header
  <2>4. /\ p.header = <<>> => p.to = total
        /\ p.header # <<>> => p.header = <<p.from + 1, p.to>>
    <3>. HIDE DEF p
    <3>1. CASE at + m <= total
      <4>1. p.header = <<at + 1, at + m>> /\ p.to = at + m
        BY <1>0, <1>1, <2>2, <2>3, <3>1
      <4>2. p.header = <<p.from + 1, p.to>>
        BY <2>2, <4>1
      <4>3. p.header # <<>>
        BY <4>2
      <4>. QED
        BY <4>2, <4>3
    <3>2. CASE ~(at + m <= total)
      <4>1. p.header = <<>> /\ p.to = total
        BY <1>0, <1>1, <2>2, <3>2
      <4>. QED
        BY <4>1
    <3>. QED
      BY <3>1, <3>2
  <2>5. /\ p.from \in Nat /\ p.to \in Nat /\ p.from <= p.to /\ p.to <= total
        /\ p.to - p.from <= m
    <3>. HIDE DEF p
    <3>. QED
      BY <1>0, <1>1, <2>2
  <2>6. Cut(p, total, m, at)
    <3>. HIDE DEF p
    <3>. QED
      BY <1>0, <1>1, <2>2, <2>4, <2>5 DEF Cut
  <2>. QED
    BY <1>0, <1>1, <2>6
<1>2. CASE at >= total
  <2>1. ~(at < total)
    BY <1>0, <1>2
  <2>2. p.from = 0 /\ p.to = 0 /\ p.header = <<>>
    BY <1>2, <2>1 DEF DelvePage
  <2>3. Cut(p, total, m, at)
    <3>. HIDE DEF p
    <3>. QED
      BY <1>0, <1>2, <2>2 DEF Cut
  <2>. QED
    BY <1>0, <1>2, <2>2, <2>3
<1>. QED
  BY <1>0, <1>1, <1>2

\* A page of sshexec or sysinfo.
LEMMA ExecCuts ==
    ASSUME NEW total \in Nat, NEW m \in Nat \ {0}, NEW at \in 0..MaxInt,
           total + m <= MaxInt
    PROVE  /\ Cut(ExecPage(total, m, at), total, m, at)
           /\ at >= total => ExecPage(total, m, at).to = 0
           /\ at >= total /\ at + m <= MaxInt => ExecPage(total, m, at).header = <<>>
<1>. DEFINE p == ExecPage(total, m, at)
<1>0. MaxInt \in Nat
  BY PagingAssumption
<1>1. CASE at < total
  <2>1. Wrap(at + m) = at + m
    BY <1>0, <1>1, WrapFits
  <2>2. /\ p.from = at
        /\ p.to = IF at + m > total THEN total ELSE at + m
        /\ p.header = IF total > at + m THEN Header(at, at, at + m) ELSE <<>>
    BY <1>0, <1>1, <2>1 DEF ExecPage
  <2>3. total > at + m => Header(at, at, at + m) = <<at + 1, at + m>>
    <3>1. Wrap(at + 1) = at + 1
      BY <1>0, <1>1, WrapFits
    <3>. QED
      BY <1>0, <1>1, <2>1, <3>1 DEF Header
  <2>4. /\ p.header = <<>> => p.to = total
        /\ p.header # <<>> => p.header = <<p.from + 1, p.to>>
    <3>. HIDE DEF p
    <3>1. CASE total > at + m
      <4>1. p.header = <<at + 1, at + m>> /\ p.to = at + m
        BY <1>0, <1>1, <2>2, <2>3, <3>1
      <4>2. p.header = <<p.from + 1, p.to>>
        BY <2>2, <4>1
      <4>3. p.header # <<>>
        BY <4>2
      <4>. QED
        BY <4>2, <4>3
    <3>2. CASE ~(total > at + m)
      <4>1. p.header = <<>> /\ p.to = total
        BY <1>0, <1>1, <2>2, <3>2
      <4>. QED
        BY <4>1
    <3>. QED
      BY <3>1, <3>2
  <2>5. /\ p.from \in Nat /\ p.to \in Nat /\ p.from <= p.to /\ p.to <= total
        /\ p.to - p.from <= m
    <3>. HIDE DEF p
    <3>. QED
      BY <1>0, <1>1, <2>2
  <2>6. Cut(p, total, m, at)
    <3>. HIDE DEF p
    <3>. QED
      BY <1>0, <1>1, <2>2, <2>4, <2>5 DEF Cut
  <2>. QED
    BY <1>0, <1>1, <2>6
<1>2. CASE at >= total
  <2>1. /\ p.from = 0 /\ p.to = 0
        /\ p.header # <<>> => total > Wrap(at + m)
    BY <1>0, <1>2 DEF ExecPage
  <2>2. at + m <= MaxInt => p.header = <<>>
    <3>1. ASSUME at + m <= MaxInt, total > Wrap(at + m) PROVE FALSE
      <4>1. Wrap(at + m) = at + m
        BY <1>0, <3>1, WrapFits
      <4>. QED
        BY <1>0, <1>2, <3>1, <4>1
    <3>. QED
      BY <2>1, <3>1
  <2>3. Cut(p, total, m, at)
    <3>. HIDE DEF p
    <3>. QED
      BY <1>0, <1>2, <2>1, <2>2 DEF Cut
  <2>. QED
    BY <1>0, <1>2, <2>1, <2>2, <2>3
<1>. QED
  BY <1>0, <1>1, <1>2

\* A page of pprof.
LEMMA PprofCuts ==
    ASSUME NEW total \in Nat, NEW m \in Nat \ {0}, NEW at \in 0..MaxInt,
           total + m <= MaxInt
    PROVE  /\ Cut(PprofPage(total, m, at), total, m, at)
           /\ at >= total /\ at > 0 =>
                /\ PprofPage(total, m, at).to = IF total > m THEN m ELSE total
                /\ PprofPage(total, m, at).header # <<>>
           /\ at >= total /\ at = 0 => PprofPage(total, m, at).header = <<>>
<1>. DEFINE p == PprofPage(total, m, at)
<1>0. MaxInt \in Nat
  BY PagingAssumption
<1>1. CASE at > 0 /\ at < total
  <2>1. Wrap(at + m) = at + m
    BY <1>0, <1>1, WrapFits
  <2>2. /\ p.from = at
        /\ p.to = IF at + m < total THEN at + m ELSE total
        /\ p.header = Header(at, at, p.to)
    BY <1>0, <1>1, <2>1 DEF PprofPage
  <2>3. Header(at, at, p.to) = <<at + 1, p.to>>
    <3>1. Wrap(at + 1) = at + 1
      BY <1>0, <1>1, WrapFits
    <3>2. p.to \in 0..MaxInt /\ at + p.to - at = p.to
      BY <1>0, <1>1, <2>2
    <3>3. Wrap(p.to) = p.to
      BY <3>2, WrapFits
    <3>. QED
      BY <3>1, <3>2, <3>3 DEF Header
  <2>4. /\ p.header = <<p.from + 1, p.to>> /\ p.header # <<>>
    <3>1. p.header = <<p.from + 1, p.to>>
      BY <2>2, <2>3
    <3>. HIDE DEF p
    <3>. QED
      BY <3>1
  <2>5. /\ p.from \in Nat /\ p.to \in Nat /\ p.from <= p.to /\ p.to <= total
        /\ p.to - p.from <= m
        /\ p.to = IF at + m > total THEN total ELSE at + m
        /\ p.from = at /\ at < total /\ ~(at >= total)
    <3>. HIDE DEF p
    <3>. QED
      BY <1>0, <1>1, <2>2
  <2>6. Cut(p, total, m, at)
    <3>. HIDE DEF p
    <3>. QED
      BY <2>4, <2>5 DEF Cut
  <2>. QED
    BY <1>0, <1>1, <2>6
<1>2. CASE at = 0 \/ at >= total
  <2>1. /\ p.from = 0
        /\ p.to = IF total > m THEN m ELSE total
        /\ p.header = IF total > m \/ at > 0 THEN Header(at, 0, p.to) ELSE <<>>
    BY <1>0, <1>2 DEF PprofPage
  <2>2. at + p.to <= MaxInt => Header(at, 0, p.to) = <<Wrap(at + 1), at + p.to>>
    <3>1. ASSUME at + p.to <= MaxInt PROVE Wrap(at + p.to - 0) = at + p.to
      <4>1. at + p.to \in 0..MaxInt /\ at + p.to - 0 = at + p.to
        BY <1>0, <2>1, <3>1
      <4>. QED
        BY <4>1, WrapFits
    <3>. QED
      BY <3>1 DEF Header
  <2>3. CASE at < total
    <3>1. at = 0 /\ Wrap(at + 1) = 1
      BY <1>0, <1>2, <2>3, WrapFits
    <3>2. p.to \in Nat /\ at + p.to <= MaxInt
      BY <1>0, <2>1, <3>1
    <3>3. Header(at, 0, p.to) = <<1, p.to>>
      BY <2>2, <3>1, <3>2
    <3>4. /\ p.header = <<>> => p.to = total
          /\ p.header # <<>> => p.header = <<p.from + 1, p.to>>
      <4>1. CASE total > m
        <5>1. p.header = <<1, p.to>> /\ p.from + 1 = 1
          BY <2>1, <3>3, <4>1
        <5>. HIDE DEF p
        <5>. QED
          BY <5>1
      <4>2. CASE ~(total > m)
        <5>1. p.header = <<>> /\ p.to = total
          BY <2>1, <3>1, <4>2
        <5>. QED
          BY <5>1
      <4>. QED
        BY <4>1, <4>2
    <3>5. /\ p.to <= total /\ p.to <= m
          /\ p.to = IF at + m > total THEN total ELSE at + m
      BY <1>0, <2>1, <3>1
    <3>6. Cut(p, total, m, at)
      <4>. HIDE DEF p
      <4>. QED
        BY <1>0, <2>1, <2>3, <3>1, <3>2, <3>4, <3>5 DEF Cut
    <3>. QED
      BY <1>0, <2>3, <3>1, <3>6
  <2>4. CASE at >= total
    <3>1. ASSUME at + m <= MaxInt, p.header # <<>>
          PROVE  p.header[1] = at + 1 /\ p.header[2] \in Nat /\ p.header[2] >= total
      <4>1. p.header = Header(at, 0, p.to) /\ p.to \in Nat /\ p.to <= m
            /\ p.to = IF total > m THEN m ELSE total
        BY <1>0, <2>1, <3>1
      <4>2. at + p.to <= MaxInt /\ at + p.to \in Nat /\ at + p.to >= total
        BY <1>0, <2>4, <3>1, <4>1
      <4>3. Wrap(at + 1) = at + 1
        <5>1. at + 1 \in 0..MaxInt
          BY <1>0, <3>1
        <5>. QED
          BY <5>1, WrapFits
      <4>. HIDE DEF p
      <4>4. p.header = <<at + 1, at + p.to>>
        BY <2>2, <4>1, <4>2, <4>3
      <4>5. p.header[1] = at + 1 /\ p.header[2] = at + p.to
        BY <4>4
      <4>. QED
        BY <4>2, <4>5
    <3>2. p.from = 0 /\ p.to \in Nat /\ p.to <= total /\ p.to <= m
      BY <1>0, <2>1
    <3>3. Cut(p, total, m, at)
      <4>. HIDE DEF p
      <4>. QED
        BY <1>0, <2>4, <3>1, <3>2 DEF Cut
    <3>4. at > 0 => p.header # <<>>
      <4>1. Header(at, 0, p.to) # <<>>
        BY DEF Header
      <4>. QED
        BY <2>1, <4>1
    <3>5. at = 0 => p.header = <<>>
      BY <1>0, <2>1, <2>4
    <3>. QED
      BY <2>1, <3>3, <3>4, <3>5
  <2>. QED
    BY <1>0, <2>3, <2>4
<1>. QED
  BY <1>0, <1>1, <1>2

-----------------------------------------------------------------------------
(* The texts *)

IsSeq(s) == \E S : s \in Seq(S)

\* Sequences joined are a sequence.
LEMMA JoinIsSeq ==
    ASSUME NEW s, NEW t, IsSeq(s), IsSeq(t)
    PROVE  IsSeq(s \o t)
<1>1. PICK S : s \in Seq(S)
  BY DEF IsSeq
<1>2. PICK T : t \in Seq(T)
  BY DEF IsSeq
<1>3. s \in Seq(S \cup T)
  BY <1>1, SeqMonotonic, Zenon
<1>4. t \in Seq(S \cup T)
  BY <1>2, SeqMonotonic, Zenon
<1>5. s \o t \in Seq(S \cup T)
  BY <1>3, <1>4, ConcatProperties
<1>. QED
  BY <1>5 DEF IsSeq

\* A field of the report is one line or two.
LEMMA TextLinesIsSeq ==
    ASSUME NEW i, NEW label
    PROVE  IsSeq(TextLines(i, label))
<1> DEFINE first == <<label, i[label][1]>>  second == <<label, "STDERR">>
<1>1. <<first>> \in Seq({first}) /\ <<second>> \in Seq({second}) /\ <<>> \in Seq({second})
  OBVIOUS
<1>2. IsSeq(<<first>>) /\ IsSeq(IF i[label][2] THEN <<second>> ELSE <<>>)
  <2>. HIDE DEF first, second
  <2>. QED
    BY <1>1 DEF IsSeq
<1>. QED
  BY <1>2, JoinIsSeq DEF TextLines

\* So are the lines of several labels.
LEMMA LinesIsSeq ==
    ASSUME NEW r, NEW labels, Len(labels) \in Nat
    PROVE  IsSeq(Lines(r, labels))
<1> DEFINE S == {<<labels[k], r[labels[k]]>> : k \in 1..Len(labels)}
<1>1. Lines(r, labels) \in [1..Len(labels) -> S]
  BY DEF Lines
<1>2. Lines(r, labels) \in Seq(S)
  <2>. HIDE DEF S
  <2>. QED
    BY <1>1, SeqDef
<1>. QED
  BY <1>2 DEF IsSeq

\* The report is a sequence of lines.
LEMMA FormatIsSeq ==
    ASSUME NEW i
    PROVE  IsSeq(Format(i))
<1> DEFINE a == <<Heading("System Information"), Heading("rule"), Blank, Heading("General")>>
           b == <<Blank, Heading("CPU")>>
           c == Lines(i, <<"cores", "threads", "load">>)
           d == IF i.usage = <<>> THEN <<>> ELSE Lines(i, <<"usage">>)
           e == <<Blank, Heading("Memory")>>
           f == Lines(i.memory, <<"total", "used", "available", "free", "cached">>)
           g == IF i.memory.swapTotal = 0 THEN <<>>
                ELSE <<Blank, Heading("Swap")>>
                     \o Lines(i.memory, <<"swapTotal", "swapUsed", "swapFree">>)
           h == <<Blank>>
<1>1. IsSeq(a) /\ IsSeq(b) /\ IsSeq(e) /\ IsSeq(h) /\ IsSeq(<<>>)
      /\ IsSeq(<<Blank, Heading("Swap")>>)
  <2>1. \A w, x, y, z : <<w, x, y, z>> \in Seq({w, x, y, z}) /\ <<w, x>> \in Seq({w, x})
                        /\ <<w>> \in Seq({w}) /\ <<>> \in Seq({})
    OBVIOUS
  <2>. QED
    BY <2>1, Zenon DEF IsSeq
<1>2. IsSeq(c) /\ IsSeq(f)
  BY LinesIsSeq
<1>3. IsSeq(d)
  BY <1>1, LinesIsSeq, Zenon
<1>4. IsSeq(g)
  BY <1>1, LinesIsSeq, JoinIsSeq, Zenon
<1>5. \A label : IsSeq(TextLines(i, label))
  BY TextLinesIsSeq
<1>6. Format(i) = a \o TextLines(i, "hostname") \o TextLines(i, "os")
                  \o TextLines(i, "kernel") \o TextLines(i, "uptime") \o b
                  \o TextLines(i, "model") \o c \o d \o e \o f \o g \o h
  BY DEF Format
<1>. HIDE DEF a, b, c, d, e, f, g, h
<1>7. IsSeq(a \o TextLines(i, "hostname") \o TextLines(i, "os")
            \o TextLines(i, "kernel") \o TextLines(i, "uptime"))
  BY <1>1, <1>5, JoinIsSeq
<1>. QED
  BY <1>1, <1>2, <1>3, <1>4, <1>5, <1>6, <1>7, JoinIsSeq

\* A text has a length, and a page behind it is still an int.
LEMMA TextFits ==
    ASSUME TypeOK, max \in IF tool = "sysinfo" THEN HostPages ELSE Pages,
           NEW s \in Sources
    PROVE  /\ IsSeq(Text(s)) /\ Len(Text(s)) \in Nat
           /\ Len(Text(s)) + max <= MaxInt /\ max \in Nat \ {0}
<1>1. IsSeq(Text(s))
  <2>1. CASE tool = "sysinfo"
    BY <2>1, FormatIsSeq DEF Text, Sources, Formatted
  <2>2. CASE tool # "sysinfo"
    <3>1. s.total \in Nat
      BY <2>2 DEF Sources
    <3> DEFINE t == [k \in 1..s.total |-> <<s.version, k>>]
               S == {<<s.version, k>> : k \in 1..s.total}
    <3>2. t \in [1..s.total -> S]
      OBVIOUS
    <3>3. t \in Seq(S)
      <4>. HIDE DEF t, S
      <4>. QED
        BY <3>1, <3>2, SeqDef
    <3>4. Text(s) = t
      BY <2>2 DEF Text
    <3>. QED
      BY <3>3, <3>4 DEF IsSeq
  <2>. QED
    BY <2>1, <2>2
<1>2. Len(Text(s)) \in Nat
  BY <1>1, LenProperties DEF IsSeq
<1>3. Len(Text(s)) + max <= MaxInt /\ max \in Nat \ {0}
  <2>1. CASE tool = "sysinfo"
    <3>1. Text(s) = Format(Gather(s)) /\ s \in Hosts /\ max \in HostPages
      BY <2>1 DEF Text, Sources, Formatted, Gathered
    <3>. QED
      BY <3>1, ReportsAssumption
  <2>2. CASE tool # "sysinfo"
    <3>1. s.total \in 1..MaxTotal /\ max \in Pages
      BY <2>2 DEF Sources
    <3>2. Len(Text(s)) = s.total
      BY <2>2, <3>1, ReportsAssumption DEF Text
    <3>3. MaxTotal \in Nat /\ max \in Nat \ {0} /\ MaxTotal + max <= MaxInt
      BY <3>1, ReportsAssumption
    <3>. QED
      BY <3>1, <3>2, <3>3, PagingAssumption
  <2>. QED
    BY <2>1, <2>2
<1>. QED
  BY <1>1, <1>2, <1>3

-----------------------------------------------------------------------------
(* The reader *)

SizeInv == max \in IF tool = "sysinfo" THEN HostPages ELSE Pages

\* The next request can be added up without overflow; as long as the text stays as it
\* was, the offset is the number of lines received, and it is short of the last line
\* exactly while the reader goes on.
ReadInv ==
    /\ status = "new" => offset = 0 /\ got = <<>> /\ ~changed
    /\ status = "reading" => offset + max <= MaxInt
    /\ status \in {"reading", "done"} /\ ~changed =>
        /\ offset \in 0..Len(Text(source))
        /\ got = SubSeq(Text(source), 1, offset)
        /\ (status = "done") <=> offset = Len(Text(source))

IInv == TypeOK /\ SizeInv /\ PageIsSlice /\ ReadInv

\* What the tools do with an offset behind the text.
Behind(p, total, at) ==
    at >= total =>
        IF tool = "pprof" /\ at > 0
        THEN p.header # <<>> /\ p.to = IF total > max THEN max ELSE total
        ELSE p.to = 0 /\ (p.header = <<>> \/ (at + max > MaxInt /\ tool # "delve"))

\* What a tool replies to one request.
LEMMA ReplyCuts ==
    ASSUME tool \in Tools, NEW text, Len(text) \in Nat, max \in Nat \ {0},
           Len(text) + max <= MaxInt, NEW at \in 0..MaxInt
    PROVE  /\ Reply(text, at).at = at /\ Reply(text, at).total = Len(text)
           /\ Reply(text, at).more \in BOOLEAN
           /\ Cut(Reply(text, at), Len(text), max, at)
           /\ Behind(Reply(text, at), Len(text), at)
<1> DEFINE p == Page(tool, Len(text), max, at)
<1>0. MaxInt \in Nat
  BY PagingAssumption
<1>1. tool \in {"delve", "pprof", "sshexec", "sysinfo"}
  BY ReportsAssumption
<1>2. /\ Reply(text, at).from = p.from /\ Reply(text, at).to = p.to
      /\ Reply(text, at).header = p.header
      /\ Reply(text, at).at = at /\ Reply(text, at).total = Len(text)
  BY DEF Reply
<1>3. Reply(text, at).more = p.more
  BY DEF Reply
<1>4. CASE tool = "delve"
  <2>1. p = DelvePage(Len(text), max, at)
    BY <1>4 DEF Page
  <2>2. Cut(p, Len(text), max, at) /\ (at >= Len(text) => p.to = 0 /\ p.header = <<>>)
    BY <2>1, DelveCuts
  <2>3. p.more \in BOOLEAN
    <3>1. DelvePage(Len(text), max, at).more \in BOOLEAN
      BY DEF DelvePage
    <3>. HIDE DEF p
    <3>. QED
      BY <2>1, <3>1
  <2>. HIDE DEF p
  <2>4. Cut(Reply(text, at), Len(text), max, at)
    BY <1>2, <2>2 DEF Cut
  <2>5. Behind(Reply(text, at), Len(text), at)
    BY <1>2, <1>4, <2>2 DEF Behind
  <2>. QED
    BY <1>2, <1>3, <2>3, <2>4, <2>5
<1>5. CASE tool = "pprof"
  <2>1. p = PprofPage(Len(text), max, at)
    BY <1>5 DEF Page
  <2>2. /\ Cut(p, Len(text), max, at)
        /\ at >= Len(text) /\ at > 0 =>
             p.to = (IF Len(text) > max THEN max ELSE Len(text)) /\ p.header # <<>>
        /\ at >= Len(text) /\ at = 0 => p.header = <<>>
    BY <2>1, PprofCuts
  <2>3. p.more \in BOOLEAN
    <3> DEFINE inside == at > 0 /\ at < Len(text)
               more == IF inside THEN Wrap(at + max) < Len(text) ELSE Len(text) > max
    <3>1. PprofPage(Len(text), max, at).more = more
      BY DEF PprofPage
    <3>2. more \in BOOLEAN
      <4>. HIDE DEF inside
      <4>1. CASE inside
        BY <4>1
      <4>2. CASE ~inside
        BY <4>2
      <4>. QED
        BY <4>1, <4>2
    <3>. HIDE DEF more
    <3>. HIDE DEF p
    <3>. QED
      BY <2>1, <3>1, <3>2
  <2>. HIDE DEF p
  <2>4. Cut(Reply(text, at), Len(text), max, at)
    BY <1>2, <2>2 DEF Cut
  <2>5. at >= Len(text) /\ at = 0 => p.to = 0
    BY <2>2 DEF Cut
  <2>6. Behind(Reply(text, at), Len(text), at)
    BY <1>2, <1>5, <2>2, <2>5 DEF Behind
  <2>. QED
    BY <1>2, <1>3, <2>3, <2>4, <2>6
<1>6. CASE tool \notin {"delve", "pprof"}
  <2>1. p = ExecPage(Len(text), max, at)
    BY <1>6 DEF Page
  <2>2. /\ Cut(p, Len(text), max, at)
        /\ at >= Len(text) => p.to = 0 /\ (p.header = <<>> \/ at + max > MaxInt)
    BY <1>0, <2>1, ExecCuts
  <2>3. p.more \in BOOLEAN
    <3>1. ExecPage(Len(text), max, at).more \in BOOLEAN
      BY DEF ExecPage
    <3>. HIDE DEF p
    <3>. QED
      BY <2>1, <3>1
  <2>. HIDE DEF p
  <2>4. Cut(Reply(text, at), Len(text), max, at)
    BY <1>2, <2>2 DEF Cut
  <2>5. Behind(Reply(text, at), Len(text), at)
    BY <1>2, <1>6, <2>2 DEF Behind
  <2>. QED
    BY <1>2, <1>3, <2>3, <2>4, <2>5
<1>. QED
  BY <1>1, <1>4, <1>5, <1>6

\* The lines of a page, and those behind start that the client asks for.
LinesOf(from, to) == {n + 1 : n \in from..to - 1}
LinesAsked(total, m, start) == {n \in 1..total : n > start /\ n - start <= m}

\* The lines from..to-1, counted from 0, are the lines behind start, counted from 1.
LEMMA LinesBehind ==
    ASSUME NEW total \in Nat, NEW m \in Nat \ {0}, NEW start \in Nat, NEW from, NEW to,
           start < total => from = start /\ to = IF start + m > total THEN total ELSE start + m,
           start >= total => from = 0 /\ to = 0
    PROVE  LinesOf(from, to) = LinesAsked(total, m, start)
<1> DEFINE A == LinesOf(from, to)
           B == LinesAsked(total, m, start)
<1>1. ASSUME NEW n \in B PROVE n \in A
  <2>1. n \in 1..total /\ n > start /\ n - start <= m
    BY <1>1 DEF LinesAsked
  <2>2. n - 1 \in from..to - 1 /\ n = (n - 1) + 1
    BY <2>1
  <2>. QED
    BY <2>2 DEF LinesOf
<1>2. ASSUME NEW n \in A PROVE n \in B
  <2>1. PICK k \in from..to - 1 : n = k + 1
    BY <1>2 DEF LinesOf
  <2>2. n \in 1..total /\ n > start /\ n - start <= m
    BY <2>1
  <2>. QED
    BY <2>2 DEF LinesAsked
<1>. HIDE DEF A, B
<1>3. A = B
  BY <1>1, <1>2
<1>. QED
  BY <1>3 DEF A, B

\* A reply to any offset is the slice that was asked for, and has the header it says.
LEMMA ReplyIsSlice ==
    ASSUME tool \in Tools, NEW text, Len(text) \in Nat, max \in Nat \ {0},
           Len(text) + max <= MaxInt, NEW at \in 0..MaxInt, NEW r, r = Reply(text, at),
           NEW start, start = IF tool = "pprof" /\ at > 0 /\ at >= Len(text) THEN 0 ELSE at
    PROVE  /\ LinesOf(r.from, r.to) = LinesAsked(Len(text), max, start)
           /\ at < Len(text) =>
                r.header = <<r.from + 1, r.to>> \/ (r.header = <<>> /\ r.to = Len(text))
           /\ at >= Len(text) =>
                \/ r.header = <<>> /\ ~(tool = "pprof" /\ at > 0)
                \/ at + max > MaxInt /\ tool # "delve"
                \/ tool = "pprof" /\ at > 0 /\ r.header[1] = at + 1 /\ r.header[2] >= Len(text)
<1>0. MaxInt \in Nat /\ at \in Nat /\ start \in Nat
  BY PagingAssumption
<1>1. Cut(r, Len(text), max, at) /\ Behind(r, Len(text), at)
  BY ReplyCuts
<1>2. CASE at < Len(text)
  <2>1. /\ r.from = at /\ r.to = IF at + max > Len(text) THEN Len(text) ELSE at + max
        /\ r.header = <<>> => r.to = Len(text)
        /\ r.header # <<>> => r.header = <<r.from + 1, r.to>>
    BY <1>1, <1>2 DEF Cut
  <2>2. start = at /\ ~(at >= Len(text)) /\ ~(start >= Len(text))
    BY <1>0, <1>2
  <2>3. LinesOf(r.from, r.to) = LinesAsked(Len(text), max, start)
    BY <1>0, <1>2, <2>1, <2>2, LinesBehind
  <2>. QED
    BY <2>1, <2>2, <2>3
<1>3. CASE at >= Len(text) /\ tool = "pprof" /\ at > 0
  <2>1. start = 0 /\ r.from = 0 /\ r.to = IF Len(text) > max THEN max ELSE Len(text)
    BY <1>1, <1>3 DEF Cut, Behind
  <2>2. /\ start < Len(text) =>
             r.from = start /\ r.to = IF start + max > Len(text) THEN Len(text) ELSE start + max
        /\ start >= Len(text) => r.from = 0 /\ r.to = 0
    BY <1>0, <2>1
  <2>3. LinesOf(r.from, r.to) = LinesAsked(Len(text), max, start)
    BY <1>0, <2>2, LinesBehind
  <2>4. r.header # <<>>
    BY <1>1, <1>3 DEF Behind
  <2>5. at + max <= MaxInt => r.header[1] = at + 1 /\ r.header[2] >= Len(text)
    BY <1>1, <1>3, <2>4 DEF Cut
  <2>6. ~(at + max <= MaxInt) => at + max > MaxInt
    BY <1>0
  <2>7. ~(at < Len(text)) /\ tool # "delve"
    BY <1>0, <1>3
  <2>. QED
    BY <1>3, <2>3, <2>5, <2>6, <2>7
<1>4. CASE at >= Len(text) /\ ~(tool = "pprof" /\ at > 0)
  <2>1. /\ start = at /\ r.from = 0 /\ r.to = 0
        /\ r.header = <<>> \/ (at + max > MaxInt /\ tool # "delve")
    BY <1>1, <1>4 DEF Cut, Behind
  <2>2. ~(start < Len(text)) /\ ~(at < Len(text))
    BY <1>0, <1>4, <2>1
  <2>3. LinesOf(r.from, r.to) = LinesAsked(Len(text), max, start)
    BY <1>0, <2>1, <2>2, LinesBehind
  <2>. QED
    BY <1>4, <2>1, <2>2, <2>3
<1>. QED
  BY <1>0, <1>2, <1>3, <1>4

\* A request continues the text from the lines received so far.
LEMMA Continues ==
    ASSUME NEW text, IsSeq(text), NEW n \in 0..Len(text), NEW m \in n..Len(text)
    PROVE  SubSeq(text, 1, n) \o SubSeq(text, n + 1, m) = SubSeq(text, 1, m)
<1>1. PICK S : text \in Seq(S)
  BY DEF IsSeq
<1>2. Len(text) \in Nat
  BY <1>1, LenProperties
<1>3. 1 \in 1..Len(text) + 1 /\ n \in (1 - 1)..Len(text)
  BY <1>2
<1>. QED
  BY <1>1, <1>3, ConcatAdjacentSubSeq

\* The first request finds what Init says; no page has come yet.
LEMMA InitIInv == Init => IInv
<1> SUFFICES ASSUME Init PROVE IInv
  OBVIOUS
<1>0. MaxInt \in Nat
  BY PagingAssumption
<1>1. TypeOK
  <2>1. /\ tool \in Tools /\ max \in Pages \cup HostPages /\ source \in Sources
        /\ changed = FALSE /\ offset \in 0..MaxInt /\ status = "new"
    BY <1>0 DEF Init
  <2>2. ~Answered
    BY <2>1 DEF Answered
  <2>. QED
    BY <2>1, <2>2 DEF TypeOK
<1>2. SizeInv
  BY DEF Init, SizeInv
<1>3. PageIsSlice
  BY DEF Init, PageIsSlice, Answered
<1>4. ReadInv
  BY DEF Init, ReadInv
<1>. QED
  BY <1>1, <1>2, <1>3, <1>4 DEF IInv

\* What a page says of its text and of the offset asked for.
LEMMA PageStep ==
    ASSUME tool' = tool, max' = max, tool \in Tools,
           NEW text, Len(text) \in Nat, max \in Nat \ {0}, Len(text) + max <= MaxInt,
           NEW at \in 0..MaxInt, page' = Reply(text, at)
    PROVE  /\ PageIsSlice'
           /\ 0 <= page'.from /\ page'.from <= page'.to /\ page'.to <= page'.total
           /\ page'.more \in BOOLEAN /\ page'.at \in 0..MaxInt
<1>1. /\ page'.at = at /\ page'.total = Len(text) /\ page'.more \in BOOLEAN
      /\ Cut(page', Len(text), max, at)
  BY ReplyCuts
<1>2. /\ 0 <= page'.from /\ page'.from <= page'.to /\ page'.to <= page'.total
  BY <1>1 DEF Cut
<1>3. PageIsSlice'
  <2> DEFINE start == IF tool = "pprof" /\ at > 0 /\ at >= Len(text) THEN 0 ELSE at
  <2>1. PprofPastEnd' <=> tool = "pprof" /\ at > 0 /\ at >= Len(text)
    BY <1>1 DEF PprofPastEnd
  <2>2. (IF PprofPastEnd' THEN 0 ELSE page'.at) = start
    BY <1>1, <2>1
  <2>. HIDE DEF start
  <2>3. /\ LinesOf(page'.from, page'.to) = LinesAsked(Len(text), max, start)
        /\ at < Len(text) =>
             page'.header = <<page'.from + 1, page'.to>>
                 \/ (page'.header = <<>> /\ page'.to = Len(text))
        /\ at >= Len(text) =>
             \/ page'.header = <<>> /\ ~(tool = "pprof" /\ at > 0)
             \/ at + max > MaxInt /\ tool # "delve"
             \/ /\ tool = "pprof" /\ at > 0
                /\ page'.header[1] = at + 1 /\ page'.header[2] >= Len(text)
    BY ReplyIsSlice DEF start
  <2>4. {n + 1 : n \in page'.from..page'.to - 1}
            = {n \in 1..page'.total : n > (IF PprofPastEnd' THEN 0 ELSE page'.at)
                                      /\ n - (IF PprofPastEnd' THEN 0 ELSE page'.at) <= max'}
    BY <1>1, <2>2, <2>3 DEF LinesOf, LinesAsked
  <2>5. page'.at >= page'.total =>
            \/ page'.header = <<>> /\ ~PprofPastEnd'
            \/ page'.at + max' > MaxInt /\ tool' # "delve"
            \/ PprofPastEnd' /\ page'.header[1] = page'.at + 1 /\ page'.header[2] >= page'.total
    BY <1>1, <2>1, <2>3
  <2>6. page'.at < page'.total =>
            \/ page'.header = <<page'.from + 1, page'.to>>
            \/ page'.header = <<>> /\ page'.to = page'.total
    BY <1>1, <2>3
  <2>. QED
    BY <2>4, <2>5, <2>6 DEF PageIsSlice
<1>. QED
  BY <1>1, <1>2, <1>3

\* A request of the reader; the text is the one the tool has when it runs for it.
LEMMA ReadStep ==
    ASSUME IInv, Read
    PROVE  IInv'
<1> DEFINE text == Text(source')  total == Len(text)
<1>0. MaxInt \in Nat
  BY PagingAssumption
<1>1. /\ tool' = tool /\ max' = max /\ tool \in Tools /\ status \in {"new", "reading"}
      /\ source' \in Sources /\ offset \in 0..MaxInt /\ changed \in BOOLEAN
      /\ max \in Pages \cup HostPages /\ SizeInv /\ TypeOK /\ ReadInv
  BY DEF IInv, TypeOK, Read
<1>2. /\ page' = Reply(text, offset)
      /\ got' = got \o SubSeq(text, page'.from + 1, page'.to)
      /\ offset' = offset + (page'.to - page'.from)
      /\ status' = IF MoreNamed(page') THEN "reading" ELSE "done"
      /\ changed' = (changed \/ source' # source)
  BY DEF Read
<1>3. IsSeq(text) /\ total \in Nat /\ total + max <= MaxInt /\ max \in Nat \ {0}
  BY <1>1, TextFits DEF SizeInv
<1>4. offset \in Nat /\ offset + max <= MaxInt
  BY <1>0, <1>1, <1>3 DEF ReadInv
<1>5. Sources' = Sources /\ Text(source)' = text
  BY <1>1 DEF Sources, Text
<1>. HIDE DEF text
<1>6. /\ PageIsSlice' /\ 0 <= page'.from /\ page'.from <= page'.to /\ page'.to <= page'.total
      /\ page'.more \in BOOLEAN /\ page'.at \in 0..MaxInt
  BY <1>1, <1>2, <1>3, PageStep
<1>7. /\ page'.total = total /\ Cut(page', total, max, offset)
  BY <1>1, <1>2, <1>3, ReplyCuts
<1>8. offset' \in Nat /\ offset' <= offset + max
  <2>1. /\ page'.from \in Nat /\ page'.to \in Nat /\ page'.from <= page'.to
        /\ page'.to - page'.from <= max
    BY <1>7 DEF Cut
  <2>2. offset' = offset + (page'.to - page'.from)
    BY <1>2
  <2>3. offset \in Nat /\ max \in Nat
    BY <1>3, <1>4
  <2>. QED
    BY <2>1, <2>2, <2>3
<1>9. offset' \in 0..MaxInt
  BY <1>0, <1>3, <1>4, <1>8
<1>10. changed' \in BOOLEAN
  <2>1. changed' = TRUE \/ changed' = FALSE
    BY <1>2
  <2>. QED
    BY <2>1
<1>11. TypeOK'
  <2>1. /\ tool' \in Tools /\ max' \in Pages \cup HostPages /\ source' \in Sources'
        /\ status' \in {"new", "reading", "done", "failed", "probed"}
    BY <1>1, <1>2, <1>5
  <2>. QED
    BY <1>6, <1>9, <1>10, <2>1, Zenon DEF TypeOK
<1>12. SizeInv'
  BY <1>1 DEF SizeInv
<1>13. ASSUME ~changed'
       PROVE  /\ text = Text(source) /\ offset \in 0..total /\ got = SubSeq(text, 1, offset)
              /\ offset = total => offset = 0
  <2>1. ~changed /\ source' = source
    BY <1>2, <1>13
  <2>2. text = Text(source)
    BY <2>1 DEF text
  <2>3. CASE status = "new"
    <3>1. offset = 0 /\ got = <<>>
      BY <1>1, <2>3 DEF ReadInv
    <3>2. SubSeq(text, 1, 0) = <<>>
      BY SubSeqEmpty
    <3>. QED
      BY <1>3, <2>2, <3>1, <3>2
  <2>4. CASE status = "reading"
    BY <1>1, <2>1, <2>2, <2>4 DEF ReadInv
  <2>. QED
    BY <1>1, <2>3, <2>4
<1>14. CASE offset < total
  <2>1. /\ page'.from = offset /\ offset' = page'.to /\ page'.to \in Nat
        /\ offset <= offset' /\ offset' <= total
    <3>1. /\ page'.from = offset /\ page'.from \in Nat /\ page'.to \in Nat
          /\ page'.from <= page'.to /\ page'.to <= total
      BY <1>7, <1>14 DEF Cut
    <3>2. offset' = offset + (page'.to - page'.from)
      BY <1>2
    <3>. QED
      BY <3>1, <3>2
  <2>2. MoreNamed(page') <=> offset' < total
    <3>1. CASE page'.header = <<>>
      BY <1>3, <1>7, <1>14, <2>1, <3>1 DEF Cut, MoreNamed
    <3>2. CASE page'.header # <<>>
      <4>1. page'.header = <<page'.from + 1, page'.to>>
        BY <1>7, <1>14, <3>2 DEF Cut
      <4>2. page'.header[2] = offset'
        BY <2>1, <4>1
      <4>. QED
        BY <1>7, <3>2, <4>2 DEF MoreNamed
    <3>. QED
      BY <3>1, <3>2
  <2>3. /\ status' = "reading" => offset' < total
        /\ status' = "done" <=> offset' = total
        /\ status' \in {"reading", "done"}
    BY <1>2, <1>3, <2>1, <2>2
  <2>4. status' = "reading" => offset' + max' <= MaxInt
    BY <1>0, <1>1, <1>3, <2>1, <2>3
  <2>5. ASSUME ~changed' PROVE got' = SubSeq(text, 1, offset')
    <3>1. got' = SubSeq(text, 1, offset) \o SubSeq(text, offset + 1, offset')
      BY <1>2, <1>13, <2>1, <2>5
    <3>2. offset \in 0..Len(text) /\ offset' \in offset..Len(text)
      BY <1>3, <1>4, <1>14, <2>1
    <3>. QED
      BY <1>3, <3>1, <3>2, Continues
  <2>6. offset' \in 0..total
    BY <1>3, <1>8, <2>1
  <2>7. ReadInv'
    BY <1>5, <2>3, <2>4, <2>5, <2>6 DEF ReadInv
  <2>. QED
    BY <1>6, <1>11, <1>12, <2>7 DEF IInv
<1>15. CASE ~(offset < total)
  <2>1. offset >= total
    BY <1>3, <1>4, <1>15
  <2>2. ~MoreNamed(page')
    <3>1. page'.header # <<>> => ~(page'.header[2] < total)
      BY <1>3, <1>4, <1>7, <2>1 DEF Cut
    <3>. QED
      BY <1>7, <3>1 DEF MoreNamed
  <2>3. status' = "done"
    BY <1>2, <2>2
  <2>4. ASSUME ~changed' PROVE offset' = 0 /\ total = 0 /\ got' = SubSeq(text, 1, 0)
    <3>1. offset = 0 /\ total = 0 /\ got = SubSeq(text, 1, 0)
      BY <1>3, <1>13, <1>15, <2>4
    <3>2. page'.from = 0 /\ page'.to = 0
      BY <1>7, <2>1, <3>1 DEF Cut
    <3>3. offset' = 0 /\ got' = got \o SubSeq(text, 1, 0)
      <4>1. page'.from + 1 = 1 /\ offset + (page'.to - page'.from) = 0
        BY <3>1, <3>2
      <4>2. got' = got \o SubSeq(text, page'.from + 1, page'.to)
        BY <1>2
      <4>3. offset' = offset + (page'.to - page'.from)
        BY <1>2
      <4>. QED
        BY <3>2, <4>1, <4>2, <4>3
    <3>4. SubSeq(text, 1, 0) = <<>>
      BY SubSeqEmpty
    <3>. QED
      BY <3>1, <3>3, <3>4
  <2>5. ReadInv'
    BY <1>5, <2>3, <2>4 DEF ReadInv
  <2>. QED
    BY <1>6, <1>11, <1>12, <2>5 DEF IInv
<1>. QED
  BY <1>14, <1>15

\* Every step keeps the invariant.
LEMMA Inductive == IInv /\ [Next]_vars => IInv'
<1> SUFFICES ASSUME IInv, [Next]_vars PROVE IInv'
  OBVIOUS
<1>1. CASE Read
  BY <1>1, ReadStep
<1>2. CASE ReadFails
  <2>1. /\ UNCHANGED <<tool, max, source, changed, offset, page, got>> /\ status' = "failed"
    BY <1>2 DEF ReadFails
  <2>2. Sources' = Sources /\ ~Answered'
    BY <2>1 DEF Sources, Answered
  <2>3. TypeOK' /\ PageIsSlice'
    BY <2>1, <2>2 DEF IInv, TypeOK, PageIsSlice
  <2>4. SizeInv' /\ ReadInv'
    BY <2>1 DEF IInv, SizeInv, ReadInv
  <2>. QED
    BY <2>3, <2>4 DEF IInv
<1>3. ASSUME NEW at \in 0..MaxInt, Probe(at) PROVE IInv'
  <2>1. /\ UNCHANGED <<tool, max, source, changed, offset, got>> /\ status' = "probed"
        /\ page' = Reply(Text(source), at)
    BY <1>3 DEF Probe
  <2>2. Sources' = Sources
    BY <2>1 DEF Sources
  <2>3. TypeOK /\ SizeInv /\ source \in Sources /\ tool \in Tools
    BY DEF IInv, TypeOK
  <2>4. /\ Len(Text(source)) \in Nat /\ Len(Text(source)) + max <= MaxInt
        /\ max \in Nat \ {0}
    BY <2>3, TextFits DEF SizeInv
  <2>5. /\ PageIsSlice' /\ 0 <= page'.from /\ page'.from <= page'.to
        /\ page'.to <= page'.total /\ page'.more \in BOOLEAN /\ page'.at \in 0..MaxInt
    <3>. DEFINE t == Text(source)
    <3>. HIDE DEF t
    <3>1. page' = Reply(t, at) /\ Len(t) \in Nat /\ Len(t) + max <= MaxInt
      BY <2>1, <2>4 DEF t
    <3>. QED
      BY <2>1, <2>3, <2>4, <3>1, PageStep
  <2>6. TypeOK'
    BY <2>1, <2>2, <2>3, <2>5 DEF TypeOK
  <2>7. SizeInv' /\ ReadInv'
    BY <2>1, <2>3 DEF SizeInv, ReadInv
  <2>. QED
    BY <2>5, <2>6, <2>7 DEF IInv
<1>4. CASE UNCHANGED vars
  <2>1. UNCHANGED <<tool, max, source, changed, offset, page, got, status>>
    BY <1>4 DEF vars
  <2>2. Text(source)' = Text(source) /\ Sources' = Sources
    BY <2>1 DEF Text, Sources
  <2>3. TypeOK' /\ SizeInv' /\ ReadInv'
    BY <2>1, <2>2 DEF IInv, TypeOK, SizeInv, ReadInv, Answered
  <2>4. PageIsSlice'
    BY <2>1 DEF IInv, PageIsSlice, Answered, PprofPastEnd
  <2>. QED
    BY <2>3, <2>4 DEF IInv
<1>. QED
  BY <1>1, <1>2, <1>3, <1>4 DEF Next

\* The invariant holds in every reachable state.
THEOREM ReportsInductive == Spec => []IInv
<1>. QED
  BY InitIInv, Inductive, PTL DEF Spec

\* TypeOK for texts, pages and hosts of any size, and every largest int: in particular no
\* offset that a reader arrives at overflows.
THEOREM ReportsTypes == Spec => []TypeOK
<1>1. IInv => TypeOK
  BY DEF IInv
<1>. QED
  BY <1>1, ReportsInductive, PTL

\* PageIsSlice: the three ways to cut a page (delve; pprof; sshexec and sysinfo) give the
\* same lines short of the end of the text, with their numbers in the header; behind it
\* each gives what it gives, the page of pprof that starts again and the headers of empty
\* pages included, also where offset + max_lines wraps around.
THEOREM PagesAreSlices == Spec => []PageIsSlice
<1>1. IInv => PageIsSlice
  BY DEF IInv
<1>. QED
  BY <1>1, ReportsInductive, PTL

\* ReaderReadsAll: whoever follows the notices gets the whole text, each line once.
THEOREM ReaderGetsAll == Spec => []ReaderReadsAll
<1>1. IInv => ReaderReadsAll
  <2> SUFFICES ASSUME IInv, status = "done", ~changed PROVE got = Text(source)
    BY DEF ReaderReadsAll
  <2>1. offset = Len(Text(source)) /\ got = SubSeq(Text(source), 1, offset)
    BY DEF IInv, ReadInv
  <2>2. IsSeq(Text(source))
    <3>1. TypeOK /\ SizeInv /\ source \in Sources
      BY DEF IInv, TypeOK
    <3>. QED
      BY <3>1, TextFits DEF SizeInv
  <2>3. PICK S : Text(source) \in Seq(S)
    BY <2>2 DEF IsSeq
  <2>4. SubSeq(Text(source), 1, Len(Text(source))) = Text(source)
    BY <2>3, SubSeqFull
  <2>. QED
    BY <2>1, <2>4
<1>. QED
  BY <1>1, ReportsInductive, PTL

-----------------------------------------------------------------------------
(* sysinfo *)

\* Parts that add up to no more than the whole do so in MB, too.
LEMMA PartsInMB ==
    ASSUME NEW a \in Nat, NEW b \in Nat, NEW c \in Nat, a + b <= c
    PROVE  /\ a \div 1024 \in Nat /\ b \div 1024 \in Nat /\ c \div 1024 \in Nat
           /\ a \div 1024 + b \div 1024 <= c \div 1024
  OBVIOUS

\* What is made of /proc/meminfo adds up, on every host.
LEMMA MemorySum ==
    ASSUME NEW h, IsHost(h)
    PROVE  LET m == Memory(h.mem) IN
           /\ m.used + m.available = m.total
           /\ m.used \in 0..m.total /\ m.swapUsed \in 0..m.swapTotal
           /\ "available" \notin DOMAIN h.mem => m.used + m.free <= m.total
<1>1. \A entry : KB(h.mem, entry) \in Nat
  BY DEF IsHost, KB
<1>2. /\ MB(h.mem, "total") \in Nat /\ MB(h.mem, "free") \in Nat
      /\ MB(h.mem, "cached") \in Nat
      /\ MB(h.mem, "free") + MB(h.mem, "cached") <= MB(h.mem, "total")
  <2>1. KB(h.mem, "free") + KB(h.mem, "cached") <= KB(h.mem, "total")
    BY DEF IsHost
  <2>. QED
    BY <1>1, <2>1, PartsInMB DEF MB
<1>3. MB(h.mem, "available") \in Nat /\ MB(h.mem, "available") <= MB(h.mem, "total")
  <2>1. KB(h.mem, "available") + 0 <= KB(h.mem, "total") /\ 0 \in Nat
    BY <1>1 DEF IsHost
  <2>2. 0 \div 1024 = 0
    OBVIOUS
  <2>. QED
    BY <1>1, <2>1, <2>2, PartsInMB DEF MB
<1>4. /\ MB(h.mem, "swapTotal") \in Nat /\ MB(h.mem, "swapFree") \in Nat
      /\ MB(h.mem, "swapFree") <= MB(h.mem, "swapTotal")
  <2>1. KB(h.mem, "swapFree") + 0 <= KB(h.mem, "swapTotal") /\ 0 \in Nat
    BY <1>1 DEF IsHost
  <2>2. 0 \div 1024 = 0
    OBVIOUS
  <2>. QED
    BY <1>1, <2>1, <2>2, PartsInMB DEF MB
<1>5. Available(h.mem) \in Nat /\ Available(h.mem) <= MB(h.mem, "total")
  BY <1>2, <1>3 DEF Available
<1>6. "available" \notin DOMAIN h.mem =>
          Available(h.mem) = MB(h.mem, "free") + MB(h.mem, "cached")
  <2>1. 0 \div 1024 = 0
    OBVIOUS
  <2>. QED
    BY <2>1 DEF Available, MB, KB
<1> DEFINE m == Memory(h.mem)
<1>7. /\ m.total = MB(h.mem, "total") /\ m.available = Available(h.mem)
      /\ m.used = MB(h.mem, "total") - Available(h.mem) /\ m.free = MB(h.mem, "free")
      /\ m.swapTotal = MB(h.mem, "swapTotal")
      /\ m.swapUsed = MB(h.mem, "swapTotal") - MB(h.mem, "swapFree")
  BY DEF Memory, Used
<1>8. /\ m.used + m.available = m.total
      /\ m.used \in 0..m.total /\ m.swapUsed \in 0..m.swapTotal
      /\ "available" \notin DOMAIN h.mem => m.used + m.free <= m.total
  <2>. HIDE DEF m
  <2>. QED
    BY <1>2, <1>4, <1>5, <1>6, <1>7
<1>. QED
  BY <1>8

\* The number of threads or cores is the host's, or missing for a reason.
LEMMA CountIsTrue ==
    ASSUME NEW h, IsHost(h), NEW count \in {"threads", "cores"}
    PROVE  \/ Counted(h, count) = count
           \/ /\ Counted(h, count) = "0"
              /\ count \in h.broken \cup h.keyless \/ "cpuinfo" \in h.lacks
                   \/ (h.remote /\ h.noise)
<1>1. Counted(h, count) \in {count, "0"}
  BY DEF Counted
<1>2. ASSUME count \notin h.broken, count \notin h.keyless, "cpuinfo" \notin h.lacks,
             ~(h.remote /\ h.noise)
      PROVE  Counted(h, count) = count
  <2>1. File(count) = "cpuinfo"
    BY DEF File
  <2>2. ~Lacks(h, count)
    BY <1>2, <2>1 DEF Lacks
  <2>3. Succeeds(h, count) /\ ~Noisy(h, count)
    BY <1>2, <2>2 DEF Succeeds, Noisy
  <2>4. Noisy(h, count) = FALSE
    BY <2>3 DEF Noisy
  <2>5. Said(h, count) = <<count, FALSE>>
    BY <1>2, <2>2, <2>3, <2>4, Zenon DEF Said, FindsNothing
  <2>. QED
    BY <2>5 DEF Counted
<1>. QED
  BY <1>1, <1>2

\* The usage of the CPU, for all counters.
LEMMA UsageIsShare ==
    ASSUME NEW s1 \in [busy : Nat, idle : Nat], NEW s2 \in [busy : Nat, idle : Nat],
           Usage(s1, s2) # <<>>
    PROVE  /\ Usage(s1, s2)[1] >= 0 /\ Usage(s1, s2)[2] > 0
           /\ s1.idle <= s2.idle /\ s1.busy <= s2.busy
                => Usage(s1, s2)[1] <= 100 * Usage(s1, s2)[2]
<1> DEFINE used == s2.busy - s1.busy  total == used + s2.idle - s1.idle
<1>1. used \in Int /\ total \in Int
  OBVIOUS
<1>2. s1.idle <= s2.idle /\ s1.busy <= s2.busy => 0 <= used /\ used <= total
  OBVIOUS
<1>3. Usage(s1, s2) = IF total = 0 THEN <<0, 1>>
                      ELSE IF used * total < 0 THEN <<>>
                      ELSE IF total > 0 THEN <<used * 100, total>> ELSE <<-used * 100, -total>>
  BY DEF Usage
<1>. HIDE DEF used, total
<1>4. CASE total = 0
  <2>1. Usage(s1, s2) = <<0, 1>>
    BY <1>3, <1>4
  <2>. QED
    BY <2>1
<1>5. CASE total > 0
  <2>1. ~(used * total < 0)
    BY <1>1, <1>3, <1>5
  <2>2. used >= 0
    BY <1>1, <1>5, <2>1
  <2>3. Usage(s1, s2) = <<used * 100, total>>
    BY <1>1, <1>3, <1>5, <2>1
  <2>. QED
    BY <1>1, <1>2, <1>5, <2>2, <2>3
<1>6. CASE total < 0
  <2>1. ~(used * total < 0)
    BY <1>1, <1>3, <1>6
  <2>2. used <= 0
    BY <1>1, <1>6, <2>1
  <2>3. Usage(s1, s2) = <<-used * 100, -total>>
    BY <1>1, <1>3, <1>6, <2>1
  <2>. QED
    BY <1>1, <1>2, <1>6, <2>2, <2>3
<1>. QED
  BY <1>1, <1>4, <1>5, <1>6

\* MemoryAddsUp: used and available memory add up, whatever the kernel leaves out.
THEOREM MemoryAlwaysAddsUp == Spec => []MemoryAddsUp
<1>1. IInv => MemoryAddsUp
  <2> SUFFICES ASSUME IInv, tool = "sysinfo" PROVE MemoryAddsUp
    BY DEF MemoryAddsUp
  <2>1. source \in Hosts
    BY DEF IInv, TypeOK, Sources
  <2>2. IsHost(source) /\ Info = Gather(source)
    BY <2>1, ReportsAssumption DEF Info, Gathered
  <2>3. CASE Info.memory = Memory(source.mem)
    BY <2>2, <2>3, MemorySum DEF MemoryAddsUp
  <2>4. CASE Info.memory = Unread
    BY <2>4 DEF MemoryAddsUp, Unread
  <2>5. Info.memory = Memory(source.mem) \/ Info.memory = Unread
    BY <2>2 DEF Gather
  <2>. QED
    BY <2>3, <2>4, <2>5
<1>. QED
  BY <1>1, ReportsInductive, PTL

\* FiguresAreTrue: whichever commands fail, a figure is the host's or missing for a reason.
THEOREM FiguresAlwaysTrue == Spec => []FiguresAreTrue
<1>1. IInv => FiguresAreTrue
  <2> SUFFICES ASSUME IInv, tool = "sysinfo" PROVE FiguresAreTrue
    BY Zenon DEF FiguresAreTrue
  <2>1. source \in Hosts
    BY DEF IInv, TypeOK, Sources
  <2>2. IsHost(source) /\ Info = Gather(source)
    BY <2>1, ReportsAssumption DEF Info, Gathered
  <2>3. \A count \in {"threads", "cores"} :
            \/ Info[count] = count
            \/ /\ Info[count] = "0"
               /\ count \in source.broken \cup source.keyless \/ "cpuinfo" \in source.lacks
                    \/ (source.remote /\ source.noise)
    <3>1. Info.threads = Counted(source, "threads") /\ Info.cores = Counted(source, "cores")
      BY <2>2 DEF Gather
    <3>. QED
      BY <2>2, <3>1, CountIsTrue
  <2>4. ASSUME Info.usage # <<>>
        PROVE  /\ {"stat1", "stat2", "sleep"} \cap source.broken = {}
               /\ Info.usage[1] >= 0 /\ Info.usage[2] > 0
               /\ source.stat1.idle <= source.stat2.idle /\ source.stat1.busy <= source.stat2.busy
                    => Info.usage[1] <= 100 * Info.usage[2]
    <3>1. /\ \A cmd \in {"stat1", "sleep", "stat2"} : Succeeds(source, cmd)
          /\ Info.usage = Usage(source.stat1, source.stat2)
      BY <2>2, <2>4 DEF Gather
    <3>2. \A cmd \in {"stat1", "sleep", "stat2"} : cmd \notin source.broken
      BY <3>1 DEF Succeeds
    <3>3. /\ source.stat1 \in [busy : Nat, idle : Nat]
          /\ source.stat2 \in [busy : Nat, idle : Nat]
      BY <2>2 DEF IsHost
    <3>. QED
      BY <2>4, <3>1, <3>2, <3>3, UsageIsShare
  <2>5. Info.os[1] = "" => \/ "os-release" \in source.lacks \cup source.keyless
                           \/ {"os-release", "uname_s"} \subseteq source.broken
    <3> SUFFICES ASSUME "os-release" \notin source.lacks \cup source.keyless,
                        ~({"os-release", "uname_s"} \subseteq source.broken)
                 PROVE  Info.os[1] # ""
      BY Zenon
    <3>1. /\ File("os-release") = "os-release" /\ File("uname_s") = "uname_s"
      BY DEF File
    <3>2. "uname_s" \notin source.lacks \cup source.keyless
      BY <2>2 DEF IsHost, Pipelines
    <3>3. /\ ~Lacks(source, "os-release") /\ ~FindsNothing(source, "os-release")
          /\ ~Lacks(source, "uname_s") /\ ~FindsNothing(source, "uname_s")
      BY <3>1, <3>2 DEF Lacks, FindsNothing
    <3>4. Info.os = IF Succeeds(source, "os-release") THEN Said(source, "os-release")
                    ELSE Said(source, "uname_s")
      BY <2>2 DEF Gather
    <3>5. CASE Succeeds(source, "os-release")
      <4>1. Info.os = <<"os-release", Noisy(source, "os-release")>>
        BY <3>3, <3>4, <3>5 DEF Said
      <4>. QED
        BY <4>1
    <3>6. CASE ~Succeeds(source, "os-release")
      <4>1. Succeeds(source, "uname_s")
        BY <3>3, <3>6 DEF Succeeds
      <4>2. Info.os = <<"uname_s", Noisy(source, "uname_s")>>
        BY <3>3, <3>4, <3>6, <4>1 DEF Said
      <4>. QED
        BY <4>2
    <3>. QED
      BY <3>5, <3>6, Zenon
  <2>. QED
    BY <2>3, <2>4, <2>5, Zenon DEF FiguresAreTrue
<1>. QED
  BY <1>1, ReportsInductive, PTL

=============================================================================
