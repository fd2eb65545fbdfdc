------------------------- MODULE DelveChannel_proofs -------------------------
(***************************************************************************)
(* Proofs about the text channel of a Delve session, for any number of     *)
(* commands, any answers and any greeting: no line of dlv's output is      *)
(* delivered twice or out of order, a reader is leaked by a timeout only,  *)
(* and until the first timeout a successful reply is the answer to its     *)
(* own command.                                                            *)
(***************************************************************************)
EXTENDS DelveChannel, SequenceTheorems, TLAPS

-----------------------------------------------------------------------------
(* The inductive invariants *)

\* session.mu: a command starts when those before it have returned, and the reader of
\* one that has not started does not exist.
OrderInv ==
    /\ \A b, c \in Cmds : b < c /\ cmd[c] # "new" => cmd[b] \notin {"new", "waiting"}
    /\ \A c \in Cmds : cmd[c] = "new" => /\ rd[c] = "none" /\ reply[c] = <<>>
                                         /\ said[c] = <<>>

\* Commands wait in stdin in their order, not yet answered.
QueueInv ==
    /\ \A j, k \in 1..Len(stdin) : j < k => stdin[j] < stdin[k]
    /\ \A k \in 1..Len(stdin) : cmd[stdin[k]] # "new" /\ said[stdin[k]] = <<>>

\* A line of the greeting or of the answer to a command that dlv has taken.
Taken(l) ==
    /\ l.of \in Cmds => cmd[l.of] # "new"
    /\ \A k \in 1..Len(stdin) : l.of < stdin[k]

Sorted(s) == \A j, k \in 1..Len(s) : j < k => Before(s[j], s[k])
Precedes(s, t) == \A j \in 1..Len(s), k \in 1..Len(t) : Before(s[j], t[k])
FirstPrecede(m, s, t) == \A j \in 1..m, k \in 1..Len(t) : Before(s[j], t[k])

\* Lines move from pending to stdout to the replies, and keep their order.
FlowInv ==
    /\ \A k \in 1..Len(stdout) : Taken(stdout[k])
    /\ \A k \in 1..Len(pending) : Taken(pending[k])
    /\ Sorted(stdout) /\ Sorted(pending) /\ Precedes(stdout, pending)
    /\ \A c \in Cmds :
        /\ \A k \in 1..Len(reply[c]) : Taken(reply[c][k])
        /\ Precedes(reply[c], stdout) /\ Precedes(reply[c], pending)

\* What has gone wrong for good, and how a reader's success shows.
EndInv ==
    /\ ~alive => stdin = <<>> /\ pending = <<>>
    /\ \A c \in Cmds :
        /\ readErr[c] => closed
        /\ cmd[c] = "error" => ~alive \/ closed
        /\ cmd[c] = "ok" => rd[c] = "gone" /\ ~readErr[c]
        /\ rd[c] = "send" \/ cmd[c] = "ok" => ~alive \/ readErr[c] \/ reply[c] # <<>>

\* No earlier command has timed out or been taken to end early, and dlv greeted with
\* nothing: the hypothesis of ReplyIsOwnUnlessLate.
Undisturbed(c) ==
    said[0] = <<>> /\ \A b \in 1..(c - 1) : cmd[b] # "timeout" /\ EndsAtPrompt(b)

\* What has been collected for a command is the beginning of its answer.
Own(c) ==
    /\ Len(reply[c]) <= Len(said[c])
    /\ \A k \in 1..Len(reply[c]) : reply[c][k] = said[c][k]

\* While a command is being read, the pipe holds the rest of its answer, if dlv is
\* still there all of it, and nothing else.
Streaming(c) ==
    LET r == Len(reply[c])  o == Len(stdout)  p == Len(pending) IN
    /\ r + o + p <= Len(said[c]) /\ (alive => r + o + p = Len(said[c]))
    /\ \A k \in 1..r : ~reply[c][k].prompt
    /\ \A k \in 1..o : stdout[k] = said[c][r + k]
    /\ \A k \in 1..p : pending[k] = said[c][r + o + k]
    /\ \A k \in 1..Len(stdin) : stdin[k] = c

Drained == stdin = <<>> /\ stdout = <<>> /\ pending = <<>>

Latest(c) == \A d \in (c + 1)..N : cmd[d] = "new"

\* Until a command is disturbed, what is read for it is its own, and it leaves the
\* pipe empty.
StartInv == said[0] = <<>> /\ (\A c \in Cmds : cmd[c] = "new") => Drained

Read(c) == rd[c] = "send" \/ cmd[c] = "ok"

OwnAt(c) ==
    /\ Own(c)
    /\ rd[c] \in {"enter", "read"} => Streaming(c)
    /\ Read(c) /\ alive /\ ~readErr[c] /\ EndsAtPrompt(c) =>
        /\ Len(reply[c]) = Len(said[c])
        /\ Latest(c) => Drained

OwnInv ==
    \A c \in Cmds : cmd[c] \in {"waiting", "ok"} /\ Undisturbed(c) => OwnAt(c)

Safe == TypeOK /\ LeakOnlyByTimeout /\ OrderInv /\ QueueInv /\ EndInv

IInv == Safe /\ FlowInv /\ LinesDeliveredOnce /\ StartInv /\ OwnInv

-----------------------------------------------------------------------------
(* How the lines move *)

\* t is s without its first d elements.
Rest(s, t, d) ==
    /\ d \in Nat /\ Len(s) \in Nat /\ d <= Len(s) /\ Len(t) = Len(s) - d
    /\ \A k \in 1..Len(t) : t[k] = s[d + k]

\* t is r with the first m elements of s behind it.
Joined(r, s, m, t) ==
    /\ m \in Nat /\ Len(r) \in Nat /\ Len(s) \in Nat /\ m <= Len(s)
    /\ Len(t) = Len(r) + m
    /\ \A k \in 1..Len(r) : t[k] = r[k]
    /\ \A k \in 1..m : t[Len(r) + k] = s[k]

\* An answer is a sequence of lines of one command, numbered, as many as its shape has.
LEMMA TextLines ==
    ASSUME NEW c \in 0..N, NEW shape \in Seq(BOOLEAN)
    PROVE  /\ Text(c, shape) \in Seq(Lines) /\ Len(Text(c, shape)) = Len(shape)
           /\ \A k \in 1..Len(shape) : Text(c, shape)[k].of = c /\ Text(c, shape)[k].nr = k
<1>. DEFINE e(k) == [of |-> c, nr |-> k, prompt |-> shape[k]]
<1>1. Len(shape) \in Nat /\ \A k \in 1..Len(shape) : shape[k] \in BOOLEAN
  BY LenProperties, ElementOfSeq
<1>2. \A k \in 1..Len(shape) : e(k) \in Lines
  BY <1>1 DEF Lines
<1>3. [k \in 1..Len(shape) |-> e(k)] \in [1..Len(shape) -> Lines]
  BY <1>2
<1>4. Text(c, shape) = [k \in 1..Len(shape) |-> e(k)]
  BY DEF Text
<1>5. Text(c, shape) \in Seq(Lines)
  BY <1>1, <1>3, <1>4, SeqDef
<1>6. DOMAIN Text(c, shape) = 1..Len(shape) /\ Text(c, shape) \in [1..Len(shape) -> Lines]
  BY <1>3, <1>4
<1>7. Len(Text(c, shape)) = Len(shape)
  BY <1>1, <1>5, <1>6, LenProperties
<1>8. \A k \in 1..Len(shape) : e(k).of = c /\ e(k).nr = k
  OBVIOUS
<1>9. \A k \in 1..Len(shape) : Text(c, shape)[k] = e(k)
  BY <1>4
<1>. QED
  <2>. HIDE DEF e
  <2>. QED
    BY <1>5, <1>7, <1>8, <1>9

\* What a step of ReadChunk does: "kept" lines of stdout go behind the reply, the lines
\* up to the n-th are gone.
Chunk(c, n, kept) ==
    /\ n \in Nat /\ kept \in Nat /\ 1 <= kept /\ kept <= n
    /\ \A k \in 1..(kept - 1) : ~stdout[k].prompt
    /\ stdout[kept].prompt \/ kept = n
    /\ rd' = [rd EXCEPT ![c] = IF stdout[kept].prompt THEN "send" ELSE "enter"]
    /\ \A b \in Cmds : b # c => reply'[b] = reply[b]
    /\ reply' \in [Cmds -> Seq(Lines)] /\ stdout' \in Seq(Lines)
    /\ Joined(reply[c], stdout, kept, reply'[c])
    /\ Rest(stdout, stdout', n)

\* A ReadChunk moves a prefix of stdout to the end of the reply, and drops no more than
\* the chunk it has read.
LEMMA ChunkMoves ==
    ASSUME TypeOK, NEW c \in Cmds, ReadChunk(c)
    PROVE  \E n, kept : Chunk(c, n, kept)
<1>1. stdout \in Seq(Lines) /\ reply[c] \in Seq(Lines) /\ reply \in [Cmds -> Seq(Lines)]
  BY DEF TypeOK
<1>2. Len(stdout) \in Nat /\ Len(reply[c]) \in Nat
  BY <1>1, LenProperties
<1>3. PICK n \in 1..Len(stdout) : \E kept \in 1..n :
        /\ \A k \in 1..(kept - 1) : ~stdout[k].prompt
        /\ stdout[kept].prompt \/ kept = n
        /\ reply' = [reply EXCEPT ![c] = @ \o SubSeq(stdout, 1, kept)]
        /\ rd' = [rd EXCEPT ![c] = IF stdout[kept].prompt THEN "send" ELSE "enter"]
        /\ stdout' = SubSeq(stdout, n + 1, Len(stdout))
  BY DEF ReadChunk
<1>4. PICK kept \in 1..n :
        /\ \A k \in 1..(kept - 1) : ~stdout[k].prompt
        /\ stdout[kept].prompt \/ kept = n
        /\ reply' = [reply EXCEPT ![c] = @ \o SubSeq(stdout, 1, kept)]
        /\ rd' = [rd EXCEPT ![c] = IF stdout[kept].prompt THEN "send" ELSE "enter"]
        /\ stdout' = SubSeq(stdout, n + 1, Len(stdout))
  BY <1>3
<1>. DEFINE chunk == SubSeq(stdout, 1, kept)
<1>5. /\ n \in Nat /\ kept \in Nat /\ 1 <= kept /\ kept <= n
      /\ n <= Len(stdout) /\ kept <= Len(stdout) /\ Len(stdout) - n \in Nat
  BY <1>2
<1>6. /\ chunk \in Seq(Lines) /\ Len(chunk) = kept
      /\ \A k \in 1..kept : chunk[k] = stdout[k]
  <2>1. \A k \in 1..kept : stdout[k] \in Lines
    BY <1>1, <1>2, <1>5, ElementOfSeq
  <2>. QED
    BY <2>1, <1>5, SubSeqProperties
<1>7. /\ stdout' \in Seq(Lines) /\ Len(stdout') = Len(stdout) - n
      /\ \A k \in 1..(Len(stdout) - n) : stdout'[k] = stdout[n + k]
  <2>1. \A k \in (n + 1)..Len(stdout) : stdout[k] \in Lines
    BY <1>1, <1>2, <1>5, ElementOfSeq
  <2>. DEFINE lo == n + 1  hi == Len(stdout)  rest == SubSeq(stdout, lo, hi)
  <2>2. lo \in Int /\ hi \in Int /\ \A k \in lo..hi : stdout[k] \in Lines
    BY <1>2, <1>5, <2>1
  <2>3. /\ rest \in Seq(Lines) /\ Len(rest) = IF lo <= hi THEN hi - lo + 1 ELSE 0
        /\ \A k \in 1..(hi - lo + 1) : rest[k] = stdout[lo + k - 1]
    <3>. HIDE DEF lo, hi
    <3>. QED
      BY <2>2, SubSeqProperties
  <2>4. stdout' = rest
    BY <1>4
  <2>. QED
    <3>. HIDE DEF rest
    <3>. QED
      BY <2>3, <2>4, <1>2, <1>5
<1>8. /\ reply[c] \o chunk \in Seq(Lines) /\ Len(reply[c] \o chunk) = Len(reply[c]) + kept
      /\ \A k \in 1..(Len(reply[c]) + kept) : (reply[c] \o chunk)[k] =
            IF k <= Len(reply[c]) THEN reply[c][k] ELSE chunk[k - Len(reply[c])]
  <2>. DEFINE before == reply[c]
  <2>1. before \in Seq(Lines) /\ chunk \in Seq(Lines) /\ Len(chunk) = kept
    BY <1>1, <1>6
  <2>2. /\ before \o chunk \in Seq(Lines) /\ Len(before \o chunk) = Len(before) + kept
        /\ \A k \in 1..(Len(before) + kept) : (before \o chunk)[k] =
              IF k <= Len(before) THEN before[k] ELSE chunk[k - Len(before)]
    <3>. HIDE DEF chunk, before
    <3>. QED
      BY <2>1, ConcatProperties
  <2>. QED
    BY <2>2
<1>9. reply'[c] = reply[c] \o chunk
  BY <1>1, <1>4
<1>10. /\ Len(reply'[c]) = Len(reply[c]) + kept
       /\ \A k \in 1..Len(reply[c]) : reply'[c][k] = reply[c][k]
       /\ \A k \in 1..kept : reply'[c][Len(reply[c]) + k] = stdout[k]
  <2>. HIDE DEF chunk
  <2>. QED
    BY <1>2, <1>5, <1>6, <1>8, <1>9
<1>11. reply' \in [Cmds -> Seq(Lines)] /\ \A b \in Cmds : b # c => reply'[b] = reply[b]
  <2>. HIDE DEF chunk
  <2>1. reply' = [reply EXCEPT ![c] = reply[c] \o chunk]
    BY <1>4 DEF chunk
  <2>. QED
    BY <2>1, <1>1, <1>8
<1>12. /\ \A k \in 1..(kept - 1) : ~stdout[k].prompt
       /\ stdout[kept].prompt \/ kept = n
       /\ rd' = [rd EXCEPT ![c] = IF stdout[kept].prompt THEN "send" ELSE "enter"]
  BY <1>4
<1>13. \A k \in 1..Len(stdout') : stdout'[k] = stdout[n + k]
  BY <1>7
<1>14. Joined(reply[c], stdout, kept, reply'[c])
  BY <1>2, <1>5, <1>10 DEF Joined
<1>15. Rest(stdout, stdout', n)
  BY <1>2, <1>5, <1>7, <1>13 DEF Rest
<1>16. Chunk(c, n, kept)
  <2>. HIDE DEF chunk
  <2>. QED
    BY <1>5, <1>7, <1>11, <1>12, <1>14, <1>15 DEF Chunk
<1>. QED
  BY <1>16

\* What a step of DlvPrints does: the first pending line goes behind stdout.
LEMMA PrintMoves ==
    ASSUME TypeOK, DlvPrints
    PROVE  /\ stdout' \in Seq(Lines) /\ pending' \in Seq(Lines)
           /\ Joined(stdout, pending, 1, stdout') /\ Rest(pending, pending', 1)
<1>1. stdout \in Seq(Lines) /\ pending \in Seq(Lines) /\ pending # <<>>
  BY DEF TypeOK, DlvPrints
<1>2. Len(stdout) \in Nat /\ Len(pending) \in Nat \ {0}
  BY <1>1, LenProperties, EmptySeq
<1>3. Head(pending) = pending[1] /\ Head(pending) \in Lines
  BY <1>1, HeadTailProperties
<1>4. /\ Tail(pending) \in Seq(Lines) /\ Len(Tail(pending)) = Len(pending) - 1
      /\ \A k \in 1..Len(Tail(pending)) : Tail(pending)[k] = pending[k + 1]
  BY <1>1, HeadTailProperties
<1>5. /\ Append(stdout, pending[1]) \in Seq(Lines)
      /\ Len(Append(stdout, pending[1])) = Len(stdout) + 1
      /\ \A k \in 1..Len(stdout) : Append(stdout, pending[1])[k] = stdout[k]
      /\ Append(stdout, pending[1])[Len(stdout) + 1] = pending[1]
  BY <1>1, <1>3, AppendProperties
<1>6. stdout' = Append(stdout, pending[1]) /\ pending' = Tail(pending)
  BY <1>3 DEF DlvPrints
<1>7. Joined(stdout, pending, 1, stdout')
  BY <1>2, <1>5, <1>6 DEF Joined
<1>8. Rest(pending, pending', 1)
  <2>1. \A k \in 1..Len(pending') : pending'[k] = pending[1 + k]
    BY <1>4, <1>6
  <2>. QED
    BY <1>2, <1>4, <1>6, <2>1 DEF Rest
<1>. QED
  BY <1>4, <1>5, <1>6, <1>7, <1>8

\* What a step of DlvTakes does: the first command in stdin gets its answer.
Take(c) ==
    /\ c \in Cmds /\ c = stdin[1] /\ Len(stdin) \in Nat \ {0}
    /\ pending' \in Seq(Lines) /\ Len(pending') \in Nat \ {0}
    /\ \A k \in 1..Len(pending') : pending'[k].of = c /\ pending'[k].nr = k
    /\ said' = [said EXCEPT ![c] = pending']
    /\ stdin' \in Seq(Cmds) /\ Rest(stdin, stdin', 1)

\* DlvTakes takes the oldest line of stdin and answers it with lines of its own, numbered.
LEMMA TakeMoves ==
    ASSUME TypeOK, DlvTakes
    PROVE  \E c : Take(c)
<1>1. stdin \in Seq(Cmds) /\ stdin # <<>>
  BY DEF TypeOK, DlvTakes
<1>2. Head(stdin) = stdin[1] /\ Head(stdin) \in Cmds /\ Len(stdin) \in Nat \ {0}
  BY <1>1, HeadTailProperties, EmptySeq
<1>3. /\ Tail(stdin) \in Seq(Cmds) /\ Len(Tail(stdin)) = Len(stdin) - 1
      /\ \A k \in 1..Len(Tail(stdin)) : Tail(stdin)[k] = stdin[k + 1]
  BY <1>1, HeadTailProperties
<1>4. PICK shape \in Responses : /\ pending' = Text(Head(stdin), shape)
                                 /\ said' = [said EXCEPT ![Head(stdin)] = pending']
  BY DEF DlvTakes
<1>5. shape \in Seq(BOOLEAN) /\ Len(shape) \in Nat \ {0}
  BY EmptySeq, ChannelAssumption
<1>6. Head(stdin) \in 0..N
  BY <1>2, ChannelAssumption DEF Cmds
<1>7. /\ pending' \in Seq(Lines) /\ Len(pending') = Len(shape)
      /\ \A k \in 1..Len(pending') : pending'[k].of = stdin[1] /\ pending'[k].nr = k
  BY <1>2, <1>4, <1>5, <1>6, TextLines
<1>8. stdin' = Tail(stdin)
  BY DEF DlvTakes
<1>9. Rest(stdin, stdin', 1)
  <2>1. \A k \in 1..Len(stdin') : stdin'[k] = stdin[1 + k]
    BY <1>3, <1>8
  <2>. QED
    BY <1>2, <1>3, <1>8, <2>1 DEF Rest
<1>10. Take(stdin[1])
  BY <1>2, <1>3, <1>4, <1>5, <1>7, <1>8, <1>9 DEF Take
<1>. QED
  BY <1>10

\* What a step of Send does to stdin.
LEMMA SendMoves ==
    ASSUME TypeOK, NEW c \in Cmds, Send(c)
    PROVE  /\ stdin' \in Seq(Cmds) /\ Len(stdin) \in Nat /\ Len(stdin') = Len(stdin) + 1
           /\ \A k \in 1..Len(stdin) : stdin'[k] = stdin[k]
           /\ stdin'[Len(stdin) + 1] = c
<1>1. stdin \in Seq(Cmds) /\ stdin' = Append(stdin, c)
  BY DEF TypeOK, Send
<1>. QED
  BY <1>1, AppendProperties, LenProperties

\* What is left when the first lines are gone is ordered as it was.
LEMMA RestOrder ==
    ASSUME NEW s, NEW t, NEW d, Rest(s, t, d)
    PROVE  /\ Sorted(s) => Sorted(t)
           /\ \A u : Precedes(s, u) => Precedes(t, u)
           /\ \A u : Precedes(u, s) => Precedes(u, t)
           /\ \A k \in 1..Len(t) : d + k \in 1..Len(s) /\ t[k] = s[d + k]
           /\ Len(t) \in Nat
<1>1. \A k \in 1..Len(t) : d + k \in 1..Len(s) /\ t[k] = s[d + k]
  BY DEF Rest
<1>2. \A j, k \in 1..Len(t) : j < k => d + j < d + k
  BY DEF Rest
<1>3. Sorted(s) => Sorted(t)
  BY <1>1, <1>2 DEF Sorted
<1>4. \A u : Precedes(s, u) => Precedes(t, u)
  BY <1>1 DEF Precedes
<1>5. \A u : Precedes(u, s) => Precedes(u, t)
  BY <1>1 DEF Precedes
<1>6. Len(t) \in Nat
  BY DEF Rest
<1>. QED
  BY <1>1, <1>3, <1>4, <1>5, <1>6

\* Each line of what is joined comes from one of the two parts.
LEMMA JoinedFrom ==
    ASSUME NEW r, NEW s, NEW m, NEW t, Joined(r, s, m, t)
    PROVE  /\ \A k \in 1..Len(t) : \/ k \in 1..Len(r) /\ t[k] = r[k]
                                   \/ \E j \in 1..m : k = Len(r) + j /\ t[k] = s[j]
           /\ \A j \in 1..m : j \in 1..Len(s)
<1>. USE DEF Joined
<1>1. \A k \in 1..Len(t) : \/ k \in 1..Len(r) /\ t[k] = r[k]
                           \/ \E j \in 1..m : k = Len(r) + j /\ t[k] = s[j]
  <2>1. TAKE k \in 1..Len(t)
  <2>2. CASE k <= Len(r)
    BY <2>2
  <2>3. CASE Len(r) < k
    <3>1. k - Len(r) \in 1..m /\ k = Len(r) + (k - Len(r))
      BY <2>3
    <3>2. t[k] = s[k - Len(r)]
      BY <3>1
    <3>. QED
      BY <3>1, <3>2
  <2>4. k \in Nat /\ (k <= Len(r) \/ Len(r) < k)
    OBVIOUS
  <2>. QED
    BY <2>2, <2>3, <2>4
<1>2. \A j \in 1..m : j \in 1..Len(s)
  OBVIOUS
<1>. QED
  BY <1>1, <1>2

\* The first m lines of s put behind r are ordered if they come after those of r.
LEMMA JoinedOrder ==
    ASSUME NEW r, NEW s, NEW m, NEW t, Joined(r, s, m, t)
    PROVE  /\ Sorted(r) /\ Sorted(s) /\ Precedes(r, s) => Sorted(t)
           /\ \A u : Precedes(r, u) /\ FirstPrecede(m, s, u) => Precedes(t, u)
           /\ \A u : Precedes(u, r) /\ Precedes(u, s) => Precedes(u, t)
<1>1. \A k \in 1..Len(t) : \/ k \in 1..Len(r) /\ t[k] = r[k]
                           \/ \E j \in 1..m : k = Len(r) + j /\ t[k] = s[j]
  BY JoinedFrom
<1>2. \A j \in 1..m : j \in 1..Len(s)
  BY JoinedFrom
<1>. USE DEF Joined
<1>3. ASSUME Sorted(r), Sorted(s), Precedes(r, s), NEW j \in 1..Len(t), NEW k \in 1..Len(t),
             j < k
      PROVE  Before(t[j], t[k])
  <2>1. CASE k \in 1..Len(r) /\ t[k] = r[k]
    <3>1. j \in 1..Len(r) /\ t[j] = r[j]
      BY <1>3, <2>1
    <3>. QED
      BY <1>3, <2>1, <3>1 DEF Sorted
  <2>2. ASSUME NEW i \in 1..m, k = Len(r) + i, t[k] = s[i]
        PROVE  Before(t[j], t[k])
    <3>1. CASE j \in 1..Len(r) /\ t[j] = r[j]
      BY <1>2, <1>3, <2>2, <3>1 DEF Precedes
    <3>2. ASSUME NEW h \in 1..m, j = Len(r) + h, t[j] = s[h]
          PROVE  Before(t[j], t[k])
      <4>1. h < i
        BY <1>3, <2>2, <3>2
      <4>. QED
        BY <1>2, <1>3, <2>2, <3>2, <4>1 DEF Sorted
    <3>. QED
      BY <1>1, <3>1, <3>2
  <2>. QED
    BY <1>1, <2>1, <2>2
<1>4. Sorted(r) /\ Sorted(s) /\ Precedes(r, s) => Sorted(t)
  BY <1>3 DEF Sorted
<1>5. \A u : Precedes(r, u) /\ FirstPrecede(m, s, u) => Precedes(t, u)
  BY <1>1 DEF Precedes, FirstPrecede
<1>6. \A u : Precedes(u, r) /\ Precedes(u, s) => Precedes(u, t)
  BY <1>1, <1>2 DEF Precedes
<1>. QED
  BY <1>4, <1>5, <1>6

-----------------------------------------------------------------------------
(* Each part is preserved by every step *)

\* Every step keeps the types.
LEMMA TypeStep ==
    ASSUME TypeOK, Next
    PROVE  TypeOK'
<1>. USE DEF TypeOK
<1>0. 0 \in 0..N /\ \A c \in Cmds : c \in 0..N
  BY ChannelAssumption DEF Cmds
<1>1. ASSUME NEW c \in Cmds, Send(c) PROVE TypeOK'
  BY <1>1, SendMoves DEF Send
<1>2. ASSUME NEW c \in Cmds, SendFails(c) \/ Receive(c) \/ Timeout(c) PROVE TypeOK'
  BY <1>2 DEF SendFails, Receive, Timeout, dlvVars
<1>3. ASSUME NEW c \in Cmds, EnterRead(c) \/ ReadEOF(c) \/ ReadClosed(c) PROVE TypeOK'
  BY <1>0, <1>3 DEF EnterRead, ReadEOF, ReadClosed, dlvVars
<1>4. ASSUME NEW c \in Cmds, ReadChunk(c) PROVE TypeOK'
  <2>1. PICK n, kept : Chunk(c, n, kept)
    BY <1>4, ChunkMoves
  <2>2. /\ rd' \in [Cmds -> {"none", "enter", "read", "send", "gone"}]
        /\ reply' \in [Cmds -> Seq(Lines)] /\ stdout' \in Seq(Lines)
    BY <2>1 DEF Chunk
  <2>3. fdLock' \in 0..N
    BY <1>0, <1>4 DEF ReadChunk
  <2>4. /\ cmd' = cmd /\ readErr' = readErr /\ stdin' = stdin /\ said' = said
        /\ pending' = pending /\ alive' = alive /\ closed' = closed
    BY <1>4 DEF ReadChunk, dlvVars
  <2>. QED
    BY <2>2, <2>3, <2>4
<1>5. CASE DlvTakes
  <2>1. PICK c : Take(c)
    BY <1>5, TakeMoves
  <2>2. stdin' \in Seq(Cmds) /\ pending' \in Seq(Lines) /\ said' \in [0..N -> Seq(Lines)]
    BY <2>1 DEF Take
  <2>. QED
    BY <1>5, <2>2 DEF DlvTakes, handlerVars
<1>6. CASE DlvPrints
  BY <1>6, PrintMoves DEF DlvPrints, handlerVars
<1>7. CASE DlvExits
  BY <1>7, EmptySeq DEF DlvExits, handlerVars
<1>8. CASE WaitCloses \/ CleanupCloses
  BY <1>8 DEF WaitCloses, CleanupCloses, handlerVars, dlvVars
<1>. QED
  BY <1>1, <1>2, <1>3, <1>4, <1>5, <1>6, <1>7, <1>8 DEF Next, Reader

\* Every step keeps readers to the commands that wait or have timed out.
LEMMA LeakStep ==
    ASSUME TypeOK, LeakOnlyByTimeout, Next
    PROVE  LeakOnlyByTimeout'
<1>. USE DEF TypeOK, LeakOnlyByTimeout
<1>1. ASSUME NEW c \in Cmds, Send(c) \/ SendFails(c) \/ Receive(c) \/ Timeout(c)
      PROVE  LeakOnlyByTimeout'
  BY <1>1 DEF Send, SendFails, Receive, Timeout, Next1, dlvVars
<1>2. ASSUME NEW c \in Cmds, EnterRead(c) \/ ReadEOF(c) \/ ReadClosed(c)
      PROVE  LeakOnlyByTimeout'
  BY <1>2 DEF EnterRead, ReadEOF, ReadClosed, dlvVars
<1>3. ASSUME NEW c \in Cmds, ReadChunk(c) PROVE LeakOnlyByTimeout'
  <2>1. PICK n, kept : Chunk(c, n, kept)
    BY <1>3, ChunkMoves
  <2>2. cmd' = cmd /\ rd[c] = "read"
    BY <1>3 DEF ReadChunk
  <2>. QED
    BY <2>1, <2>2 DEF Chunk
<1>4. CASE DlvTakes \/ DlvPrints \/ DlvExits \/ WaitCloses \/ CleanupCloses
  BY <1>4 DEF DlvTakes, DlvPrints, DlvExits, WaitCloses, CleanupCloses, handlerVars
<1>. QED
  BY <1>1, <1>2, <1>3, <1>4 DEF Next, Reader

\* Every step keeps the commands in their order, one at a time.
LEMMA OrderStep ==
    ASSUME TypeOK, LeakOnlyByTimeout, OrderInv, QueueInv, Next
    PROVE  OrderInv'
<1>. USE DEF TypeOK, OrderInv
<1>1. ASSUME NEW c \in Cmds, Send(c) \/ SendFails(c) PROVE OrderInv'
  <2>1. \A b \in Cmds : b # c => cmd'[b] = cmd[b] /\ rd'[b] = rd[b]
    BY <1>1 DEF Send, SendFails
  <2>2. cmd[c] = "new" /\ \A b \in 1..(c - 1) : cmd[b] \notin {"new", "waiting"}
    BY <1>1 DEF Send, SendFails, Next1
  <2>3. cmd'[c] # "new" /\ reply' = reply /\ said' = said
    BY <1>1 DEF Send, SendFails, dlvVars
  <2>4. \A a, b \in Cmds : a < b => a \in 1..(b - 1)
    BY ChannelAssumption DEF Cmds
  <2>. QED
    BY <2>1, <2>2, <2>3, <2>4
<1>2. ASSUME NEW c \in Cmds, Receive(c) \/ Timeout(c) PROVE OrderInv'
  BY <1>2 DEF Receive, Timeout, dlvVars
<1>3. ASSUME NEW c \in Cmds, EnterRead(c) \/ ReadEOF(c) \/ ReadClosed(c) PROVE OrderInv'
  BY <1>3 DEF EnterRead, ReadEOF, ReadClosed, dlvVars
<1>4. ASSUME NEW c \in Cmds, ReadChunk(c) PROVE OrderInv'
  <2>1. PICK n, kept : Chunk(c, n, kept)
    BY <1>4, ChunkMoves
  <2>2. cmd' = cmd /\ rd[c] = "read" /\ said' = said
    BY <1>4 DEF ReadChunk, dlvVars
  <2>. QED
    BY <2>1, <2>2 DEF Chunk
<1>5. CASE DlvTakes
  <2>1. PICK c : Take(c)
    BY <1>5, TakeMoves
  <2>2. cmd[c] # "new"
    BY <2>1 DEF QueueInv, Take
  <2>3. \A b \in Cmds : b # c => said'[b] = said[b]
    BY <2>1, ChannelAssumption DEF Take, Cmds
  <2>. QED
    BY <1>5, <2>2, <2>3 DEF DlvTakes, handlerVars
<1>6. CASE DlvPrints \/ DlvExits \/ WaitCloses \/ CleanupCloses
  BY <1>6 DEF DlvPrints, DlvExits, WaitCloses, CleanupCloses, handlerVars, dlvVars
<1>. QED
  BY <1>1, <1>2, <1>3, <1>4, <1>5, <1>6 DEF Next, Reader

\* Every step keeps the commands in stdin in their order, and unanswered.
LEMMA QueueStep ==
    ASSUME TypeOK, OrderInv, QueueInv, Next
    PROVE  QueueInv'
<1>. USE DEF QueueInv
<1>0. /\ Len(stdin) \in Nat /\ \A k \in 1..Len(stdin) : stdin[k] \in Cmds
      /\ cmd \in [Cmds -> {"new", "waiting", "ok", "error", "timeout"}]
      /\ DOMAIN said = 0..N
  BY LenProperties, ElementOfSeq DEF TypeOK
<1>1. ASSUME NEW c \in Cmds, Send(c) PROVE QueueInv'
  <2>1. /\ Len(stdin') = Len(stdin) + 1 /\ stdin'[Len(stdin) + 1] = c
        /\ \A k \in 1..Len(stdin) : stdin'[k] = stdin[k]
    BY <1>1, SendMoves
  <2>2. cmd[c] = "new" /\ cmd' = [cmd EXCEPT ![c] = "waiting"] /\ said' = said
    BY <1>1 DEF Send, Next1
  <2>3. said[c] = <<>>
    BY <2>2 DEF OrderInv
  <2>4. \A k \in 1..Len(stdin) : stdin[k] < c /\ stdin[k] # c
    <3>1. TAKE k \in 1..Len(stdin)
    <3>2. stdin[k] \in Cmds /\ cmd[stdin[k]] # "new" /\ cmd[c] = "new"
      BY <1>0, <2>2
    <3>3. ~(c < stdin[k])
      BY <3>2 DEF OrderInv
    <3>4. stdin[k] \in Nat /\ c \in Nat
      BY <3>2, ChannelAssumption DEF Cmds
    <3>. QED
      BY <3>2, <3>3, <3>4
  <2>5. \A k \in 1..Len(stdin') : k \in 1..Len(stdin) \/ k = Len(stdin) + 1
    BY <1>0, <2>1
  <2>6. \A k \in 1..Len(stdin') : cmd'[stdin'[k]] # "new" /\ said'[stdin'[k]] = <<>>
    BY <1>0, <2>1, <2>2, <2>3, <2>5
  <2>7. \A j, k \in 1..Len(stdin') : j < k => stdin'[j] < stdin'[k]
    <3>1. TAKE j, k \in 1..Len(stdin')
    <3>2. HAVE j < k
    <3>3. j \in 1..Len(stdin)
      BY <1>0, <2>1, <3>2
    <3>. QED
      BY <2>1, <2>4, <2>5, <3>2, <3>3
  <2>. QED
    BY <2>6, <2>7
<1>2. ASSUME NEW c \in Cmds, SendFails(c) \/ Receive(c) \/ Timeout(c) PROVE QueueInv'
  BY <1>0, <1>2 DEF SendFails, Receive, Timeout, dlvVars
<1>3. ASSUME NEW c \in Cmds, Reader(c) PROVE QueueInv'
  BY <1>3 DEF Reader, EnterRead, ReadChunk, ReadEOF, ReadClosed, dlvVars
<1>4. CASE DlvTakes
  <2>1. PICK c : Take(c)
    BY <1>4, TakeMoves
  <2>2. /\ Len(stdin') = Len(stdin) - 1
        /\ \A k \in 1..Len(stdin') : stdin'[k] = stdin[k + 1]
    <3>1. Rest(stdin, stdin', 1)
      BY <2>1 DEF Take
    <3>. QED
      BY <3>1 DEF Rest
  <2>3. cmd' = cmd
    BY <1>4 DEF DlvTakes, handlerVars
  <2>4. \A k \in 1..Len(stdin') : said'[stdin'[k]] = said[stdin[k + 1]]
    <3>1. TAKE k \in 1..Len(stdin')
    <3>2. k + 1 \in 1..Len(stdin) /\ 1 \in 1..Len(stdin) /\ 1 < k + 1
      BY <1>0, <2>2
    <3>3. stdin[k + 1] \in Cmds /\ stdin[1] \in Cmds /\ stdin[1] < stdin[k + 1]
      BY <1>0, <3>2
    <3>4. stdin[k + 1] \in Nat /\ stdin[1] \in Nat
      BY <3>3, ChannelAssumption DEF Cmds
    <3>5. stdin[k + 1] # c
      BY <2>1, <3>3, <3>4 DEF Take
    <3>6. said' = [said EXCEPT ![c] = pending']
      BY <2>1 DEF Take
    <3>. QED
      BY <2>2, <3>5, <3>6
  <2>5. \A k \in 1..Len(stdin') : k + 1 \in 1..Len(stdin)
    BY <1>0, <2>2
  <2>6. \A j, k \in 1..Len(stdin') : j < k => stdin'[j] < stdin'[k]
    <3>1. TAKE j, k \in 1..Len(stdin')
    <3>2. HAVE j < k
    <3>3. j + 1 < k + 1
      BY <1>0, <2>2, <3>2
    <3>. QED
      BY <2>2, <2>5, <3>3
  <2>7. \A k \in 1..Len(stdin') : cmd'[stdin'[k]] # "new" /\ said'[stdin'[k]] = <<>>
    BY <2>2, <2>3, <2>4, <2>5
  <2>. QED
    BY <2>6, <2>7
<1>5. CASE DlvExits
  BY <1>5 DEF DlvExits
<1>6. CASE DlvPrints \/ WaitCloses \/ CleanupCloses
  BY <1>6 DEF DlvPrints, WaitCloses, CleanupCloses, handlerVars, dlvVars
<1>. QED
  BY <1>1, <1>2, <1>3, <1>4, <1>5, <1>6 DEF Next

\* Every step keeps what dlv's end and the readers' ends leave behind.
LEMMA EndStep ==
    ASSUME TypeOK, LeakOnlyByTimeout, EndInv, Next
    PROVE  EndInv'
<1>. USE DEF EndInv
<1>0. /\ cmd \in [Cmds -> {"new", "waiting", "ok", "error", "timeout"}]
      /\ rd \in [Cmds -> {"none", "enter", "read", "send", "gone"}]
      /\ readErr \in [Cmds -> BOOLEAN]
  BY DEF TypeOK
<1>1. ASSUME NEW c \in Cmds, Send(c) PROVE EndInv'
  <2>1. rd[c] \notin {"enter", "read", "send"}
    BY <1>0, <1>1 DEF LeakOnlyByTimeout, Send, Next1
  <2>. QED
    BY <1>0, <1>1, <2>1 DEF Send
<1>2. ASSUME NEW c \in Cmds, SendFails(c) \/ Receive(c) \/ Timeout(c) PROVE EndInv'
  BY <1>0, <1>2 DEF SendFails, Receive, Timeout, Next1, dlvVars
<1>3. ASSUME NEW c \in Cmds, EnterRead(c) \/ ReadEOF(c) \/ ReadClosed(c) PROVE EndInv'
  <2>1. cmd[c] # "ok" /\ cmd' = cmd
    BY <1>3 DEF LeakOnlyByTimeout, EnterRead, ReadEOF, ReadClosed
  <2>. QED
    BY <1>0, <1>3, <2>1 DEF EnterRead, ReadEOF, ReadClosed, dlvVars
<1>4. ASSUME NEW c \in Cmds, ReadChunk(c) PROVE EndInv'
  <2>1. PICK n, kept : Chunk(c, n, kept)
    BY <1>4, ChunkMoves
  <2>2. cmd[c] # "ok"
    BY <1>4 DEF LeakOnlyByTimeout, ReadChunk
  <2>3. /\ cmd' = cmd /\ readErr' = readErr /\ stdin' = stdin /\ pending' = pending
        /\ alive' = alive /\ closed' = closed
    BY <1>4 DEF ReadChunk, dlvVars
  <2>4. reply'[c] # <<>>
    <3>1. Joined(reply[c], stdout, kept, reply'[c]) /\ 1 <= kept
      BY <2>1 DEF Chunk
    <3>2. Len(reply'[c]) # 0
      BY <3>1 DEF Joined
    <3>. QED
      BY <3>2, EmptySeq
  <2>5. \A b \in Cmds : b # c => rd'[b] = rd[b] /\ reply'[b] = reply[b]
    BY <1>0, <2>1 DEF Chunk
  <2>. QED
    BY <1>0, <2>2, <2>3, <2>4, <2>5
<1>5. CASE DlvTakes \/ DlvPrints \/ DlvExits \/ WaitCloses \/ CleanupCloses
  BY <1>0, <1>5
     DEF DlvTakes, DlvPrints, DlvExits, WaitCloses, CleanupCloses, handlerVars, dlvVars
<1>. QED
  BY <1>1, <1>2, <1>3, <1>4, <1>5 DEF Next, Reader

\* Every state has the types, the order of commands and the readers' bookkeeping.
LEMMA SafeInductive == Spec => []Safe
<1>1. Init => Safe
  <2>. SUFFICES ASSUME Init PROVE Safe
    OBVIOUS
  <2>0. \A c \in Cmds : c \in 0..N /\ c # 0
    BY ChannelAssumption DEF Cmds
  <2>1. PICK g \in Greetings :
          said = [c \in 0..N |-> IF c = 0 THEN Text(0, g) ELSE <<>>]
    BY DEF Init
  <2>2. g \in Seq(BOOLEAN) /\ 0 \in 0..N
    BY ChannelAssumption
  <2>3. Text(0, g) \in Seq(Lines)
    BY <2>2, TextLines
  <2>4. said \in [0..N -> Seq(Lines)] /\ said[0] = Text(0, g)
    BY <2>1, <2>2, <2>3, EmptySeq
  <2>5. TypeOK
    BY <2>2, <2>3, <2>4, EmptySeq DEF Init, TypeOK
  <2>6. LeakOnlyByTimeout
    BY DEF Init, LeakOnlyByTimeout
  <2>7. OrderInv
    BY <2>0, <2>1 DEF Init, OrderInv
  <2>8. QueueInv /\ EndInv
    BY EmptySeq DEF Init, QueueInv, EndInv
  <2>. QED
    BY <2>5, <2>6, <2>7, <2>8 DEF Safe
<1>2. Safe /\ [Next]_vars => Safe'
  <2>. SUFFICES ASSUME Safe, [Next]_vars PROVE Safe'
    OBVIOUS
  <2>1. CASE Next
    BY <2>1, TypeStep, LeakStep, OrderStep, QueueStep, EndStep DEF Safe
  <2>2. CASE UNCHANGED vars
    BY <2>2 DEF Safe, TypeOK, LeakOnlyByTimeout, OrderInv, QueueInv, EndInv, vars,
                handlerVars, dlvVars
  <2>. QED
    BY <2>1, <2>2
<1>. QED
  BY <1>1, <1>2, PTL DEF Spec

\* Steps that move no line and take no command keep the order of the lines.
LEMMA FlowStays ==
    ASSUME FlowInv, UNCHANGED <<stdin, stdout, pending, reply>>,
           \A b \in Cmds : cmd[b] # "new" => cmd'[b] # "new"
    PROVE  FlowInv'
<1>1. \A l : Taken(l) => (l.of \in Cmds => cmd'[l.of] # "new")
                         /\ \A k \in 1..Len(stdin) : l.of < stdin[k]
  BY DEF Taken
<1>2. \A k \in 1..Len(stdout) : Taken(stdout[k])'
  BY <1>1 DEF FlowInv, Taken
<1>3. \A k \in 1..Len(pending) : Taken(pending[k])'
  BY <1>1 DEF FlowInv, Taken
<1>4. \A c \in Cmds : \A k \in 1..Len(reply[c]) : Taken(reply[c][k])'
  BY <1>1 DEF FlowInv, Taken
<1>5. /\ Sorted(stdout') /\ Sorted(pending') /\ Precedes(stdout', pending')
      /\ \A c \in Cmds : Precedes(reply'[c], stdout') /\ Precedes(reply'[c], pending')
  BY DEF FlowInv
<1>. QED
  BY <1>2, <1>3, <1>4, <1>5 DEF FlowInv

\* LinesDeliveredOnce line by line, of any replies.
LEMMA Apart ==
    ASSUME NEW r
    PROVE  (\A b, c \in Cmds : b # c =>
              {r[b][k] : k \in 1..Len(r[b])} \cap {r[c][k] : k \in 1..Len(r[c])} = {})
           <=> (\A b, c \in Cmds : b # c =>
                  \A j \in 1..Len(r[b]), k \in 1..Len(r[c]) : r[b][j] # r[c][k])
<1>. DEFINE S(b) == {r[b][k] : k \in 1..Len(r[b])}
<1>1. ASSUME NEW b \in Cmds, NEW c \in Cmds, S(b) \cap S(c) = {},
             NEW j \in 1..Len(r[b]), NEW k \in 1..Len(r[c])
      PROVE  r[b][j] # r[c][k]
  <2>1. r[b][j] \in S(b) /\ r[c][k] \in S(c)
    OBVIOUS
  <2>. HIDE DEF S
  <2>. QED
    BY <1>1, <2>1
<1>2. ASSUME NEW b \in Cmds, NEW c \in Cmds,
             \A j \in 1..Len(r[b]), k \in 1..Len(r[c]) : r[b][j] # r[c][k]
      PROVE  S(b) \cap S(c) = {}
  <2>1. \A x \in S(b) : x \notin S(c)
    BY <1>2
  <2>. HIDE DEF S
  <2>. QED
    BY <2>1
<1>. QED
  BY <1>1, <1>2

\* Lines keep their order on their way, and none comes from a command that is still to
\* be taken.
LEMMA FlowStep ==
    ASSUME Safe, FlowInv, Next
    PROVE  FlowInv'
<1>0. /\ cmd \in [Cmds -> {"new", "waiting", "ok", "error", "timeout"}]
      /\ Len(stdin) \in Nat /\ Len(stdout) \in Nat /\ Len(pending) \in Nat
      /\ \A k \in 1..Len(stdin) : stdin[k] \in Cmds
      /\ \A c \in Cmds : Len(reply[c]) \in Nat /\ c \in Nat
  <2>1. \A c \in Cmds : c \in Nat
    BY ChannelAssumption DEF Cmds
  <2>. QED
    BY <2>1, LenProperties, ElementOfSeq DEF Safe, TypeOK
<1>1. ASSUME NEW c \in Cmds, Send(c) PROVE FlowInv'
  <2>1. /\ Len(stdin') = Len(stdin) + 1 /\ stdin'[Len(stdin) + 1] = c
        /\ \A k \in 1..Len(stdin) : stdin'[k] = stdin[k]
    BY <1>1, SendMoves DEF Safe
  <2>2. cmd[c] = "new" /\ cmd' = [cmd EXCEPT ![c] = "waiting"]
    BY <1>1 DEF Send, Next1
  <2>3. ASSUME NEW l \in Lines, Taken(l) PROVE Taken(l)'
    <3>1. l.of \in 0..N /\ l.of # c
      BY <2>2, <2>3 DEF Taken, Lines
    <3>2. l.of \in Cmds => ~(c < l.of)
      BY <2>2, <2>3 DEF Safe, OrderInv, Taken
    <3>3. l.of < c
      BY <3>1, <3>2, ChannelAssumption DEF Cmds
    <3>4. \A k \in 1..Len(stdin') : k \in 1..Len(stdin) \/ k = Len(stdin) + 1
      BY <1>0, <2>1
    <3>5. \A k \in 1..Len(stdin') : l.of < stdin'[k]
      BY <2>1, <2>3, <3>3, <3>4 DEF Taken
    <3>6. l.of \in Cmds => cmd'[l.of] # "new"
      BY <1>0, <2>2, <2>3 DEF Taken
    <3>. QED
      BY <3>5, <3>6 DEF Taken
  <2>4. /\ \A k \in 1..Len(stdout) : stdout[k] \in Lines
        /\ \A k \in 1..Len(pending) : pending[k] \in Lines
        /\ \A b \in Cmds : \A k \in 1..Len(reply[b]) : reply[b][k] \in Lines
    BY ElementOfSeq DEF Safe, TypeOK
  <2>5. stdout' = stdout /\ pending' = pending /\ reply' = reply
    BY <1>1 DEF Send
  <2>. QED
    BY <2>3, <2>4, <2>5 DEF FlowInv, Taken
<1>2. ASSUME NEW c \in Cmds, SendFails(c) \/ Receive(c) \/ Timeout(c) PROVE FlowInv'
  <2>1. UNCHANGED <<stdin, stdout, pending, reply>>
    BY <1>2 DEF SendFails, Receive, Timeout, dlvVars
  <2>2. \A b \in Cmds : cmd[b] # "new" => cmd'[b] # "new"
    BY <1>0, <1>2 DEF SendFails, Receive, Timeout
  <2>. QED
    BY <2>1, <2>2, FlowStays
<1>3. ASSUME NEW c \in Cmds, EnterRead(c) \/ ReadEOF(c) \/ ReadClosed(c) PROVE FlowInv'
  <2>1. UNCHANGED <<cmd, stdin, stdout, pending, reply>>
    BY <1>3 DEF EnterRead, ReadEOF, ReadClosed, dlvVars
  <2>. QED
    BY <2>1, FlowStays
<1>4. ASSUME NEW c \in Cmds, ReadChunk(c) PROVE FlowInv'
  <2>1. PICK n, kept : Chunk(c, n, kept)
    BY <1>4, ChunkMoves DEF Safe
  <2>2. cmd' = cmd /\ stdin' = stdin /\ pending' = pending
    BY <1>4 DEF ReadChunk, dlvVars
  <2>3. /\ n \in Nat /\ kept \in Nat /\ kept <= n
        /\ Joined(reply[c], stdout, kept, reply'[c]) /\ Rest(stdout, stdout', n)
        /\ \A b \in Cmds : b # c => reply'[b] = reply[b]
    BY <2>1 DEF Chunk
  <2>4. /\ Sorted(stdout) /\ Precedes(stdout, pending) /\ Sorted(pending)
        /\ \A b \in Cmds : Precedes(reply[b], stdout) /\ Precedes(reply[b], pending)
    BY DEF FlowInv
  <2>5. /\ Sorted(stdout') /\ Precedes(stdout', pending)
        /\ \A b \in Cmds : Precedes(reply[b], stdout')
        /\ \A k \in 1..Len(stdout') : n + k \in 1..Len(stdout) /\ stdout'[k] = stdout[n + k]
        /\ Len(stdout') \in Nat
    BY <2>3, <2>4, RestOrder
  <2>6. FirstPrecede(kept, stdout, stdout') /\ FirstPrecede(kept, stdout, pending)
    <3>1. \A j \in 1..kept : j \in 1..Len(stdout)
      BY <2>3, JoinedFrom
    <3>2. \A j \in 1..kept, k \in 1..Len(stdout') : j < n + k
      BY <2>3, <2>5
    <3>. QED
      BY <2>4, <2>5, <3>1, <3>2 DEF Sorted, Precedes, FirstPrecede
  <2>7. /\ Precedes(reply'[c], stdout') /\ Precedes(reply'[c], pending)
        /\ \A k \in 1..Len(reply'[c]) :
              \/ k \in 1..Len(reply[c]) /\ reply'[c][k] = reply[c][k]
              \/ \E j \in 1..kept : k = Len(reply[c]) + j /\ reply'[c][k] = stdout[j]
        /\ \A j \in 1..kept : j \in 1..Len(stdout)
    <3>. DEFINE r == reply[c]  t == reply'[c]
    <3>1. Joined(r, stdout, kept, t)
      BY <2>3
    <3>2. Precedes(r, stdout') /\ Precedes(r, pending)
      BY <2>4, <2>5
    <3>. HIDE DEF r, t
    <3>3. Precedes(t, stdout') /\ Precedes(t, pending)
      BY <2>6, <3>1, <3>2, JoinedOrder
    <3>4. /\ \A k \in 1..Len(t) : \/ k \in 1..Len(r) /\ t[k] = r[k]
                                  \/ \E j \in 1..kept : k = Len(r) + j /\ t[k] = stdout[j]
          /\ \A j \in 1..kept : j \in 1..Len(stdout)
      BY <3>1, JoinedFrom
    <3>. QED
      BY <3>3, <3>4 DEF r, t
  <2>8. \A b \in Cmds : Precedes(reply'[b], stdout') /\ Precedes(reply'[b], pending)
    BY <2>3, <2>4, <2>5, <2>7
  <2>9. \A k \in 1..Len(stdout') : Taken(stdout'[k])
    BY <2>5 DEF FlowInv
  <2>10. \A b \in Cmds : \A k \in 1..Len(reply'[b]) : Taken(reply'[b][k])
    <3>1. \A k \in 1..Len(reply'[c]) : Taken(reply'[c][k])
      BY <2>7 DEF FlowInv
    <3>. QED
      BY <2>3, <3>1 DEF FlowInv
  <2>11. \A k \in 1..Len(pending) : Taken(pending[k])
    BY DEF FlowInv
  <2>. QED
    BY <2>2, <2>4, <2>5, <2>8, <2>9, <2>10, <2>11 DEF FlowInv, Taken
<1>5. CASE DlvTakes
  <2>1. PICK c : Take(c)
    BY <1>5, TakeMoves DEF Safe
  <2>2. cmd' = cmd /\ stdout' = stdout /\ reply' = reply
    BY <1>5 DEF DlvTakes, handlerVars
  <2>3. /\ \A k \in 1..Len(stdin') : k + 1 \in 1..Len(stdin) /\ 1 < k + 1
                                     /\ stdin'[k] = stdin[k + 1]
        /\ 1 \in 1..Len(stdin) /\ c = stdin[1] /\ c \in Cmds /\ c \in Nat
    <3>1. Rest(stdin, stdin', 1) /\ c \in Cmds /\ c = stdin[1] /\ Len(stdin) \in Nat \ {0}
      BY <2>1 DEF Take
    <3>. QED
      BY <1>0, <3>1 DEF Rest
  <2>4. \A k \in 1..Len(stdin') : c < stdin'[k]
    BY <2>3 DEF Safe, QueueInv
  <2>5. cmd[c] # "new"
    BY <2>3 DEF Safe, QueueInv
  <2>6. /\ Len(pending') \in Nat
        /\ \A k \in 1..Len(pending') : pending'[k].of = c /\ pending'[k].nr = k
    BY <2>1 DEF Take
  <2>7. \A l : Taken(l) =>
            /\ l.of < c /\ (l.of \in Cmds => cmd'[l.of] # "new")
            /\ \A k \in 1..Len(stdin') : l.of < stdin'[k]
    BY <2>2, <2>3 DEF Taken
  <2>8. \A k \in 1..Len(pending') : Taken(pending[k])'
    BY <2>2, <2>4, <2>5, <2>6 DEF Taken
  <2>9. Sorted(pending')
    BY <2>6 DEF Sorted, Before
  <2>10. /\ \A k \in 1..Len(stdout) : stdout[k].of < c
         /\ \A b \in Cmds : \A k \in 1..Len(reply[b]) : reply[b][k].of < c
    BY <2>7 DEF FlowInv
  <2>11. Precedes(stdout, pending')
    BY <2>6, <2>10 DEF Precedes, Before
  <2>12. \A b \in Cmds : Precedes(reply[b], pending')
    BY <2>6, <2>10 DEF Precedes, Before
  <2>13. \A k \in 1..Len(stdout) : Taken(stdout[k])'
    BY <2>2, <2>7 DEF Taken, FlowInv
  <2>14. \A b \in Cmds : \A k \in 1..Len(reply[b]) : Taken(reply[b][k])'
    BY <2>2, <2>7 DEF Taken, FlowInv
  <2>. QED
    BY <2>2, <2>8, <2>9, <2>11, <2>12, <2>13, <2>14 DEF FlowInv
<1>6. CASE DlvPrints
  <2>1. Joined(stdout, pending, 1, stdout') /\ Rest(pending, pending', 1)
    BY <1>6, PrintMoves DEF Safe
  <2>2. cmd' = cmd /\ stdin' = stdin /\ reply' = reply
    BY <1>6 DEF DlvPrints, handlerVars
  <2>3. /\ Sorted(stdout) /\ Precedes(stdout, pending) /\ Sorted(pending)
        /\ \A b \in Cmds : Precedes(reply[b], stdout) /\ Precedes(reply[b], pending)
    BY DEF FlowInv
  <2>4. /\ Sorted(pending') /\ Precedes(stdout, pending')
        /\ \A b \in Cmds : Precedes(reply[b], pending')
        /\ \A k \in 1..Len(pending') : 1 + k \in 1..Len(pending) /\ pending'[k] = pending[1 + k]
        /\ Len(pending') \in Nat
    BY <2>1, <2>3, RestOrder
  <2>5. FirstPrecede(1, pending, pending')
    <3>1. \A j \in 1..1 : j \in 1..Len(pending)
      BY <2>1, JoinedFrom
    <3>2. \A j \in 1..1, k \in 1..Len(pending') : j < 1 + k
      BY <2>4
    <3>. QED
      BY <2>3, <2>4, <3>1, <3>2 DEF Sorted, FirstPrecede
  <2>6. /\ Sorted(stdout') /\ Precedes(stdout', pending')
        /\ \A b \in Cmds : Precedes(reply[b], stdout')
        /\ \A k \in 1..Len(stdout') :
              \/ k \in 1..Len(stdout) /\ stdout'[k] = stdout[k]
              \/ \E j \in 1..1 : k = Len(stdout) + j /\ stdout'[k] = pending[j]
        /\ \A j \in 1..1 : j \in 1..Len(pending)
    BY <2>1, <2>3, <2>4, <2>5, JoinedOrder, JoinedFrom
  <2>7. /\ \A k \in 1..Len(stdout') : Taken(stdout'[k])
        /\ \A k \in 1..Len(pending') : Taken(pending'[k])
        /\ \A b \in Cmds : \A k \in 1..Len(reply[b]) : Taken(reply[b][k])
    BY <2>4, <2>6 DEF FlowInv
  <2>. QED
    BY <2>2, <2>4, <2>6, <2>7 DEF FlowInv, Taken
<1>7. CASE DlvExits
  <2>1. /\ cmd' = cmd /\ stdout' = stdout /\ reply' = reply
        /\ Len(stdin') = 0 /\ Len(pending') = 0
    BY <1>7, EmptySeq DEF DlvExits, handlerVars
  <2>2. 1..Len(stdin') = {} /\ 1..Len(pending') = {}
    BY <2>1
  <2>. QED
    BY <2>1, <2>2 DEF FlowInv, Taken, Sorted, Precedes
<1>8. CASE WaitCloses \/ CleanupCloses
  <2>1. UNCHANGED <<cmd, stdin, stdout, pending, reply>>
    BY <1>8 DEF WaitCloses, CleanupCloses, handlerVars, dlvVars
  <2>. QED
    BY <2>1, FlowStays
<1>. QED
  BY <1>1, <1>2, <1>3, <1>4, <1>5, <1>6, <1>7, <1>8 DEF Next, Reader

\* Steps that read nothing keep the replies in order and apart.
LEMMA OnceStays ==
    ASSUME LinesDeliveredOnce, reply' = reply
    PROVE  LinesDeliveredOnce'
<1>1. \A a, b \in Cmds : a # b =>
        \A j \in 1..Len(reply[a]), k \in 1..Len(reply[b]) : reply[a][j] # reply[b][k]
  BY Apart DEF LinesDeliveredOnce
<1>2. \A a, b \in Cmds : a # b => {reply'[a][k] : k \in 1..Len(reply'[a])}
                                    \cap {reply'[b][k] : k \in 1..Len(reply'[b])} = {}
  BY <1>1, Apart
<1>3. \A c \in Cmds : Sorted(reply'[c])
  BY DEF LinesDeliveredOnce, Sorted
<1>. QED
  BY <1>2, <1>3 DEF LinesDeliveredOnce, Sorted

\* Every step keeps the replies in order and apart, since what is read is later than
\* everything that has been read.
LEMMA OnceStep ==
    ASSUME Safe, FlowInv, LinesDeliveredOnce, Next
    PROVE  LinesDeliveredOnce'
<1>1. ASSUME NEW c \in Cmds, ReadChunk(c) PROVE LinesDeliveredOnce'
  <2>0. /\ Len(stdout) \in Nat /\ \A k \in 1..Len(stdout) : stdout[k] \in Lines
        /\ \A b \in Cmds : /\ Len(reply[b]) \in Nat
                           /\ \A k \in 1..Len(reply[b]) : reply[b][k] \in Lines
    BY LenProperties, ElementOfSeq DEF Safe, TypeOK
  <2>1. PICK n, kept : Chunk(c, n, kept)
    BY <1>1, ChunkMoves DEF Safe
  <2>2. /\ Joined(reply[c], stdout, kept, reply'[c])
        /\ \A b \in Cmds : b # c => reply'[b] = reply[b]
    BY <2>1 DEF Chunk
  <2>3. /\ Sorted(stdout) /\ \A b \in Cmds : Sorted(reply[b]) /\ Precedes(reply[b], stdout)
    BY DEF FlowInv, LinesDeliveredOnce, Sorted
  <2>4. /\ Sorted(reply'[c])
        /\ \A k \in 1..Len(reply'[c]) :
              \/ k \in 1..Len(reply[c]) /\ reply'[c][k] = reply[c][k]
              \/ \E j \in 1..kept : k = Len(reply[c]) + j /\ reply'[c][k] = stdout[j]
        /\ \A j \in 1..kept : j \in 1..Len(stdout)
    <3>. DEFINE r == reply[c]  t == reply'[c]
    <3>1. Joined(r, stdout, kept, t) /\ Sorted(r) /\ Precedes(r, stdout)
      BY <2>2, <2>3
    <3>. HIDE DEF r, t
    <3>2. Sorted(t)
      BY <2>3, <3>1, JoinedOrder
    <3>3. /\ \A k \in 1..Len(t) : \/ k \in 1..Len(r) /\ t[k] = r[k]
                                  \/ \E j \in 1..kept : k = Len(r) + j /\ t[k] = stdout[j]
          /\ \A j \in 1..kept : j \in 1..Len(stdout)
      BY <3>1, JoinedFrom
    <3>. QED
      BY <3>2, <3>3 DEF r, t
  <2>5. \A b \in Cmds : Sorted(reply'[b])
    BY <2>2, <2>3, <2>4
  <2>6. \A a, b \in Cmds : a # b =>
          \A j \in 1..Len(reply[a]), k \in 1..Len(reply[b]) : reply[a][j] # reply[b][k]
    BY Apart DEF LinesDeliveredOnce
  <2>7. \A b \in Cmds : b # c => \A j \in 1..Len(reply[b]), k \in 1..Len(reply'[c]) :
          reply[b][j] # reply'[c][k]
    <3>1. TAKE b \in Cmds
    <3>2. HAVE b # c
    <3>3. TAKE j \in 1..Len(reply[b]), k \in 1..Len(reply'[c])
    <3>4. CASE k \in 1..Len(reply[c]) /\ reply'[c][k] = reply[c][k]
      BY <2>6, <3>2, <3>4
    <3>5. ASSUME NEW i \in 1..kept, reply'[c][k] = stdout[i]
          PROVE  reply[b][j] # reply'[c][k]
      <4>1. i \in 1..Len(stdout)
        BY <2>4
      <4>2. Before(reply[b][j], stdout[i]) /\ reply[b][j] \in Lines
        BY <2>0, <2>3, <4>1 DEF Precedes
      <4>3. \A l \in Lines : ~Before(l, l)
        BY ChannelAssumption DEF Before, Lines
      <4>. QED
        BY <3>5, <4>2, <4>3
    <3>. QED
      BY <2>4, <3>4, <3>5
  <2>8. \A a, b \in Cmds : a # b =>
          \A j \in 1..Len(reply'[a]), k \in 1..Len(reply'[b]) : reply'[a][j] # reply'[b][k]
    <3>1. TAKE a, b \in Cmds
    <3>2. HAVE a # b
    <3>3. TAKE j \in 1..Len(reply'[a]), k \in 1..Len(reply'[b])
    <3>4. CASE a = c
      <4>1. reply'[b] = reply[b]
        BY <2>2, <3>2, <3>4
      <4>2. k \in 1..Len(reply[b])
        BY <4>1
      <4>. QED
        BY <2>7, <3>2, <3>4, <4>1, <4>2
    <3>5. CASE b = c
      <4>1. reply'[a] = reply[a]
        BY <2>2, <3>2, <3>5
      <4>2. j \in 1..Len(reply[a])
        BY <4>1
      <4>. QED
        BY <2>7, <3>2, <3>5, <4>1, <4>2
    <3>6. CASE a # c /\ b # c
      <4>1. reply'[a] = reply[a] /\ reply'[b] = reply[b]
        BY <2>2, <3>6
      <4>2. j \in 1..Len(reply[a]) /\ k \in 1..Len(reply[b])
        BY <4>1
      <4>. QED
        BY <2>6, <3>2, <4>1, <4>2
    <3>. QED
      BY <3>4, <3>5, <3>6
  <2>9. \A a, b \in Cmds : a # b => {reply'[a][k] : k \in 1..Len(reply'[a])}
                                      \cap {reply'[b][k] : k \in 1..Len(reply'[b])} = {}
    BY <2>8, Apart
  <2>. QED
    BY <2>5, <2>9 DEF LinesDeliveredOnce, Sorted
<1>2. ASSUME NEW c \in Cmds,
             \/ Send(c) \/ SendFails(c) \/ Receive(c) \/ Timeout(c)
             \/ EnterRead(c) \/ ReadEOF(c) \/ ReadClosed(c)
      PROVE  reply' = reply
  BY <1>2 DEF Send, SendFails, Receive, Timeout, EnterRead, ReadEOF, ReadClosed
<1>3. DlvTakes \/ DlvPrints \/ DlvExits \/ WaitCloses \/ CleanupCloses => reply' = reply
  BY DEF DlvTakes, DlvPrints, DlvExits, WaitCloses, CleanupCloses, handlerVars
<1>4. ASSUME reply' = reply PROVE LinesDeliveredOnce'
  BY <1>4, OnceStays
<1>. QED
  BY <1>1, <1>2, <1>3, <1>4 DEF Next, Reader

-----------------------------------------------------------------------------
(* Whose lines they are *)

\* What any step leaves: a command that has started has started, a timeout stays, and
\* an answer once given is not changed.
LEMMA Lasting ==
    ASSUME Safe, Next
    PROVE  /\ \A b \in Cmds : /\ cmd'[b] = "new" => cmd[b] = "new"
                              /\ cmd[b] = "timeout" => cmd'[b] = "timeout"
                              /\ said'[b] = said[b] \/ said[b] = <<>>
           /\ said'[0] = said[0]
<1>0. /\ cmd \in [Cmds -> {"new", "waiting", "ok", "error", "timeout"}]
      /\ \A b \in Cmds : b # 0
  BY ChannelAssumption DEF Safe, TypeOK, Cmds
<1>1. ASSUME NEW c \in Cmds, Send(c) \/ SendFails(c) \/ Receive(c) \/ Timeout(c)
      PROVE  /\ \A b \in Cmds : /\ cmd'[b] = "new" => cmd[b] = "new"
                                /\ cmd[b] = "timeout" => cmd'[b] = "timeout"
             /\ said' = said
  BY <1>0, <1>1 DEF Send, SendFails, Receive, Timeout, Next1, dlvVars
<1>2. ASSUME NEW c \in Cmds, Reader(c) PROVE cmd' = cmd /\ said' = said
  BY <1>2 DEF Reader, EnterRead, ReadChunk, ReadEOF, ReadClosed, dlvVars
<1>3. DlvPrints \/ DlvExits \/ WaitCloses \/ CleanupCloses => cmd' = cmd /\ said' = said
  BY DEF DlvPrints, DlvExits, WaitCloses, CleanupCloses, handlerVars, dlvVars
<1>4. CASE DlvTakes
  <2>1. PICK h : Take(h)
    BY <1>4, TakeMoves DEF Safe
  <2>2. h \in Cmds /\ said' = [said EXCEPT ![h] = pending'] /\ said[h] = <<>>
    BY <2>1 DEF Take, Safe, QueueInv
  <2>3. cmd' = cmd
    BY <1>4 DEF DlvTakes, handlerVars
  <2>. QED
    BY <1>0, <2>2, <2>3
<1>. QED
  BY <1>1, <1>2, <1>3, <1>4 DEF Next

\* A command that is not disturbed after a step was not before.
LEMMA UndisturbedBefore ==
    ASSUME Safe, Next, NEW c \in Cmds, Undisturbed(c)'
    PROVE  Undisturbed(c) /\ (Latest(c)' => Latest(c))
<1>0. \A b \in 1..(c - 1) : b \in Cmds
  BY ChannelAssumption DEF Cmds
<1>1. \A d \in (c + 1)..N : d \in Cmds
  BY ChannelAssumption DEF Cmds
<1>2. said[0] = <<>>
  BY Lasting DEF Undisturbed
<1>3. ASSUME NEW b \in 1..(c - 1) PROVE cmd[b] # "timeout" /\ EndsAtPrompt(b)
  <2>1. cmd'[b] # "timeout" /\ EndsAtPrompt(b)'
    BY DEF Undisturbed
  <2>2. cmd[b] # "timeout"
    BY <1>0, <2>1, Lasting
  <2>3. CASE said[b] = <<>>
    <3>1. 1..Len(said[b]) = {}
      BY <2>3, EmptySeq
    <3>. QED
      BY <2>2, <3>1 DEF EndsAtPrompt
  <2>4. CASE said'[b] = said[b]
    BY <2>1, <2>2, <2>4 DEF EndsAtPrompt
  <2>. QED
    BY <1>0, <2>3, <2>4, Lasting
<1>4. Latest(c)' => Latest(c)
  BY <1>1, Lasting DEF Latest
<1>. QED
  BY <1>2, <1>3, <1>4 DEF Undisturbed

\* While an undisturbed command is the last to have been sent, no reader but its own
\* is there.
LEMMA OnlyReader ==
    ASSUME Safe, NEW c \in Cmds, NEW d \in Cmds, Undisturbed(c), cmd[c] \in {"waiting", "ok"},
           cmd[c] = "waiting" \/ Latest(c), rd[d] \in {"enter", "read", "send"}
    PROVE  d = c
<1>1. cmd[d] \in {"waiting", "timeout"}
  BY DEF Safe, LeakOnlyByTimeout
<1>2. c \in Nat /\ d \in Nat /\ c <= N /\ d <= N /\ 1 <= c /\ 1 <= d /\ N \in Nat
  BY ChannelAssumption DEF Cmds
<1>3. CASE d < c
  <2>1. d \in 1..(c - 1)
    BY <1>2, <1>3
  <2>. QED
    BY <1>1, <1>3, <2>1 DEF Undisturbed, Safe, OrderInv
<1>4. CASE c < d
  <2>1. d \in (c + 1)..N
    BY <1>2, <1>4
  <2>. QED
    BY <1>1, <1>4, <2>1 DEF Latest, Safe, OrderInv
<1>. QED
  BY <1>2, <1>3, <1>4

\* Nothing is in the pipe before the first command.
LEMMA StartStep ==
    ASSUME Safe, StartInv, Next
    PROVE  StartInv'
<1>. SUFFICES ASSUME said'[0] = <<>>, \A c \in Cmds : cmd'[c] = "new"
              PROVE  Drained'
  BY DEF StartInv
<1>1. said[0] = <<>> /\ \A c \in Cmds : cmd[c] = "new"
  BY Lasting
<1>2. Drained
  BY <1>1 DEF StartInv
<1>3. \A c \in Cmds : rd[c] = "none"
  BY <1>1 DEF Safe, OrderInv
<1>4. ASSUME NEW c \in Cmds, Send(c) \/ SendFails(c) PROVE FALSE
  <2>1. cmd'[c] # "new"
    BY <1>4 DEF Send, SendFails, Safe, TypeOK
  <2>. QED
    BY <2>1
<1>5. ASSUME NEW c \in Cmds, Receive(c) \/ Timeout(c) \/ Reader(c) PROVE FALSE
  BY <1>1, <1>3, <1>5 DEF Receive, Timeout, Reader, EnterRead, ReadChunk, ReadEOF, ReadClosed
<1>6. ~DlvTakes /\ ~DlvPrints
  BY <1>2 DEF DlvTakes, DlvPrints, Drained
<1>7. CASE DlvExits \/ WaitCloses \/ CleanupCloses
  BY <1>2, <1>7 DEF DlvExits, WaitCloses, CleanupCloses, dlvVars, Drained
<1>. QED
  BY <1>4, <1>5, <1>6, <1>7 DEF Next

\* A command is sent into an empty pipe, if it is not disturbed.
LEMMA SentIntoEmpty ==
    ASSUME Safe, StartInv, OwnInv, NEW c \in Cmds, Undisturbed(c), Send(c)
    PROVE  Drained
<1>1. cmd[c] = "new" /\ alive /\ ~closed
      /\ \A b \in 1..(c - 1) : cmd[b] \notin {"new", "waiting"}
  BY DEF Send, Next1
<1>2. c \in Nat /\ 1 <= c /\ c <= N /\ N \in Nat
  BY ChannelAssumption DEF Cmds
<1>3. \A d \in Cmds : c < d => cmd[d] = "new"
  BY <1>1 DEF Safe, OrderInv
<1>4. CASE c = 1
  <2>1. \A d \in Cmds : d = c \/ c < d
    BY <1>4, ChannelAssumption DEF Cmds
  <2>2. \A d \in Cmds : cmd[d] = "new"
    BY <1>1, <1>3, <2>1
  <2>. QED
    BY <2>2 DEF StartInv, Undisturbed
<1>5. CASE c # 1
  <2>. DEFINE b == c - 1
  <2>1. b \in 1..(c - 1) /\ b \in Cmds
    BY <1>2, <1>5 DEF Cmds
  <2>2. cmd[b] \in {"new", "waiting", "ok", "error", "timeout"}
    BY <2>1 DEF Safe, TypeOK
  <2>3. cmd[b] # "timeout" /\ EndsAtPrompt(b)
    BY <2>1 DEF Undisturbed
  <2>4. cmd[b] # "error"
    BY <1>1, <2>1 DEF Safe, EndInv
  <2>5. cmd[b] = "ok" /\ ~readErr[b]
    BY <1>1, <2>1, <2>2, <2>3, <2>4 DEF Safe, EndInv
  <2>6. Undisturbed(b)
    <3>1. \A a \in 1..(b - 1) : a \in 1..(c - 1)
      BY <1>2
    <3>. QED
      BY <3>1 DEF Undisturbed
  <2>7. Latest(b)
    <3>1. \A d \in (b + 1)..N : d \in Cmds /\ (d = c \/ c < d)
      BY <1>2, <1>5 DEF Cmds
    <3>. QED
      BY <1>1, <1>3, <3>1 DEF Latest
  <2>8. OwnAt(b)
    BY <2>1, <2>5, <2>6 DEF OwnInv
  <2>. HIDE DEF b
  <2>. QED
    BY <1>1, <2>3, <2>5, <2>7, <2>8 DEF OwnAt, Read
<1>. QED
  BY <1>4, <1>5

\* What is read from the pipe goes behind what has been collected, and the pipe still
\* holds the rest; a prompt that only ends the answer leaves nothing.
LEMMA ChunkOwn ==
    ASSUME Safe, NEW c \in Cmds, cmd[c] = "waiting", OwnAt(c), ReadChunk(c)
    PROVE  OwnAt(c)'
<1>1. PICK n, kept : Chunk(c, n, kept)
  BY ChunkMoves DEF Safe
<1>. DEFINE r == reply[c]  t == reply'[c]  a == said[c]
<1>2. /\ said' = said /\ pending' = pending /\ stdin' = stdin /\ cmd' = cmd
      /\ alive' = alive /\ rd[c] = "read"
  BY DEF ReadChunk, dlvVars
<1>3. Own(c) /\ Streaming(c)
  BY <1>2 DEF OwnAt
<1>4. /\ n \in Nat /\ kept \in Nat /\ 1 <= kept /\ kept <= n
      /\ \A k \in 1..(kept - 1) : ~stdout[k].prompt
      /\ stdout[kept].prompt \/ kept = n
      /\ Joined(r, stdout, kept, t) /\ Rest(stdout, stdout', n)
      /\ rd'[c] = IF stdout[kept].prompt THEN "send" ELSE "enter"
  BY <1>1 DEF Chunk, Safe, TypeOK
<1>5. /\ Len(r) \in Nat /\ Len(stdout) \in Nat /\ n <= Len(stdout) /\ kept <= Len(stdout)
      /\ Len(t) = Len(r) + kept /\ Len(stdout') = Len(stdout) - n
  BY <1>4 DEF Joined, Rest
<1>6. Len(pending) \in Nat /\ Len(a) \in Nat /\ Len(stdin) \in Nat
  <2>1. c \in 0..N
    BY ChannelAssumption DEF Cmds
  <2>. QED
    BY <2>1, LenProperties DEF Safe, TypeOK
<1>7. /\ \A k \in 1..Len(t) : \/ k \in 1..Len(r) /\ t[k] = r[k]
                              \/ \E j \in 1..kept : k = Len(r) + j /\ t[k] = stdout[j]
      /\ \A j \in 1..kept : j \in 1..Len(stdout)
  <2>. HIDE DEF r, t
  <2>. QED
    BY <1>4, JoinedFrom
<1>8. \A k \in 1..Len(stdout') : n + k \in 1..Len(stdout) /\ stdout'[k] = stdout[n + k]
  BY <1>4, RestOrder
<1>9. /\ Len(r) + Len(stdout) + Len(pending) <= Len(a)
      /\ alive => Len(r) + Len(stdout) + Len(pending) = Len(a)
      /\ \A k \in 1..Len(r) : ~r[k].prompt /\ r[k] = a[k]
      /\ \A k \in 1..Len(stdout) : stdout[k] = a[Len(r) + k]
      /\ \A k \in 1..Len(pending) : pending[k] = a[Len(r) + Len(stdout) + k]
      /\ \A k \in 1..Len(stdin) : stdin[k] = c
  BY <1>3 DEF Own, Streaming
<1>10. Own(c)'
  <2>. HIDE DEF r, t, a
  <2>1. Len(t) <= Len(a)
    BY <1>4, <1>5, <1>6, <1>9
  <2>2. \A k \in 1..Len(t) : t[k] = a[k]
    BY <1>7, <1>9
  <2>. QED
    BY <1>2, <2>1, <2>2 DEF Own, r, t, a
<1>11. ASSUME rd'[c] \in {"enter", "read"} PROVE Streaming(c)'
  <2>. HIDE DEF r, t, a
  <2>1. kept = n /\ ~stdout[kept].prompt
    BY <1>4, <1>11
  <2>2. /\ Len(t) + Len(stdout') = Len(r) + Len(stdout)
        /\ Len(t) \in Nat /\ Len(stdout') \in Nat
    BY <1>5, <1>4, <2>1
  <2>3. \A j \in 1..kept : ~stdout[j].prompt
    <3>1. \A j \in 1..kept : j \in 1..(kept - 1) \/ j = kept
      BY <1>4
    <3>. QED
      BY <1>4, <2>1, <3>1
  <2>4. \A k \in 1..Len(t) : ~t[k].prompt
    BY <1>7, <1>9, <2>3
  <2>5. \A k \in 1..Len(stdout') : stdout'[k] = a[Len(t) + k]
    <3>1. TAKE k \in 1..Len(stdout')
    <3>2. stdout'[k] = a[Len(r) + (n + k)]
      BY <1>8, <1>9
    <3>3. Len(r) + (n + k) = Len(t) + k
      BY <1>4, <1>5, <2>1, <2>2
    <3>. QED
      BY <3>2, <3>3
  <2>6. \A k \in 1..Len(pending) : pending[k] = a[Len(t) + Len(stdout') + k]
    BY <1>9, <2>2
  <2>7. /\ Len(t) + Len(stdout') + Len(pending) <= Len(a)
        /\ alive => Len(t) + Len(stdout') + Len(pending) = Len(a)
    BY <1>9, <2>2
  <2>. QED
    BY <1>2, <1>9, <2>4, <2>5, <2>6, <2>7 DEF Streaming, t, a
<1>12. ASSUME Read(c)', alive, EndsAtPrompt(c)
       PROVE  Len(t) = Len(a) /\ Drained'
  <2>. HIDE DEF r, t, a
  <2>1. stdout[kept].prompt
    <3>1. cmd'[c] # "ok"
      BY <1>2
    <3>2. rd'[c] = "send"
      BY <1>12, <3>1 DEF Read
    <3>. QED
      BY <1>4, <3>2
  <2>2. kept \in 1..Len(stdout) /\ stdout[kept] = a[Len(r) + kept]
    <3>1. kept \in 1..Len(stdout)
      BY <1>4, <1>5
    <3>2. \A k \in 1..Len(stdout) : stdout[k] = a[Len(r) + k]
      BY <1>9
    <3>. QED
      BY <3>1, <3>2
  <2>3. Len(r) + kept \in 1..Len(a)
    BY <1>4, <1>5, <1>6, <1>9
  <2>4. Len(r) + kept = Len(a)
    BY <1>12, <2>1, <2>2, <2>3 DEF EndsAtPrompt, a
  <2>5. Len(pending) = 0 /\ Len(stdout') = 0 /\ Len(t) = Len(a) /\ Len(a) # 0
    <3>1. Len(r) + Len(stdout) + Len(pending) = Len(a)
      BY <1>9, <1>12
    <3>2. n \in Nat /\ kept \in Nat /\ 1 <= kept /\ kept <= n
      BY <1>4
    <3>3. /\ Len(r) \in Nat /\ Len(stdout) \in Nat /\ Len(pending) \in Nat /\ Len(a) \in Nat
      BY <1>6, <1>9, <3>1
    <3>. QED
      BY <1>5, <2>4, <3>1, <3>2, <3>3
  <2>6. 1..Len(stdin) = {}
    <3>1. \A k \in 1..Len(stdin) : Len(a) = 0
      BY <1>9, EmptySeq DEF Safe, QueueInv, a
    <3>. QED
      BY <2>5, <3>1
  <2>7. Len(stdin) = 0
    BY <1>6, <2>6
  <2>8. stdin = <<>> /\ pending = <<>> /\ stdout' = <<>>
    <3>1. stdin \in Seq(Cmds) /\ pending \in Seq(Lines) /\ stdout' \in Seq(Lines)
      BY <1>1 DEF Chunk, Safe, TypeOK
    <3>. QED
      BY <2>5, <2>7, <3>1, EmptySeq
  <2>. QED
    BY <1>2, <2>5, <2>8 DEF Drained
<1>13. EndsAtPrompt(c)' => EndsAtPrompt(c)
  BY <1>2 DEF EndsAtPrompt
<1>. QED
  BY <1>2, <1>10, <1>11, <1>12, <1>13 DEF OwnAt

\* Every step keeps undisturbed commands to their own answers.
LEMMA OwnStep ==
    ASSUME Safe, StartInv, OwnInv, Next
    PROVE  OwnInv'
<1>. SUFFICES ASSUME NEW c \in Cmds, cmd'[c] \in {"waiting", "ok"}, Undisturbed(c)'
              PROVE  OwnAt(c)'
  BY DEF OwnInv
<1>0. /\ cmd \in [Cmds -> {"new", "waiting", "ok", "error", "timeout"}]
      /\ rd \in [Cmds -> {"none", "enter", "read", "send", "gone"}]
      /\ readErr \in [Cmds -> BOOLEAN]
  BY DEF Safe, TypeOK
<1>1. Undisturbed(c) /\ (Latest(c)' => Latest(c))
  BY UndisturbedBefore
<1>2. CASE Send(c)
  <2>1. Drained
    BY <1>1, <1>2, SentIntoEmpty
  <2>2. reply[c] = <<>> /\ said[c] = <<>>
    BY <1>2 DEF Safe, OrderInv, Send, Next1
  <2>3. /\ reply' = reply /\ said' = said /\ stdout' = stdout /\ pending' = pending
        /\ rd'[c] = "enter" /\ cmd'[c] = "waiting"
    BY <1>0, <1>2 DEF Send
  <2>4. /\ Len(reply'[c]) = 0 /\ Len(said'[c]) = 0 /\ Len(stdout') = 0 /\ Len(pending') = 0
    BY <2>1, <2>2, <2>3, EmptySeq DEF Drained
  <2>5. \A k \in 1..Len(stdin') : stdin'[k] = c
    <3>1. Len(stdin') = 1 /\ stdin'[1] = c
      BY <1>2, <2>1, SendMoves, EmptySeq DEF Drained, Safe
    <3>. QED
      BY <3>1
  <2>6. Own(c)'
    BY <2>4 DEF Own
  <2>7. Streaming(c)'
    BY <2>4, <2>5 DEF Streaming
  <2>8. ~Read(c)'
    BY <2>3 DEF Read
  <2>. QED
    BY <2>6, <2>7, <2>8 DEF OwnAt
<1>3. CASE ~Send(c)
  <2>1. cmd[c] \in {"waiting", "ok"}
    <3>1. ASSUME NEW d \in Cmds, Send(d) \/ SendFails(d) \/ Receive(d) \/ Timeout(d)
          PROVE  cmd[c] \in {"waiting", "ok"}
      BY <1>0, <1>3, <3>1 DEF Send, SendFails, Receive, Timeout
    <3>2. ASSUME NEW d \in Cmds, Reader(d) PROVE cmd' = cmd
      BY <3>2 DEF Reader, EnterRead, ReadChunk, ReadEOF, ReadClosed
    <3>3. DlvTakes \/ DlvPrints \/ DlvExits \/ WaitCloses \/ CleanupCloses => cmd' = cmd
      BY DEF DlvTakes, DlvPrints, DlvExits, WaitCloses, CleanupCloses, handlerVars
    <3>. QED
      BY <3>1, <3>2, <3>3 DEF Next
  <2>2. OwnAt(c)
    BY <1>1, <2>1 DEF OwnInv
  <2>3. rd[c] \in {"enter", "read"} => cmd[c] = "waiting"
    BY <2>1 DEF Safe, LeakOnlyByTimeout
  <2>4. ASSUME NEW d \in Cmds, rd[d] \in {"enter", "read", "send"},
               cmd[c] = "waiting" \/ Latest(c)
        PROVE  d = c
    BY <1>1, <2>1, <2>4, OnlyReader
  <2>5. ASSUME NEW d \in Cmds, Send(d) \/ SendFails(d) PROVE OwnAt(c)'
    <3>1. /\ cmd[d] = "new" /\ \A b \in 1..(d - 1) : cmd[b] \notin {"new", "waiting"}
          /\ cmd'[d] # "new" /\ d # c
      BY <1>0, <2>1, <2>5 DEF Send, SendFails, Next1
    <3>2. c \in 1..(d - 1)
      BY <2>1, <3>1, ChannelAssumption DEF Safe, OrderInv, Cmds
    <3>3. ~Latest(c)'
      BY <3>1, <3>2, ChannelAssumption DEF Latest, Cmds
    <3>4. rd[c] \notin {"enter", "read"}
      BY <2>3, <3>1, <3>2
    <3>5. /\ reply' = reply /\ said' = said /\ alive' = alive /\ readErr' = readErr
          /\ rd'[c] = rd[c] /\ cmd'[c] = cmd[c]
      BY <1>0, <2>5, <3>1 DEF Send, SendFails, dlvVars
    <3>. QED
      BY <2>2, <3>3, <3>4, <3>5 DEF OwnAt, Own, Read, EndsAtPrompt
  <2>6. ASSUME UNCHANGED <<reply, said, stdout, pending, stdin, alive, readErr>>,
               rd'[c] \in {"enter", "read"} => rd[c] \in {"enter", "read"},
               Read(c)' => Read(c)
        PROVE  OwnAt(c)'
    BY <1>1, <2>2, <2>6 DEF OwnAt, Own, Streaming, EndsAtPrompt, Drained
  <2>7. ASSUME NEW d \in Cmds, Receive(d) \/ Timeout(d) \/ EnterRead(d) PROVE OwnAt(c)'
    <3>1. UNCHANGED <<reply, said, stdout, pending, stdin, alive, readErr>>
      BY <2>7 DEF Receive, Timeout, EnterRead, dlvVars
    <3>2. rd'[c] \in {"enter", "read"} => rd[c] \in {"enter", "read"}
      BY <1>0, <2>7 DEF Receive, Timeout, EnterRead
    <3>3. Read(c)' => Read(c)
      BY <1>0, <2>7 DEF Receive, Timeout, EnterRead, Read
    <3>. QED
      BY <2>6, <3>1, <3>2, <3>3
  <2>8. ASSUME NEW d \in Cmds, ReadChunk(d) PROVE OwnAt(c)'
    <3>1. CASE d = c
      BY <2>2, <2>3, <2>8, <3>1, ChunkOwn DEF ReadChunk
    <3>2. CASE d # c
      <4>1. rd[c] \notin {"enter", "read"} /\ ~Latest(c)
        BY <2>3, <2>4, <2>8, <3>2 DEF ReadChunk
      <4>2. PICK n, kept : Chunk(d, n, kept)
        BY <2>8, ChunkMoves DEF Safe
      <4>3. reply'[c] = reply[c] /\ rd'[c] = rd[c]
        BY <1>0, <3>2, <4>2 DEF Chunk
      <4>4. said' = said /\ alive' = alive /\ readErr' = readErr /\ cmd' = cmd
        BY <2>8 DEF ReadChunk, dlvVars
      <4>. QED
        BY <1>1, <2>2, <4>1, <4>3, <4>4 DEF OwnAt, Own, Read, EndsAtPrompt
    <3>. QED
      BY <3>1, <3>2
  <2>9. ASSUME NEW d \in Cmds, ReadEOF(d) \/ ReadClosed(d) PROVE OwnAt(c)'
    <3>1. UNCHANGED <<reply, said, stdout, pending, stdin, alive, cmd>>
      BY <2>9 DEF ReadEOF, ReadClosed, dlvVars
    <3>2. CASE d = c
      <4>1. ~alive' \/ readErr'[c]
        BY <1>0, <2>9, <3>1, <3>2 DEF ReadEOF, ReadClosed
      <4>2. rd'[c] = "send"
        BY <1>0, <2>9, <3>2 DEF ReadEOF, ReadClosed
      <4>. QED
        BY <2>2, <3>1, <4>1, <4>2 DEF OwnAt, Own
    <3>3. CASE d # c
      <4>1. rd'[c] = rd[c] /\ readErr'[c] = readErr[c]
        BY <1>0, <2>9, <3>3 DEF ReadEOF, ReadClosed
      <4>. QED
        BY <1>1, <2>2, <3>1, <4>1 DEF OwnAt, Own, Streaming, EndsAtPrompt, Drained, Read
    <3>. QED
      BY <3>2, <3>3
  <2>10. CASE DlvTakes
    <3>1. PICK h : Take(h)
      BY <2>10, TakeMoves DEF Safe
    <3>2. /\ h \in Cmds /\ h = stdin[1] /\ said' = [said EXCEPT ![h] = pending']
          /\ Rest(stdin, stdin', 1) /\ 1 \in 1..Len(stdin) /\ said[h] = <<>>
      BY <3>1 DEF Take, Safe, QueueInv
    <3>3. /\ cmd' = cmd /\ rd' = rd /\ reply' = reply /\ readErr' = readErr
          /\ stdout' = stdout /\ alive' = alive /\ alive /\ pending = <<>> /\ stdin # <<>>
      BY <2>10 DEF DlvTakes, handlerVars
    <3>4. CASE h = c
      <4>1. Len(said[c]) = 0 /\ Len(reply[c]) = 0 /\ Own(c) /\ reply[c] = <<>>
        BY <2>2, <3>2, <3>4, EmptySeq, LenProperties DEF OwnAt, Own, Safe, TypeOK
      <4>2. said'[c] = pending' /\ Len(pending') \in Nat
        <5>1. c \in 0..N
          BY ChannelAssumption DEF Cmds
        <5>. QED
          BY <3>1, <3>2, <3>4, <5>1 DEF Take, Safe, TypeOK
      <4>3. Own(c)'
        BY <3>3, <4>1, <4>2 DEF Own
      <4>4. ASSUME rd[c] \in {"enter", "read"} PROVE Streaming(c)'
        <5>1. Streaming(c)
          BY <2>2, <4>4 DEF OwnAt
        <5>2. Len(stdout) = 0
          BY <4>1, <5>1, LenProperties, EmptySeq, <3>3 DEF Streaming, Safe, TypeOK
        <5>3. \A k \in 1..Len(stdin') : stdin'[k] = c
          <6>1. \A k \in 1..Len(stdin) : stdin[k] = c
            BY <5>1 DEF Streaming
          <6>2. \A k \in 1..Len(stdin') : 1 + k \in 1..Len(stdin) /\ stdin'[k] = stdin[1 + k]
            <7>1. Rest(stdin, stdin', 1)
              BY <3>2
            <7>. QED
              BY <7>1, RestOrder
          <6>. QED
            BY <6>1, <6>2
        <5>. QED
          BY <3>3, <4>1, <4>2, <5>2, <5>3 DEF Streaming
      <4>5. ~(Read(c)' /\ alive' /\ ~readErr'[c])
        BY <3>3, <4>1 DEF Read, Safe, EndInv
      <4>. QED
        BY <3>3, <4>3, <4>4, <4>5 DEF OwnAt
    <3>5. CASE h # c
      <4>1. said'[c] = said[c]
        BY <3>2, <3>5
      <4>2. rd[c] \notin {"enter", "read"}
        BY <2>2, <3>2, <3>5 DEF OwnAt, Streaming
      <4>3. ~Drained
        BY <3>3 DEF Drained
      <4>. QED
        BY <1>1, <2>2, <3>3, <4>1, <4>2, <4>3 DEF OwnAt, Own, Read, EndsAtPrompt
    <3>. QED
      BY <3>4, <3>5
  <2>11. CASE DlvPrints
    <3>1. Joined(stdout, pending, 1, stdout') /\ Rest(pending, pending', 1)
      BY <2>11, PrintMoves DEF Safe
    <3>2. /\ cmd' = cmd /\ rd' = rd /\ reply' = reply /\ readErr' = readErr
          /\ said' = said /\ stdin' = stdin /\ alive' = alive /\ pending # <<>>
      BY <2>11 DEF DlvPrints, handlerVars
    <3>3. ASSUME rd[c] \in {"enter", "read"} PROVE Streaming(c)'
      <4>. DEFINE r == Len(reply[c])  o == Len(stdout)  p == Len(pending)
      <4>0. r \in Nat
        BY LenProperties DEF Safe, TypeOK
      <4>1. Streaming(c)
        BY <2>2, <3>3 DEF OwnAt
      <4>2. o \in Nat /\ p \in Nat /\ 1 <= p /\ Len(stdout') = o + 1 /\ Len(pending') = p - 1
        BY <3>1 DEF Joined, Rest
      <4>3. \A k \in 1..Len(stdout') : stdout'[k] = said[c][r + k]
        <5>1. TAKE k \in 1..Len(stdout')
        <5>2. CASE k \in 1..o /\ stdout'[k] = stdout[k]
          BY <4>1, <5>2 DEF Streaming
        <5>3. CASE k = o + 1 /\ stdout'[k] = pending[1]
          <6>1. 1 \in 1..p /\ r + o + 1 = r + k
            <7>. HIDE DEF r, o, p
            <7>. QED
              BY <4>0, <4>2, <5>3
          <6>2. pending[1] = said[c][r + o + 1]
            BY <4>1, <6>1 DEF Streaming
          <6>. QED
            BY <5>3, <6>1, <6>2
        <5>4. (k \in 1..o /\ stdout'[k] = stdout[k]) \/ (k = o + 1 /\ stdout'[k] = pending[1])
          BY <3>1, JoinedFrom
        <5>. QED
          BY <5>2, <5>3, <5>4
      <4>4. \A k \in 1..Len(pending') : pending'[k] = said[c][r + Len(stdout') + k]
        <5>1. TAKE k \in 1..Len(pending')
        <5>2. 1 + k \in 1..p /\ pending'[k] = pending[1 + k]
          BY <3>1, RestOrder
        <5>3. r + o + (1 + k) = r + Len(stdout') + k
          <6>. HIDE DEF r, o, p
          <6>. QED
            BY <4>0, <4>2
        <5>4. pending[1 + k] = said[c][r + o + (1 + k)]
          BY <4>1, <5>2 DEF Streaming
        <5>. QED
          BY <5>2, <5>3, <5>4
      <4>5. r + Len(stdout') + Len(pending') = r + o + p
        <5>. HIDE DEF r, o, p
        <5>. QED
          BY <4>0, <4>2
      <4>6. /\ r + o + p <= Len(said[c]) /\ (alive => r + o + p = Len(said[c]))
            /\ \A k \in 1..r : ~reply[c][k].prompt
            /\ \A k \in 1..Len(stdin) : stdin[k] = c
        BY <4>1 DEF Streaming
      <4>. QED
        BY <3>2, <4>3, <4>4, <4>5, <4>6 DEF Streaming
    <3>4. ~Drained
      BY <3>2 DEF Drained
    <3>. QED
      BY <1>1, <2>2, <3>2, <3>3, <3>4 DEF OwnAt, Own, Read, EndsAtPrompt
  <2>12. CASE DlvExits
    <3>1. /\ cmd' = cmd /\ rd' = rd /\ reply' = reply /\ readErr' = readErr
          /\ said' = said /\ stdout' = stdout /\ ~alive'
          /\ Len(stdin') = 0 /\ Len(pending') = 0
      BY <2>12, EmptySeq DEF DlvExits, handlerVars
    <3>2. Len(reply[c]) \in Nat /\ Len(stdout) \in Nat /\ Len(pending) \in Nat
          /\ Len(said[c]) \in Nat
      <4>1. c \in 0..N
        BY ChannelAssumption DEF Cmds
      <4>. QED
        BY <4>1, LenProperties DEF Safe, TypeOK
    <3>3. Streaming(c) => Streaming(c)'
      BY <3>1, <3>2 DEF Streaming
    <3>. QED
      BY <2>2, <3>1, <3>3 DEF OwnAt, Own
  <2>13. CASE WaitCloses \/ CleanupCloses
    <3>1. UNCHANGED <<reply, said, stdout, pending, stdin, alive, readErr, rd, cmd>>
      BY <2>13 DEF WaitCloses, CleanupCloses, handlerVars, dlvVars
    <3>. QED
      BY <2>6, <3>1 DEF Read
  <2>. QED
    BY <2>5, <2>7, <2>8, <2>9, <2>10, <2>11, <2>12, <2>13 DEF Next, Reader
<1>. QED
  BY <1>2, <1>3

-----------------------------------------------------------------------------
(* Theorems *)

\* Every state has the inductive invariant.
THEOREM ChannelInductive == Spec => []IInv
<1>1. Init => StartInv /\ OwnInv /\ FlowInv /\ LinesDeliveredOnce
  <2>. SUFFICES ASSUME Init PROVE StartInv /\ OwnInv /\ FlowInv /\ LinesDeliveredOnce
    OBVIOUS
  <2>1. StartInv /\ OwnInv
    BY DEF Init, StartInv, OwnInv, Drained
  <2>2. PICK g \in Greetings :
          said = [c \in 0..N |-> IF c = 0 THEN Text(0, g) ELSE <<>>]
    BY DEF Init
  <2>3. g \in Seq(BOOLEAN) /\ 0 \in 0..N
    BY ChannelAssumption
  <2>4. stdout = Text(0, g)
    BY <2>2, <2>3 DEF Init
  <2>5. /\ Len(stdout) \in Nat
        /\ \A k \in 1..Len(stdout) : stdout[k].of = 0 /\ stdout[k].nr = k
    BY <2>3, <2>4, TextLines, LenProperties
  <2>6. /\ \A c \in Cmds : reply[c] = <<>> /\ 1..Len(reply[c]) = {} /\ c # 0
        /\ 1..Len(stdin) = {} /\ 1..Len(pending) = {}
    BY EmptySeq, ChannelAssumption DEF Init, Cmds
  <2>7. \A k \in 1..Len(stdout) : Taken(stdout[k])
    BY <2>5, <2>6 DEF Taken
  <2>8. Sorted(stdout)
    BY <2>5 DEF Sorted, Before
  <2>9. FlowInv
    BY <2>6, <2>7, <2>8 DEF FlowInv, Sorted, Precedes
  <2>10. LinesDeliveredOnce
    BY <2>6 DEF LinesDeliveredOnce
  <2>. QED
    BY <2>1, <2>9, <2>10
<1>2. Safe /\ FlowInv /\ LinesDeliveredOnce /\ StartInv /\ OwnInv /\ [Next]_vars
        => FlowInv' /\ LinesDeliveredOnce' /\ StartInv' /\ OwnInv'
  <2>. SUFFICES ASSUME Safe, FlowInv, LinesDeliveredOnce, StartInv, OwnInv, [Next]_vars
                PROVE  FlowInv' /\ LinesDeliveredOnce' /\ StartInv' /\ OwnInv'
    OBVIOUS
  <2>1. CASE Next
    BY <2>1, FlowStep, OnceStep, StartStep, OwnStep
  <2>2. CASE UNCHANGED vars
    <3>1. UNCHANGED <<cmd, reply, rd, readErr, stdin, said, pending, stdout, alive>>
      BY <2>2 DEF vars, handlerVars, dlvVars
    <3>2. FlowInv'
      BY <3>1, FlowStays
    <3>3. LinesDeliveredOnce'
      BY <3>1, OnceStays
    <3>4. StartInv'
      BY <3>1 DEF StartInv, Drained
    <3>5. OwnInv'
      BY <3>1 DEF OwnInv, OwnAt, Own, Streaming, Read, Latest, Drained, Undisturbed,
                  EndsAtPrompt
    <3>. QED
      BY <3>2, <3>3, <3>4, <3>5
  <2>. QED
    BY <2>1, <2>2
<1>. QED
  BY <1>1, <1>2, SafeInductive, PTL DEF Spec, IInv

\* Type correctness of executeCommand's sessions, whatever dlv answers.
THEOREM ChannelTypes == Spec => []TypeOK
<1>1. IInv => TypeOK
  BY DEF IInv, Safe
<1>. QED
  BY <1>1, ChannelInductive, PTL

\* A goroutine of executeCommand outlives its call only by the timeout.
THEOREM LeaksAreTimeouts == Spec => []LeakOnlyByTimeout
<1>1. IInv => LeakOnlyByTimeout
  BY DEF IInv, Safe
<1>. QED
  BY <1>1, ChannelInductive, PTL

\* However many goroutines read the same pipe, each line dlv prints goes into one output
\* at most, and in order.
THEOREM LinesAreDeliveredOnce == Spec => []LinesDeliveredOnce
<1>1. IInv => LinesDeliveredOnce
  BY DEF IInv
<1>. QED
  BY <1>1, ChannelInductive, PTL

\* Until the first timeout, and as long as answers can be told apart, executeCommand
\* returns the answer to the command it sent.
THEOREM UndisturbedRepliesAreOwn == Spec => []ReplyIsOwnUnlessLate
<1>1. ASSUME IInv PROVE ReplyIsOwnUnlessLate
  <2>. SUFFICES ASSUME NEW c \in Cmds, cmd[c] = "ok", Undisturbed(c)
                PROVE  /\ IsPrefix(reply[c], said[c])
                       /\ alive /\ EndsAtPrompt(c) => reply[c] = said[c]
    BY DEF ReplyIsOwnUnlessLate, Undisturbed
  <2>1. OwnAt(c) /\ ~readErr[c]
    BY <1>1 DEF IInv, OwnInv, Safe, EndInv
  <2>2. reply[c] \in Seq(Lines) /\ said[c] \in Seq(Lines)
    <3>1. c \in 0..N
      BY ChannelAssumption DEF Cmds
    <3>. QED
      BY <1>1, <3>1 DEF IInv, Safe, TypeOK
  <2>. DEFINE r == reply[c]  a == said[c]
  <2>3. /\ Len(r) \in Nat /\ Len(a) \in Nat /\ Len(r) <= Len(a)
        /\ \A k \in 1..Len(r) : r[k] = a[k]
        /\ alive /\ EndsAtPrompt(c) => Len(r) = Len(a)
    BY <2>1, <2>2, LenProperties DEF OwnAt, Own, Read
  <2>4. r \in Seq(Lines) /\ a \in Seq(Lines)
    BY <2>2
  <2>. HIDE DEF r, a
  <2>5. IsPrefix(r, a)
    <3>1. \A k \in 1..Len(r) : a[k] \in Lines
      BY <2>3, <2>4, ElementOfSeq
    <3>2. /\ SubSeq(a, 1, Len(r)) \in Seq(Lines)
          /\ Len(SubSeq(a, 1, Len(r))) = IF 1 <= Len(r) THEN Len(r) - 1 + 1 ELSE 0
          /\ \A k \in 1..(Len(r) - 1 + 1) : SubSeq(a, 1, Len(r))[k] = a[1 + k - 1]
      BY <2>3, <3>1, SubSeqProperties
    <3>3. /\ Len(SubSeq(a, 1, Len(r))) = Len(r)
          /\ \A k \in 1..Len(r) : SubSeq(a, 1, Len(r))[k] = r[k]
      BY <2>3, <3>2
    <3>4. SubSeq(a, 1, Len(r)) = r
      BY <2>4, <3>2, <3>3, SeqEqual
    <3>5. SubSeq(r, 1, Len(r)) = r
      BY <2>4, SubSeqFull
    <3>. QED
      BY <2>3, <3>4, <3>5 DEF IsPrefix
  <2>6. alive /\ EndsAtPrompt(c) => r = a
    BY <2>3, <2>4, SeqEqual
  <2>. QED
    BY <2>5, <2>6 DEF r, a
<1>. QED
  BY <1>1, ChannelInductive, PTL

=============================================================================
