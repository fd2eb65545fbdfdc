--------------------------- MODULE SessionRegistry ---------------------------
(***************************************************************************)
(* What the Delve tool promises of its session table, without goroutines,  *)
(* locks or processes: an id names at most one session at a time, a        *)
(* session is opened, published once, closed and retired, the registry     *)
(* opens or closes one session at a time, and debugger input is accepted   *)
(* only by a session that is published and not yet retired.                *)
(***************************************************************************)
EXTENDS Naturals

CONSTANTS Ids, Sessions, Capacity, None

VARIABLES
    table,   \* id -> published session
    busy,    \* the session that is being opened or closed
    input    \* lines accepted by the session's debugger and not yet read

vars == <<table, busy, input>>

Published == {table[i] : i \in Ids} \ {None}

Init ==
    /\ table = [i \in Ids |-> None]
    /\ busy = None
    /\ input = [s \in Sessions |-> 0]

\* A new incarnation starts with nothing to read.
Open(s) ==
    /\ busy = None
    /\ s \notin Published
    /\ busy' = s
    /\ input' = [input EXCEPT ![s] = 0]
    /\ UNCHANGED table

Publish(i) ==
    /\ busy # None
    /\ busy \notin Published
    /\ table[i] = None
    /\ table' = [table EXCEPT ![i] = busy]
    /\ busy' = None
    /\ UNCHANGED input

Close(i) ==
    /\ busy = None
    /\ table[i] # None
    /\ busy' = table[i]
    /\ UNCHANGED <<table, input>>

Retire(i) ==
    /\ busy # None
    /\ table[i] = busy
    /\ table' = [table EXCEPT ![i] = None]
    /\ busy' = None
    /\ UNCHANGED input

Accept(s) ==
    /\ s \in Published
    /\ input[s] < Capacity
    /\ input' = [input EXCEPT ![s] = @ + 1]
    /\ UNCHANGED <<table, busy>>

\* The debugger reads, or is gone and what it had not read is lost.
Drain(s) ==
    /\ \E n \in 0..Capacity : n < input[s] /\ input' = [input EXCEPT ![s] = n]
    /\ UNCHANGED <<table, busy>>

Next ==
    \/ \E s \in Sessions : Open(s) \/ Accept(s) \/ Drain(s)
    \/ \E i \in Ids : Publish(i) \/ Close(i) \/ Retire(i)

Spec == Init /\ [][Next]_vars

=============================================================================
