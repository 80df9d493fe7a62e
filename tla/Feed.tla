-------------------------------- MODULE Feed --------------------------------
(***************************************************************************)
(* What GraphRuntime.stream() promises about the events of a runtime,      *)
(* without its queue, its tasks and its timeouts: every event that happens *)
(* is handed to one reader, in the order in which the events happened, and *)
(* a reader that is told that there is nothing more has missed nothing.    *)
(***************************************************************************)
EXTENDS Naturals, Sequences

CONSTANT Reader

VARIABLES
  sent,    \* the events that happened so far
  taken,   \* the events handed to a reader, as [event, by]
  reading, \* the readers that want more
  told     \* the readers that were told that this was all

feed == <<sent, taken, reading, told>>

Init ==
  /\ sent = << >>
  /\ taken = << >>
  /\ reading = {}
  /\ told = {}

Open(r) ==
  /\ r \notin reading \cup told
  /\ reading' = reading \cup {r}
  /\ UNCHANGED <<sent, taken, told>>

Happen ==
  /\ Len(sent') = Len(sent) + 1
  /\ SubSeq(sent', 1, Len(sent)) = sent
  /\ UNCHANGED <<taken, reading, told>>

Take(r) ==
  /\ r \in reading
  /\ Len(taken) < Len(sent)
  /\ taken' = Append(taken, [event |-> sent[Len(taken) + 1], by |-> r])
  /\ UNCHANGED <<sent, reading, told>>

\* The reader loses interest ...
Leave(r) ==
  /\ r \in reading
  /\ reading' = reading \ {r}
  /\ UNCHANGED <<sent, taken, told>>

\* ... or hears that there is nothing more.
Tell(r) ==
  /\ r \in reading
  /\ Len(taken) = Len(sent)
  /\ reading' = reading \ {r}
  /\ told' = told \cup {r}
  /\ UNCHANGED <<sent, taken>>

Next == Happen \/ \E r \in Reader : Open(r) \/ Take(r) \/ Leave(r) \/ Tell(r)

Spec == Init /\ [][Next]_feed
=============================================================================
