------------------------------ MODULE EventFeed ------------------------------
(***************************************************************************)
(* What the event stream of a Run promises (README.md:22 of the repository *)
(* and docs/ppt-agent-v4-api.md:34): a client that reconnects with the     *)
(* sequence of the last event it has read goes on from there.  Whatever    *)
(* happens to its connections, it has read a prefix of the log.            *)
(***************************************************************************)
EXTENDS Naturals, Sequences

CONSTANTS Clients, Kinds

VARIABLES
  log,   \* the kinds of the events of the Run, in the order of their sequence
  read   \* by client: the sequences of the events it has read

Init == log = <<>> /\ read = [c \in Clients |-> {}]

Publish(kind) == log' = Append(log, kind) /\ UNCHANGED read

Read(c) ==
  /\ \E n \in 1..Len(log) : read[c] = 1..(n - 1) /\ read' = [read EXCEPT ![c] = 1..n]
  /\ UNCHANGED log

Next == (\E kind \in Kinds : Publish(kind)) \/ (\E c \in Clients : Read(c))

Spec == Init /\ [][Next]_<<log, read>>
=============================================================================
