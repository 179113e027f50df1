---------------------------- MODULE ByteStream ----------------------------
(***************************************************************************)
(* What a connection promises about the bytes it is given: messages go out *)
(* whole and one after the other, in the order the loop took them up,      *)
(* whatever the kernel accepts at a time, and nothing goes out once the    *)
(* connection is closed.  A message may be refused as a whole (the         *)
(* connection is broken); what waits when it closes is abandoned.          *)
(***************************************************************************)
EXTENDS Naturals, Sequences, SequencesExt

CONSTANTS Msg,    \* the messages; each is sent at most once
          Size    \* the bytes of a message

VARIABLES wire,      \* the bytes given to the kernel
          backlog,   \* the bytes that wait for it
          open       \* the connection is not closed

vars == <<wire, backlog, open>>

Bytes(m) == [i \in 1..Size |-> <<m, i>>]

Init ==
  /\ wire = <<>>
  /\ backlog = <<>>
  /\ open = TRUE

\* Bytes leave only at the end of the wire; none is taken back.
Grows == IsPrefix(wire, wire')

Take(m) ==
  /\ open
  /\ Grows
  /\ wire' \o backlog' = wire \o backlog \o Bytes(m)
  /\ UNCHANGED open

Flush ==
  /\ open
  /\ Grows
  /\ wire' \o backlog' = wire \o backlog
  /\ UNCHANGED open

Close ==
  /\ open
  /\ open' = FALSE
  /\ UNCHANGED <<wire, backlog>>

Next ==
  \/ \E m \in Msg : Take(m)
  \/ Flush
  \/ Close

Spec == Init /\ [][Next]_vars
=============================================================================
