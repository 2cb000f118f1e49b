------------------------------ MODULE RPCFifo ------------------------------
(***************************************************************************)
(* What a Realtek RPC ring promises its clients, without pointers, copies  *)
(* or semaphores: a bounded first-in first-out queue of 32-bit words to    *)
(* which a write adds a whole packet or nothing, from which a read removes *)
(* a prefix, and which a reset of the driver empties.  The kfifo of the    *)
(* infrared receiver keeps the same promise for the words it had room for. *)
(***************************************************************************)
EXTENDS Naturals, Sequences

CONSTANTS
  Packets,    \* packet identifiers
  Capacity    \* ring size in words

VARIABLES
  queue,      \* the words published and not yet read
  delivered,  \* every word handed to a reader, in order
  sent        \* identifiers of the packets that entered the queue

fifoVars == <<queue, delivered, sent>>

\* The words of packet p when it is n words long.
Words(p, n) == [i \in 1..n |-> <<p, i - 1>>]

FifoInit ==
  /\ queue = << >>
  /\ delivered = << >>
  /\ sent = {}

\* One slot always stays free, so a full ring never looks empty.
Write(p, n) ==
  /\ p \notin sent
  /\ Len(queue) + n < Capacity
  /\ queue' = queue \o Words(p, n)
  /\ sent' = sent \cup {p}
  /\ UNCHANGED delivered

Read(n) ==
  /\ queue' = SubSeq(queue, n + 1, Len(queue))
  /\ delivered' = delivered \o SubSeq(queue, 1, n)
  /\ UNCHANGED sent

Reset ==
  /\ queue' = << >>
  /\ UNCHANGED <<delivered, sent>>

FifoNext ==
  \/ \E p \in Packets, n \in 0..Capacity : Write(p, n)
  \/ \E n \in 0..Len(queue) : Read(n)
  \/ Reset

FifoSpec == FifoInit /\ [][FifoNext]_fifoVars
=============================================================================
