--------------------------- MODULE RPCKern_proofs ---------------------------
(***************************************************************************)
(* Proofs about RPCKern for any set of callers, rings of any capacity and  *)
(* any number of calls and resets.  The remote processor is trusted with   *)
(* one thing only: it answers a request at most once, with the addresses   *)
(* the request carried.  Everything is said up to the moment, if any, at   *)
(* which a reset overlaps a transfer: RPCKern ends there.                  *)
(***************************************************************************)
EXTENDS RPCKern, TLAPS

-----------------------------------------------------------------------------
(* The inductive invariant. *)

\* The caller is inside rpc_kern_write.
Inside(c) == pc[c] \in {"measure", "copy", "bell"}

\* writeSem is down while a caller is inside rpc_kern_write.
SemInv ==
  /\ \A c \in Callers : Inside(c) => writeSem = 0
  /\ \A c, d \in Callers : Inside(c) /\ Inside(d) => c = d

\* The call a packet was sent for has not returned and has not been answered.
Live(m) ==
  /\ pc[m.caller] \in {"bell", "poll"}
  /\ call[m.caller] = m.call
  /\ sync[m.caller] = 0

\* The thread has a reply in readbuf.
Answering == thread \in {"value", "sync"}

\* Wherever a packet is between the two stores of its addresses, it is live.
PacketsLive ==
  /\ \A i \in 1..Len(toRing) : Live(toRing[i])
  /\ \A m \in work : Live(m)
  /\ \A i \in 1..Len(fromRing) : Live(fromRing[i])
  /\ Answering => readbuf \in Packet /\ Live(readbuf)

\* No two packets are for the same caller, so none is in two places.
OnePerCaller ==
  /\ \A i, j \in 1..Len(toRing) : toRing[i].caller = toRing[j].caller => i = j
  /\ \A m, n \in work : m.caller = n.caller => m = n
  /\ \A i, j \in 1..Len(fromRing) : fromRing[i].caller = fromRing[j].caller => i = j
  /\ \A i \in 1..Len(toRing) :
       /\ \A m \in work : toRing[i].caller # m.caller
       /\ \A j \in 1..Len(fromRing) : toRing[i].caller # fromRing[j].caller
  /\ \A m \in work : \A j \in 1..Len(fromRing) : m.caller # fromRing[j].caller
  /\ Answering =>
       /\ \A i \in 1..Len(toRing) : toRing[i].caller # readbuf.caller
       /\ \A m \in work : m.caller # readbuf.caller
       /\ \A j \in 1..Len(fromRing) : fromRing[j].caller # readbuf.caller

\* Who has measured a ring finds in it what it is to take, until a reset overlaps.
MeasuredInv ==
  /\ remote = "take" /\ ~torn => toRing # << >>
  /\ thread = "copy" /\ ~torn => fromRing # << >>

\* The word sync is clear until the thread stores through its address, and the
\* result is in place before it does.
ValueBeforeSync ==
  /\ \A c \in Callers : pc[c] \in {"down", "measure", "copy"} => sync[c] = 0
  /\ \A c \in Callers : pc[c] \in {"bell", "poll"} /\ sync[c] = 1 => retvalue[c] = call[c]
  /\ thread = "sync" => retvalue[readbuf.caller] = readbuf.call

IInv ==
  /\ TypeOK /\ SemInv /\ PacketsLive /\ OnePerCaller /\ MeasuredInv
  /\ ValueBeforeSync /\ OwnAnswer

-----------------------------------------------------------------------------
(* Sequences. *)

\* What Append leaves where.
LEMMA AppendFacts ==
  ASSUME NEW s \in Seq(Packet), NEW m \in Packet
  PROVE  /\ Append(s, m) \in Seq(Packet)
         /\ Len(Append(s, m)) = Len(s) + 1
         /\ \A i \in 1..Len(s) : Append(s, m)[i] = s[i]
         /\ Append(s, m)[Len(s) + 1] = m
  OBVIOUS

\* What taking the head leaves where.
LEMMA TailFacts ==
  ASSUME NEW s \in Seq(Packet), s # << >>
  PROVE  /\ Head(s) \in Packet /\ Head(s) = s[1]
         /\ Tail(s) \in Seq(Packet)
         /\ Len(s) \in Nat \ {0} /\ Len(Tail(s)) = Len(s) - 1
         /\ \A i \in 1..Len(s) - 1 : Tail(s)[i] = s[i + 1]
  OBVIOUS

-----------------------------------------------------------------------------
(* The invariant holds initially and is preserved. *)

\* Before the first call nothing is in flight.
LEMMA InitIInv == Init => IInv
  <1> SUFFICES ASSUME Init PROVE IInv
    OBVIOUS
  <1>1. TypeOK
    <2>1. answer \in [Callers -> Nat \X Nat]
      BY DEF Init
    <2>2. toRing \in Seq(Packet) /\ fromRing \in Seq(Packet)
      BY DEF Init
    <2>3. writeSem \in 0..1 /\ resets \in 0..MaxResets /\ calls \in Nat
      BY KernAssumption DEF Init
    <2> QED
      BY <2>1, <2>2, <2>3 DEF Init, TypeOK
  <1>2. SemInv /\ PacketsLive /\ OnePerCaller /\ MeasuredInv
    BY DEF Init, SemInv, Inside, PacketsLive, Answering, OnePerCaller, MeasuredInv
  <1>3. ValueBeforeSync /\ OwnAnswer
    BY DEF Init, ValueBeforeSync, OwnAnswer
  <1> QED
    BY <1>1, <1>2, <1>3 DEF IInv

\* No step breaks the invariant.
LEMMA NextIInv == IInv /\ [Next]_vars => IInv'
  <1> SUFFICES ASSUME IInv, [Next]_vars PROVE IInv'
    OBVIOUS
  <1> USE DEF IInv
  <1>t. TypeOK
    OBVIOUS
  <1>p. \A m \in Packet : m.caller \in Callers /\ m.call \in Nat
    BY DEF Packet
  <1>q. /\ \A i \in 1..Len(toRing) : toRing[i] \in Packet
        /\ \A i \in 1..Len(fromRing) : fromRing[i] \in Packet
    BY DEF TypeOK
  <1>0. CASE UNCHANGED vars
    BY <1>0 DEF vars, TypeOK, SemInv, Inside, PacketsLive, Answering, Live, OnePerCaller, MeasuredInv, ValueBeforeSync, OwnAnswer
  <1>1. ASSUME NEW c \in Callers, SendCall(c) PROVE IInv'
    <2> USE <1>1 DEF SendCall, Goto, callVars, remoteVars, threadVars, resetVars
    <2>1. TypeOK'
      BY SMTT(30), <1>t DEF TypeOK, SemInv, Inside
    <2>2. SemInv'
      BY DEF TypeOK, SemInv, Inside
    <2>3. PacketsLive'
      BY <1>p, <1>q DEF TypeOK, PacketsLive, Answering, Live
    <2>4. OnePerCaller'
      BY DEF OnePerCaller, Answering
    <2>5. MeasuredInv' /\ ValueBeforeSync' /\ OwnAnswer'
      BY <1>p DEF TypeOK, PacketsLive, Answering, Live, MeasuredInv, ValueBeforeSync, OwnAnswer
    <2> QED
      BY <2>1, <2>2, <2>3, <2>4, <2>5
  <1>2. ASSUME NEW c \in Callers, WriteDown(c) PROVE IInv'
    <2> USE <1>2 DEF WriteDown, Goto, callVars, remoteVars, threadVars, resetVars
    <2>1. TypeOK'
      BY <1>t DEF TypeOK, SemInv, Inside
    <2>2. SemInv'
      BY DEF TypeOK, SemInv, Inside
    <2>3. PacketsLive'
      BY <1>p, <1>q DEF TypeOK, PacketsLive, Answering, Live
    <2>4. OnePerCaller'
      BY DEF OnePerCaller, Answering
    <2>5. MeasuredInv' /\ ValueBeforeSync' /\ OwnAnswer'
      BY <1>p DEF TypeOK, PacketsLive, Answering, Live, MeasuredInv, ValueBeforeSync, OwnAnswer
    <2> QED
      BY <2>1, <2>2, <2>3, <2>4, <2>5
  <1>3. ASSUME NEW c \in Callers, WriteInterrupted(c) PROVE IInv'
    <2> USE <1>3 DEF WriteInterrupted, Goto, callVars, remoteVars, threadVars, resetVars
    <2>1. TypeOK'
      BY <1>t DEF TypeOK, SemInv, Inside
    <2>2. SemInv'
      BY DEF TypeOK, SemInv, Inside
    <2>3. PacketsLive'
      BY <1>p, <1>q DEF TypeOK, PacketsLive, Answering, Live
    <2>4. OnePerCaller'
      BY DEF OnePerCaller, Answering
    <2>5. MeasuredInv' /\ ValueBeforeSync' /\ OwnAnswer'
      BY <1>p DEF TypeOK, PacketsLive, Answering, Live, MeasuredInv, ValueBeforeSync, OwnAnswer
    <2> QED
      BY <2>1, <2>2, <2>3, <2>4, <2>5
  <1>4. ASSUME NEW c \in Callers, WriteRefused(c) PROVE IInv'
    <2> USE <1>4 DEF WriteRefused, Goto, callVars, remoteVars, threadVars, resetVars
    <2>1. TypeOK'
      BY <1>t DEF TypeOK, SemInv, Inside
    <2>2. SemInv'
      BY DEF TypeOK, SemInv, Inside
    <2>3. PacketsLive'
      BY <1>p, <1>q DEF TypeOK, PacketsLive, Answering, Live
    <2>4. OnePerCaller'
      BY DEF OnePerCaller, Answering
    <2>5. MeasuredInv' /\ ValueBeforeSync' /\ OwnAnswer'
      BY <1>p DEF TypeOK, PacketsLive, Answering, Live, MeasuredInv, ValueBeforeSync, OwnAnswer
    <2> QED
      BY <2>1, <2>2, <2>3, <2>4, <2>5
  <1>5. ASSUME NEW c \in Callers, RingBell(c) PROVE IInv'
    <2> USE <1>5 DEF RingBell, Goto, callVars, remoteVars, threadVars, resetVars
    <2>1. TypeOK'
      BY <1>t DEF TypeOK, SemInv, Inside
    <2>2. SemInv'
      BY DEF TypeOK, SemInv, Inside
    <2>3. PacketsLive'
      BY <1>p, <1>q DEF TypeOK, PacketsLive, Answering, Live
    <2>4. OnePerCaller'
      BY DEF OnePerCaller, Answering
    <2>5. MeasuredInv' /\ ValueBeforeSync' /\ OwnAnswer'
      BY <1>p DEF TypeOK, PacketsLive, Answering, Live, MeasuredInv, ValueBeforeSync, OwnAnswer
    <2> QED
      BY <2>1, <2>2, <2>3, <2>4, <2>5
  <1>6. ASSUME NEW c \in Callers, SyncSeen(c) PROVE IInv'
    <2> USE <1>6 DEF SyncSeen, Goto, callVars, remoteVars, threadVars, resetVars
    <2>1. TypeOK'
      <3>1. <<call[c], retvalue[c]>> \in Nat \X Nat
        BY DEF TypeOK
      <3> QED
        BY <1>t, <3>1 DEF TypeOK
    <2>2. SemInv'
      BY DEF TypeOK, SemInv, Inside
    <2>3. PacketsLive'
      <3>1. \A m \in Packet : Live(m) => Live(m)'
        BY <1>p DEF TypeOK, Live
      <3> QED
        BY <3>1, <1>q DEF TypeOK, PacketsLive, Answering
    <2>4. OnePerCaller'
      BY DEF OnePerCaller, Answering
    <2>5. MeasuredInv' /\ ValueBeforeSync' /\ OwnAnswer'
      BY <1>p DEF TypeOK, PacketsLive, Answering, Live, MeasuredInv, ValueBeforeSync, OwnAnswer
    <2> QED
      BY <2>1, <2>2, <2>3, <2>4, <2>5
  <1>7. ASSUME NEW c \in Callers, WriteMeasure(c) PROVE IInv'
    <2> USE <1>7 DEF WriteMeasure, Goto, callVars, remoteVars, threadVars, resetVars
    <2>1. TypeOK'
      BY <1>t DEF TypeOK, SemInv, Inside
    <2>2. SemInv'
      BY DEF TypeOK, SemInv, Inside
    <2>3. PacketsLive'
      BY <1>p, <1>q DEF TypeOK, PacketsLive, Answering, Live
    <2>4. OnePerCaller'
      BY DEF OnePerCaller, Answering
    <2>5. MeasuredInv' /\ ValueBeforeSync' /\ OwnAnswer'
      BY <1>p DEF TypeOK, PacketsLive, Answering, Live, MeasuredInv, ValueBeforeSync, OwnAnswer
    <2> QED
      BY <2>1, <2>2, <2>3, <2>4, <2>5
  <1>8. ASSUME NEW c \in Callers, WritePublish(c) PROVE IInv'
    <2> USE <1>8 DEF WritePublish, Goto, callVars, remoteVars, threadVars, resetVars
    <2>m. [caller |-> c, call |-> call[c]] \in Packet
      BY DEF TypeOK, Packet
    <2>0. PICK m \in Packet : m = [caller |-> c, call |-> call[c]]
      BY <2>m
    <2>a. /\ toRing' \in Seq(Packet)
          /\ Len(toRing') = Len(toRing) + 1 /\ Len(toRing) \in Nat
          /\ \A i \in 1..Len(toRing) : toRing'[i] = toRing[i]
          /\ toRing'[Len(toRing) + 1] = m
      BY <2>0, AppendFacts DEF TypeOK
    <2>b. \A i \in 1..Len(toRing') : i \in 1..Len(toRing) \/ i = Len(toRing) + 1
      BY <2>a
    <2>1. TypeOK'
      BY <1>t, <2>a DEF TypeOK
    <2>2. SemInv'
      BY DEF TypeOK, SemInv, Inside
    <2>3. \A n \in Packet : Live(n) => n.caller # c /\ Live(n)'
      BY <1>p DEF TypeOK, Live
    <2>4. Live(m)' /\ m.caller = c
      BY <2>0 DEF TypeOK, ValueBeforeSync, Live
    <2>5. PacketsLive'
      BY <2>3, <2>4, <2>a, <2>b, <1>q DEF TypeOK, PacketsLive, Answering
    <2>6. OnePerCaller'
      <3>1. \A i \in 1..Len(toRing) : toRing[i].caller # c
        BY <2>3, <1>q DEF PacketsLive, Answering
      <3>2. \A n \in work : n.caller # c
        BY <2>3 DEF TypeOK, PacketsLive, Answering
      <3>3. \A i \in 1..Len(fromRing) : fromRing[i].caller # c
        BY <2>3, <1>q DEF PacketsLive, Answering
      <3>4. Answering => readbuf.caller # c
        BY <2>3 DEF PacketsLive, Answering
      <3> QED
        BY <2>4, <2>a, <2>b, <3>1, <3>2, <3>3, <3>4 DEF OnePerCaller, Answering
    <2>7. ValueBeforeSync' /\ OwnAnswer'
      BY DEF TypeOK, ValueBeforeSync, OwnAnswer
    <2>8. MeasuredInv'
      <3>1. toRing' # << >>
        BY <2>a
      <3> QED
        BY <3>1 DEF MeasuredInv
    <2> QED
      BY <2>1, <2>2, <2>5, <2>6, <2>7, <2>8
  <1>9. ASSUME RemoteLook, ~torn PROVE IInv'
    <2> USE <1>9 DEF RemoteLook, callVars, threadVars
    <2>1. TypeOK'
      BY <1>t DEF TypeOK
    <2>2. SemInv' /\ ValueBeforeSync' /\ OwnAnswer'
      BY DEF SemInv, Inside, ValueBeforeSync, OwnAnswer
    <2>3. PacketsLive' /\ OnePerCaller'
      BY DEF PacketsLive, Answering, Live, OnePerCaller
    <2>4. MeasuredInv'
      BY DEF MeasuredInv
    <2> QED
      BY <2>1, <2>2, <2>3, <2>4
  <1>10. ASSUME RemoteTake, ~torn PROVE IInv'
    <2> USE <1>10 DEF RemoteTake, callVars, threadVars, resetVars
    <2>a. /\ Head(toRing) \in Packet /\ Head(toRing) = toRing[1]
          /\ toRing' \in Seq(Packet)
          /\ Len(toRing) \in Nat \ {0} /\ Len(toRing') = Len(toRing) - 1
          /\ \A i \in 1..Len(toRing) - 1 : toRing'[i] = toRing[i + 1]
      BY TailFacts DEF TypeOK, MeasuredInv
    <2>1. TypeOK'
      BY <1>t, <2>a DEF TypeOK
    <2>2. SemInv' /\ MeasuredInv' /\ ValueBeforeSync' /\ OwnAnswer'
      BY DEF SemInv, Inside, MeasuredInv, ValueBeforeSync, OwnAnswer
    <2>3. PacketsLive'
      BY <2>a DEF PacketsLive, Answering, Live
    <2>4. OnePerCaller'
      BY <2>a, SMTT(30) DEF OnePerCaller, Answering, Answering
    <2> QED
      BY <2>1, <2>2, <2>3, <2>4
  <1>11. ASSUME RemoteIdle PROVE IInv'
    <2> USE <1>11 DEF RemoteIdle, callVars, threadVars, resetVars
    <2>1. TypeOK'
      BY <1>t DEF TypeOK
    <2>2. SemInv' /\ ValueBeforeSync' /\ OwnAnswer'
      BY DEF SemInv, Inside, ValueBeforeSync, OwnAnswer
    <2>3. PacketsLive' /\ OnePerCaller'
      BY DEF PacketsLive, Answering, Live, OnePerCaller
    <2>4. MeasuredInv'
      BY DEF MeasuredInv
    <2> QED
      BY <2>1, <2>2, <2>3, <2>4
  <1>12. ASSUME NEW m \in work, RemoteMeasure(m) PROVE IInv'
    <2> USE <1>12 DEF RemoteMeasure, callVars, threadVars, resetVars
    <2>1. TypeOK'
      BY <1>t DEF TypeOK
    <2>2. SemInv' /\ ValueBeforeSync' /\ OwnAnswer'
      BY DEF SemInv, Inside, ValueBeforeSync, OwnAnswer
    <2>3. PacketsLive' /\ OnePerCaller'
      BY DEF PacketsLive, Answering, Live, OnePerCaller
    <2>4. MeasuredInv'
      BY DEF MeasuredInv
    <2> QED
      BY <2>1, <2>2, <2>3, <2>4
  <1>13. ASSUME NEW m \in work, RemoteReply(m) PROVE IInv'
    <2> USE <1>13 DEF RemoteReply, callVars, threadVars, resetVars
    <2>0. m \in Packet
      BY DEF TypeOK
    <2>a. /\ fromRing' \in Seq(Packet)
          /\ Len(fromRing') = Len(fromRing) + 1 /\ Len(fromRing) \in Nat
          /\ \A i \in 1..Len(fromRing) : fromRing'[i] = fromRing[i]
          /\ fromRing'[Len(fromRing) + 1] = m
      BY <2>0, AppendFacts DEF TypeOK
    <2>b. \A i \in 1..Len(fromRing') : i \in 1..Len(fromRing) \/ i = Len(fromRing) + 1
      BY <2>a
    <2>1. TypeOK'
      BY <1>t, <2>a DEF TypeOK
    <2>2. SemInv' /\ MeasuredInv' /\ ValueBeforeSync' /\ OwnAnswer'
      BY <2>a DEF SemInv, Inside, MeasuredInv, ValueBeforeSync, OwnAnswer
    <2>3. PacketsLive'
      BY <2>a, <2>b DEF PacketsLive, Answering, Live
    <2>4. OnePerCaller'
      BY SMTT(30), <2>a, <2>b DEF OnePerCaller, Answering, Answering
    <2> QED
      BY <2>1, <2>2, <2>3, <2>4
  <1>14. ASSUME ThreadLook, ~torn PROVE IInv'
    <2> USE <1>14 DEF ThreadLook, callVars, remoteVars
    <2>1. TypeOK'
      BY <1>t DEF TypeOK
    <2>2. SemInv' /\ ValueBeforeSync' /\ OwnAnswer'
      BY DEF SemInv, Inside, ValueBeforeSync, OwnAnswer
    <2>3. PacketsLive' /\ OnePerCaller'
      BY DEF PacketsLive, Answering, Live, OnePerCaller
    <2>4. MeasuredInv'
      BY DEF MeasuredInv
    <2> QED
      BY <2>1, <2>2, <2>3, <2>4
  <1>15. ASSUME ThreadRead, ~torn PROVE IInv'
    <2> USE <1>15 DEF ThreadRead, callVars, remoteVars, resetVars
    <2>a. /\ readbuf' \in Packet /\ readbuf' = fromRing[1]
          /\ fromRing' \in Seq(Packet)
          /\ Len(fromRing) \in Nat \ {0} /\ Len(fromRing') = Len(fromRing) - 1
          /\ \A i \in 1..Len(fromRing) - 1 : fromRing'[i] = fromRing[i + 1]
      BY TailFacts DEF TypeOK, MeasuredInv
    <2>1. TypeOK'
      BY <1>t, <2>a DEF TypeOK
    <2>2. SemInv' /\ MeasuredInv' /\ ValueBeforeSync' /\ OwnAnswer'
      BY DEF SemInv, Inside, MeasuredInv, ValueBeforeSync, OwnAnswer
    <2>3. PacketsLive'
      BY <2>a DEF PacketsLive, Answering, Live
    <2>4. OnePerCaller'
      BY <2>a DEF OnePerCaller, Answering
    <2> QED
      BY <2>1, <2>2, <2>3, <2>4
  <1>16. ASSUME ThreadValue PROVE IInv'
    <2> USE <1>16 DEF ThreadValue, remoteVars, resetVars
    <2>0. readbuf \in Packet /\ Live(readbuf) /\ readbuf.caller \in Callers /\ readbuf.call \in Nat
      BY <1>p DEF PacketsLive, Answering
    <2>1. TypeOK'
      BY <1>t, <2>0 DEF TypeOK
    <2>2. SemInv' /\ MeasuredInv' /\ OwnAnswer'
      BY DEF SemInv, Inside, MeasuredInv, OwnAnswer
    <2>3. PacketsLive' /\ OnePerCaller'
      BY <2>0 DEF PacketsLive, Answering, Live, OnePerCaller
    <2>4. ValueBeforeSync'
      BY <2>0 DEF TypeOK, ValueBeforeSync, Live
    <2> QED
      BY <2>1, <2>2, <2>3, <2>4
  <1>17. ASSUME ThreadAck PROVE IInv'
    <2> USE <1>17 DEF ThreadAck, remoteVars, resetVars
    <2>0. readbuf \in Packet /\ Live(readbuf) /\ readbuf.caller \in Callers /\ readbuf.call \in Nat
      BY <1>p DEF PacketsLive, Answering
    <2>1. TypeOK'
      BY <1>t, <2>0 DEF TypeOK
    <2>2. SemInv' /\ MeasuredInv' /\ OwnAnswer'
      BY DEF SemInv, Inside, MeasuredInv, OwnAnswer
    <2>3. \A m \in Packet : Live(m) /\ m.caller # readbuf.caller => Live(m)'
      BY <1>p DEF TypeOK, Live
    <2>4. PacketsLive'
      BY <2>3, <1>q DEF TypeOK, PacketsLive, Answering, OnePerCaller
    <2>5. OnePerCaller'
      BY DEF OnePerCaller, Answering
    <2>6. ValueBeforeSync'
      BY <2>0 DEF TypeOK, ValueBeforeSync, Live
    <2> QED
      BY <2>1, <2>2, <2>4, <2>5, <2>6
  <1>18. ASSUME ResetToIn, ~torn PROVE IInv'
    <2> USE <1>18 DEF ResetToIn, InCall, callVars, remoteVars, threadVars
    <2>1. TypeOK'
      BY <1>t, KernAssumption DEF TypeOK
    <2>2. SemInv' /\ ValueBeforeSync' /\ OwnAnswer'
      BY DEF SemInv, Inside, ValueBeforeSync, OwnAnswer
    <2>3. PacketsLive' /\ OnePerCaller'
      BY DEF PacketsLive, Answering, Live, OnePerCaller
    <2>4. MeasuredInv'
      BY DEF MeasuredInv
    <2> QED
      BY <2>1, <2>2, <2>3, <2>4
  <1>19. ASSUME ResetToOut PROVE IInv'
    <2> USE <1>19 DEF ResetToOut, InCall, callVars, remoteVars, threadVars
    <2>1. TypeOK'
      BY <1>t DEF TypeOK
    <2>2. SemInv' /\ ValueBeforeSync' /\ OwnAnswer'
      BY DEF SemInv, Inside, ValueBeforeSync, OwnAnswer
    <2>3. PacketsLive' /\ OnePerCaller'
      BY DEF PacketsLive, Answering, Live, OnePerCaller
    <2>4. MeasuredInv'
      BY DEF MeasuredInv
    <2> QED
      BY <2>1, <2>2, <2>3, <2>4
  <1>20. ASSUME ResetFromIn, ~torn PROVE IInv'
    <2> USE <1>20 DEF ResetFromIn, InCall, callVars, remoteVars, threadVars
    <2>1. TypeOK'
      BY <1>t DEF TypeOK
    <2>2. SemInv' /\ ValueBeforeSync' /\ OwnAnswer'
      BY DEF SemInv, Inside, ValueBeforeSync, OwnAnswer
    <2>3. PacketsLive' /\ OnePerCaller'
      BY DEF PacketsLive, Answering, Live, OnePerCaller
    <2>4. MeasuredInv'
      BY DEF MeasuredInv
    <2> QED
      BY <2>1, <2>2, <2>3, <2>4
  <1>21. ASSUME ResetFromOut PROVE IInv'
    <2> USE <1>21 DEF ResetFromOut, InCall, callVars, remoteVars, threadVars
    <2>1. TypeOK'
      BY <1>t DEF TypeOK
    <2>2. SemInv' /\ ValueBeforeSync' /\ OwnAnswer'
      BY DEF SemInv, Inside, ValueBeforeSync, OwnAnswer
    <2>3. PacketsLive' /\ OnePerCaller'
      BY DEF PacketsLive, Answering, Live, OnePerCaller
    <2>4. MeasuredInv'
      BY DEF MeasuredInv
    <2> QED
      BY <2>1, <2>2, <2>3, <2>4
  <1>22. ASSUME ResetAck PROVE IInv'
    <2> USE <1>22 DEF ResetAck, InCall, callVars, remoteVars, threadVars
    <2>1. TypeOK'
      BY <1>t DEF TypeOK
    <2>2. SemInv' /\ ValueBeforeSync' /\ OwnAnswer'
      BY DEF SemInv, Inside, ValueBeforeSync, OwnAnswer
    <2>3. PacketsLive' /\ OnePerCaller'
      BY DEF PacketsLive, Answering, Live, OnePerCaller
    <2>4. MeasuredInv'
      BY DEF MeasuredInv
    <2> QED
      BY <2>1, <2>2, <2>3, <2>4
  <1> QED
    BY <1>0, <1>1, <1>2, <1>3, <1>4, <1>5, <1>6, <1>7, <1>8, <1>9, <1>10, <1>11, <1>12,
       <1>13, <1>14, <1>15, <1>16, <1>17, <1>18, <1>19, <1>20, <1>21, <1>22
       DEF Next, CallerStep, RemoteRead, RemoteAnswer, Thread, Reset

\* The invariant of every behaviour.
LEMMA Invariance == Spec => []IInv
  BY InitIInv, NextIInv, PTL DEF Spec

-----------------------------------------------------------------------------
(* What it gives. *)

\* The variables keep their types; writeSem stays binary through every way out
\* of rpc_kern_write, the full ring and the interrupted down included.
THEOREM TypeCorrect == Spec => []TypeOK
  <1>1. IInv => TypeOK
    BY DEF IInv
  <1> QED
    BY <1>1, Invariance, PTL

\* A remote call that returns RPC_OK returns its own result, although nothing
\* in a reply but the two addresses ties it to the call, and although the
\* driver may be reset with requests and replies in the rings and in work,
\* and with calls at any point outside a transfer.
THEOREM AnswersMatch == Spec => []OwnAnswer
  <1>1. IInv => OwnAnswer
    BY DEF IInv
  <1> QED
    BY <1>1, Invariance, PTL

\* The kernel thread never stores into a stack frame whose call has returned,
\* as long as no reset overlapped a transfer.
THEOREM NoStoreIntoDeadFrame == Spec => []StoresHitLiveFrame
  <1>1. IInv => StoresHitLiveFrame
    BY DEF IInv, PacketsLive, Answering, Live, StoresHitLiveFrame
  <1> QED
    BY <1>1, Invariance, PTL
=============================================================================
