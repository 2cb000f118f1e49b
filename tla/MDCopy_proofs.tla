---------------------------- MODULE MDCopy_proofs ----------------------------
(***************************************************************************)
(* Proofs about the copies of the Move Data engine, for any clients and    *)
(* any size of the table, of the ring and of the engine's counter.         *)
(*                                                                         *)
(* The invariant has two halves.  FlowInv follows the chunks of each copy  *)
(* from md_copy_start through the ring to the engine and holds whatever    *)
(* happens to the table.  The rest says that an entry speaks for its copy, *)
(* which is true until md_check_copy_tasks takes one from a call that is   *)
(* still starting its copy (swept).                                        *)
(***************************************************************************)
EXTENDS MDCopy, Circular, TLAPS

\* The number of the last command the engine has executed.
Executed == sw_counter - Len(cmds)

\* Inside md_copy_start: before an entry is taken, and with one.
Asking(t)   == pc[t] \in {"check", "alloc"}
Starting(t) == pc[t] \in {"write", "store", "return"}
InCall(t)   == Asking(t) \/ Starting(t)

\* The number of the copy that client t is starting, as its entry has it.
Number(t) == copy_task[call[t].req].copy_id

\* Copy c got an entry; a command of it is in the engine's ring; it was given
\* to the engine; its md_copy_start has returned and found an entry.
Entered(c)  == \E n \in 1..Len(owner) : owner[n] = c
Queued(c)   == \E i \in 1..Len(cmds) : cmds[i][1] = c
Given(c)    == ran[c] # {} \/ Queued(c)
Returned(c) == Entered(c) /\ \A t \in Clients : Starting(t) => call[t].copy # c

\* No command of copy c comes after the one numbered e.
Behind(c, e) ==
  /\ e \in 1..sw_counter
  /\ \A i \in 1..Len(cmds) : cmds[i][1] = c => Executed + i <= e

\* All of copy c has been executed (DoneComplete below).
Done(c) == Returned(c) /\ ~Queued(c)

\* The shape of what TypeOK leaves open.
ShapeInv ==
  /\ Len(ran) = Len(copies) /\ Len(owner) = copy_counter
  /\ handles \in [Clients -> SUBSET ((1..Len(copies)) \X Nat)]
  /\ \A c \in 1..Len(copies) : copies[c] >= 1
  /\ failed \subseteq 1..Len(copies)
  /\ call \in [Clients -> [copy : Nat, left : Nat, req : Nat, id : Nat, handle : Nat]]

\* A copy gets one entry; the engine has commands of such copies only, and of
\* their chunks.
OwnerInv ==
  /\ \A m, n \in 1..Len(owner) : owner[m] = owner[n] => m = n
  /\ \A i \in 1..Len(cmds) : Entered(cmds[i][1]) /\ cmds[i][2] \in 1..copies[cmds[i][1]]
  /\ \A c \in 1..Len(copies) : ran[c] \subseteq 1..copies[c] /\ (ran[c] # {} => Entered(c))

\* md_copy_start: the copy is the caller's alone and has not been reported;
\* unless it was lost, the entry has its number.
CallInv(t) ==
  LET c == call[t].copy IN
  /\ InCall(t) => c \in 1..Len(copies) /\ c \notin failed
  /\ \A u \in Clients : InCall(t) /\ InCall(u) /\ call[u].copy = c => u = t
  /\ Asking(t) => call[t].left = copies[c] /\ ~Entered(c) /\ c \notin swept
  /\ Starting(t) => Entered(c) /\ call[t].req \in 0..MaxTask - 1 /\ call[t].left <= copies[c]
  /\ pc[t] = "write" => call[t].left >= 1
  /\ pc[t] = "return" => call[t].left = 0
  /\ Starting(t) /\ c \notin swept => Number(t) < Len(owner) /\ owner[Number(t) + 1] = c

\* Every chunk of a copy with an entry has been executed, is queued, or will be
\* queued by the call that starts the copy.
ChunkInv ==
  \A n \in 1..Len(owner) : \A p \in 1..copies[owner[n]] :
    \/ p \in ran[owner[n]]
    \/ \E i \in 1..Len(cmds) : cmds[i] = <<owner[n], p>>
    \/ \E t \in Clients : Starting(t) /\ call[t].copy = owner[n] /\ p > copies[owner[n]] - call[t].left

FailedInv == \A c \in failed : Given(c) => c = owner[1] \/ c \in swept

\* What holds whatever happens to the table.
FlowInv == ShapeInv /\ OwnerInv /\ (\A t \in Clients : CallInv(t)) /\ ChunkInv /\ FailedInv

\* The register is the number of the last executed command, modulo its width;
\* while the engine is suspended nothing is under way.
EngineInv ==
  /\ Len(cmds) <= sw_counter
  /\ state = 0 => hw_counter = Executed % CounterMod
  /\ state = 1 => cmds = << >> /\ finished_copy_counter = copy_counter

\* The entries in use are those of the numbers between the counters; a copy
\* that is being started has one of them.
TableInv ==
  /\ \A i \in 0..MaxTask - 1 : copy_task[i].request_id # 0 =>
       \E n \in finished_copy_counter..copy_counter - 1 : n % MaxTask = i
  /\ \A t \in Clients : Starting(t) =>
       /\ Number(t) \in finished_copy_counter..copy_counter - 1
       /\ call[t].req = Number(t) % MaxTask

\* An entry has the number of the last command of its copy, once md_copy_start
\* has returned; what is released is done.
EntryInv ==
  /\ \A n \in finished_copy_counter..copy_counter - 1 :
       Returned(owner[n + 1]) => Behind(owner[n + 1], copy_task[n % MaxTask].request_id)
  /\ \A n \in 0..finished_copy_counter - 1 : Done(owner[n + 1])
  /\ \A t \in Clients :
       /\ pc[t] = "store" => Behind(call[t].copy, call[t].id)
       /\ pc[t] = "return" => Behind(call[t].copy, copy_task[call[t].req].request_id)

\* md_copy_sync waits for a command after which the copy has none, or for any
\* when the copy is done already.
Handle(h) == h[2] \in 0..copy_counter - 1 /\ owner[h[2] + 1] = h[1] /\ Returned(h[1])

WaitInv(t) ==
  LET c == call[t].copy IN
  /\ \A h \in handles[t] : Handle(h)
  /\ pc[t] = "look" => Handle(<<c, call[t].handle>>)
  /\ pc[t] = "poll" => Returned(c) /\ (Queued(c) => Behind(c, call[t].id))
  /\ pc[t] = "clean" => Done(c)

SyncInv == (\A t \in Clients : WaitInv(t)) /\ (\A c \in synced : Done(c))

\* A step that leaves what is known of a copy whose md_copy_start has returned.
CopiesKept ==
  /\ \A c : Returned(c) => Returned(c)'
  /\ \A c : Returned(c) /\ Queued(c)' => Queued(c)
  /\ \A c, e : Returned(c) /\ Behind(c, e) => Behind(c, e)'
  /\ copy_counter' \in Nat /\ copy_counter' >= copy_counter
  /\ \A n \in 1..copy_counter : owner'[n] = owner[n]

\* The inductive invariant: the table is sound until a copy loses its entry.
IInv == TypeOK /\ FlowInv /\ (swept = {} => EngineInv /\ TableInv /\ EntryInv /\ SyncInv)

-----------------------------------------------------------------------------
(* Numbers of commands. *)

\* Adding at the end of a sequence.
LEMMA AppendFacts ==
  ASSUME NEW S, NEW q \in Seq(S), NEW e \in S
  PROVE  /\ Append(q, e) \in Seq(S) /\ Len(Append(q, e)) = Len(q) + 1
         /\ \A i \in 1..Len(q) : Append(q, e)[i] = q[i]
         /\ Append(q, e)[Len(q) + 1] = e
  OBVIOUS

\* The register tells that a command has been executed, although it wraps: no
\* more commands are queued than half of its range.
LEMMA FinishedNumber ==
  ASSUME TypeOK, EngineInv, state = 0, NEW e \in 1..sw_counter, CheckFinish(e)
  PROVE  e <= Executed
  <1>1. PICK m \in Nat \ {0} : m = CounterMod
    BY MDAssumption
  <1>2. PICK k \in Nat : m = 2 * k /\ CounterMod \div 2 = k /\ RingCmds < k
    BY <1>1, MDAssumption
  <1>3. Len(cmds) \in Nat /\ Len(cmds) <= RingCmds /\ sw_counter \in Nat /\ Len(cmds) <= sw_counter
        /\ RingCmds \in Nat
    BY MDAssumption DEF TypeOK, EngineInv
  <1>4. PICK x \in Nat : x = Executed
    BY <1>3 DEF Executed
  <1> SUFFICES ASSUME e > x PROVE FALSE
    BY <1>4
  <1>5. PICK d \in 1..k - 1 : e = x + d
    <2>1. e - x \in 1..k - 1 /\ e = x + (e - x)
      BY <1>2, <1>3, <1>4 DEF Executed
    <2> QED
      BY <2>1
  <1>6. PICK h \in 0..m - 1 : h = hw_counter /\ h = x % m
    BY <1>1, <1>4, ModRange DEF EngineInv
  <1>7. (h + d) % m = (x + d) % m
    <2>1. m % m = 0
      <3>1. m \in m..2 * m - 1
        OBVIOUS
      <3>2. m % m = m - m
        BY <3>1, ModOnce
      <3> QED
        BY <3>2
    <2>2. x \in Int /\ d \in Int
      OBVIOUS
    <2>3. ((x % m) + d) % m = (x + d) % m
      BY <2>1, <2>2, WrapKeepsPlace, ZenonT(40)
    <2> QED
      BY <1>6, <2>3
  <1>8. (h + d) % m = IF h + d < m THEN h + d ELSE h + d - m
    <2>1. d \in 0..m
      BY <1>2
    <2> QED
      BY <2>1, MovedPlace
  <1>9. PICK s \in 0..m - 1 : s = e % m /\ s = IF h + d < m THEN h + d ELSE h + d - m
    <2>1. e \in Int
      BY <1>3
    <2>2. e % m \in 0..m - 1
      BY <2>1, ModRange
    <2>3. e % m = IF h + d < m THEN h + d ELSE h + d - m
      BY <1>5, <1>7, <1>8
    <2> QED
      BY <2>2, <2>3
  <1>10. (h >= s /\ h - s < k) \/ (h < s /\ h + m - s < k)
    BY <1>1, <1>2, <1>6, <1>9 DEF CheckFinish
  <1> QED
    BY <1>2, <1>5, <1>9, <1>10

-----------------------------------------------------------------------------
(* The table. *)

\* Every copy number has an entry.
LEMMA EntryExists ==
  ASSUME NEW n \in Int
  PROVE  n % MaxTask \in 0..MaxTask - 1
  BY MDAssumption, ModRange

\* Copies less than a table apart have different entries.
LEMMA EntriesDiffer ==
  ASSUME NEW f \in Int, NEW m \in f..f + MaxTask - 1, NEW n \in f..f + MaxTask - 1,
         m % MaxTask = n % MaxTask
  PROVE  m = n
  <1>1. MaxTask \in Nat \ {0}
    BY MDAssumption
  <1>2. m - f \in 0..MaxTask - 1 /\ n - f \in 0..MaxTask - 1 /\ f + (m - f) = m /\ f + (n - f) = n
    BY <1>1
  <1>3. m - f = n - f
    BY <1>1, <1>2, CountsDiffer
  <1> QED
    BY <1>3

\* Copies a whole table apart have the same entry.
LEMMA EntryRepeats ==
  ASSUME NEW f \in Int
  PROVE  (f + MaxTask) % MaxTask = f % MaxTask
  <1>1. PICK m \in Nat \ {0} : m = MaxTask
    BY MDAssumption
  <1>2. PICK q \in Int : q = f \div m
    BY Division
  <1>3. PICK r \in 0..m - 1 : r = f % m
    BY Division
  <1>4. f = m * q + r
    BY <1>2, <1>3, Division
  <1>5. f + m = m * (q + 1) + r /\ q + 1 \in Int /\ f + m \in Int
    BY <1>4
  <1>6. (f + m) % m = r
    BY <1>5, ModUnique
  <1> QED
    BY <1>1, <1>3, <1>6

\* The values the variables have.
LEMMA Types ==
  ASSUME TypeOK, ShapeInv
  PROVE  /\ MaxTask \in Nat \ {0} /\ copy_counter \in Nat /\ finished_copy_counter \in Nat
         /\ finished_copy_counter <= copy_counter
         /\ sw_counter \in Nat /\ Len(cmds) \in Nat /\ Len(copies) \in Nat /\ Len(owner) = copy_counter
         /\ \A c \in 1..Len(copies) : copies[c] \in Nat /\ copies[c] >= 1
         /\ \A n \in 1..Len(owner) : owner[n] \in 1..Len(copies)
         /\ \A i \in 0..MaxTask - 1 : copy_task[i].request_id \in Nat /\ copy_task[i].copy_id \in Nat
  <1>1. \A i \in 0..MaxTask - 1 : copy_task[i].request_id \in Nat /\ copy_task[i].copy_id \in Nat
    BY DEF TypeOK
  <1>2. \A c \in 1..Len(copies) : copies[c] \in Nat /\ copies[c] >= 1
    BY DEF TypeOK, ShapeInv
  <1>3. \A n \in 1..Len(owner) : owner[n] \in 1..Len(copies)
    BY SMTT(30) DEF TypeOK
  <1>4. /\ MaxTask \in Nat \ {0} /\ copy_counter \in Nat /\ finished_copy_counter \in Nat
        /\ finished_copy_counter <= copy_counter
        /\ sw_counter \in Nat /\ Len(cmds) \in Nat /\ Len(copies) \in Nat /\ Len(owner) = copy_counter
    BY MDAssumption DEF TypeOK, ShapeInv
  <1> QED
    BY <1>1, <1>2, <1>3, <1>4

\* The values of the commands.
LEMMA CommandTypes ==
  ASSUME TypeOK, NEW i \in 1..Len(cmds)
  PROVE  cmds[i] \in (1..Len(copies)) \X Nat /\ cmds[i] = <<cmds[i][1], cmds[i][2]>>
  <1>1. cmds[i] \in (1..Len(copies)) \X Nat
    BY DEF TypeOK
  <1> QED
    BY <1>1

\* A copy of which nothing is to be queued and nothing is queued is complete.
LEMMA DoneComplete ==
  ASSUME TypeOK, FlowInv, NEW c, Done(c)
  PROVE  c \in 1..Len(copies) /\ Complete(c)
  <1>1. PICK n \in 1..Len(owner) : owner[n] = c
    BY DEF Done, Returned, Entered
  <1>2. c \in 1..Len(copies)
    BY <1>1, Types DEF FlowInv
  <1>3. ASSUME NEW p \in 1..copies[c] PROVE p \in ran[c]
    <2>1. ASSUME NEW i \in 1..Len(cmds) PROVE cmds[i] # <<c, p>>
      BY <2>1 DEF Done, Queued
    <2> QED
      BY <1>1, <2>1 DEF FlowInv, ChunkInv, Done, Returned
  <1>4. ran[c] \subseteq 1..copies[c]
    BY <1>2 DEF FlowInv, OwnerInv
  <1> QED
    BY <1>2, <1>3, <1>4 DEF Complete

\* The engine's register tells that a copy is out of the ring.
LEMMA BehindFinished ==
  ASSUME TypeOK, EngineInv, NEW c, NEW e, Behind(c, e), CheckFinish(e)
  PROVE  ~Queued(c)
  <1>1. CASE state = 0
    <2>1. e \in 1..sw_counter /\ e <= Executed
      BY <1>1, FinishedNumber DEF Behind
    <2>2. Executed \in Int /\ sw_counter \in Nat
      BY DEF TypeOK, Executed
    <2>3. \A i \in 1..Len(cmds) : ~(Executed + i <= e)
      BY <2>1, <2>2
    <2> QED
      BY <2>3 DEF Behind, Queued
  <1>2. CASE state = 1
    BY <1>2 DEF EngineInv, Queued
  <1> QED
    BY <1>1, <1>2 DEF TypeOK

\* Two copies that are being started have different entries.
LEMMA StartersDiffer ==
  ASSUME FlowInv, swept = {}, NEW t \in Clients, NEW u \in Clients, Starting(t), Starting(u),
         Number(t) = Number(u)
  PROVE  t = u
  <1>1. owner[Number(t) + 1] = call[t].copy /\ owner[Number(u) + 1] = call[u].copy
    BY DEF FlowInv, CallInv
  <1> QED
    BY <1>1 DEF FlowInv, CallInv, InCall

\* The copy behind a number in the table is being started, or has returned.
LEMMA NumberOwner ==
  ASSUME TypeOK, FlowInv, swept = {}, NEW n \in 0..copy_counter - 1
  PROVE  /\ owner[n + 1] \in 1..Len(copies) /\ Entered(owner[n + 1])
         /\ ~Returned(owner[n + 1]) =>
              \E t \in Clients : Starting(t) /\ call[t].copy = owner[n + 1] /\ Number(t) = n
  <1>1. ShapeInv /\ Len(owner) = copy_counter /\ copy_counter \in Nat /\ n + 1 \in 1..Len(owner)
    BY Types DEF FlowInv
  <1>2. owner[n + 1] \in 1..Len(copies) /\ Entered(owner[n + 1])
    BY <1>1, Types DEF Entered
  <1>3. ASSUME NEW t \in Clients, Starting(t), call[t].copy = owner[n + 1]
        PROVE  Number(t) = n
    <2>1. call[t].req \in 0..MaxTask - 1 /\ Number(t) < Len(owner) /\ owner[Number(t) + 1] = owner[n + 1]
      BY <1>3 DEF FlowInv, CallInv
    <2>2. Number(t) \in Nat
      BY <1>1, <2>1, Types DEF Number
    <2>3. Number(t) + 1 \in 1..Len(owner)
      BY <1>1, <2>1, <2>2
    <2>4. Number(t) + 1 = n + 1
      BY <1>1, <2>1, <2>3 DEF FlowInv, OwnerInv
    <2> QED
      BY <2>2, <2>4
  <1> QED
    BY <1>2, <1>3 DEF Returned

-----------------------------------------------------------------------------
(* Steps that leave parts of the state alone. *)

\* No chunk moves and no call of md_copy_start begins or ends.
LEMMA FlowFrame ==
  ASSUME FlowInv, UNCHANGED <<copies, ran, cmds, owner, failed>>,
         \A t \in Clients : /\ Asking(t)' <=> Asking(t)
                            /\ Starting(t)' <=> Starting(t)
                            /\ InCall(t) => call'[t] = call[t]
                            /\ pc'[t] = "write" => call[t].left >= 1
                            /\ pc'[t] = "return" => call[t].left = 0,
         swept \subseteq swept',
         \A c \in swept' : c \in swept \/ \E t \in Clients : Starting(t) /\ call[t].copy = c,
         \A t \in Clients : Starting(t) /\ call[t].copy \notin swept' => Number(t)' = Number(t)
  PROVE  OwnerInv' /\ (\A t \in Clients : CallInv(t)') /\ ChunkInv' /\ FailedInv'
  <1>1. OwnerInv'
    BY DEF FlowInv, OwnerInv, Entered
  <1>2. ASSUME NEW t \in Clients PROVE CallInv(t)'
    <2>1. CallInv(t)
      BY DEF FlowInv
    <2>2. CASE ~InCall(t)
      <3>1. ~Asking(t)' /\ ~Starting(t)'
        BY <2>2 DEF InCall
      <3> QED
        BY <3>1 DEF CallInv, InCall, Starting
    <2>3. CASE InCall(t)
      <3>0. call'[t] = call[t]
        BY <2>3
      <3>1. call[t].copy \in 1..Len(copies) /\ call[t].copy \notin failed
        BY <2>1, <2>3 DEF CallInv
      <3>2. \A u \in Clients : InCall(u)' /\ call'[u].copy = call[t].copy => u = t
        BY <2>1, <2>3 DEF CallInv, InCall
      <3>3. ASSUME Asking(t)
            PROVE  call[t].left = copies[call[t].copy] /\ ~Entered(call[t].copy)' /\ call[t].copy \notin swept'
        <4>1. /\ call[t].left = copies[call[t].copy] /\ ~Entered(call[t].copy)
              /\ call[t].copy \notin swept
          BY <2>1, <3>3 DEF CallInv
        <4>2. ASSUME NEW u \in Clients, Starting(u) PROVE call[u].copy # call[t].copy
          BY <2>1, <2>3, <3>3, <4>2 DEF CallInv, InCall, Starting, Asking
        <4> QED
          BY <3>0, <4>1, <4>2 DEF Entered
      <3>4. ASSUME Starting(t)
            PROVE  /\ Entered(call[t].copy)' /\ call[t].req \in 0..MaxTask - 1
                   /\ call[t].left <= copies[call[t].copy]
        BY <2>1, <3>0, <3>4 DEF CallInv, Entered
      <3>5. ASSUME Starting(t), call[t].copy \notin swept'
            PROVE  Number(t)' < Len(owner) /\ owner[Number(t)' + 1] = call[t].copy
        BY <2>1, <3>5 DEF CallInv
      <3> QED
        BY <3>0, <3>1, <3>2, <3>3, <3>4, <3>5 DEF CallInv
    <2> QED
      BY <2>2, <2>3
  <1>3. ChunkInv'
    <2> SUFFICES ASSUME NEW n \in 1..Len(owner'), NEW p \in 1..copies'[owner'[n]],
                        p \notin ran'[owner'[n]], ~\E i \in 1..Len(cmds') : cmds'[i] = <<owner'[n], p>>
                 PROVE  \E t \in Clients : Starting(t)' /\ call'[t].copy = owner'[n]
                                           /\ p > copies'[owner'[n]] - call'[t].left
      BY Zenon DEF ChunkInv
    <2>1. PICK t \in Clients : Starting(t) /\ call[t].copy = owner[n] /\ p > copies[owner[n]] - call[t].left
      BY DEF FlowInv, ChunkInv
    <2>2. Starting(t)' /\ call'[t] = call[t]
      BY <2>1 DEF InCall
    <2> QED
      BY <2>1, <2>2
  <1>4. FailedInv'
    BY DEF FlowInv, FailedInv, Given, Queued
  <1> QED
    BY <1>1, <1>2, <1>3, <1>4

\* The ring and the calls of md_copy_start are left alone.
LEMMA CopyFrame ==
  ASSUME UNCHANGED <<cmds, owner>>,
         \A t \in Clients : /\ Starting(t)' <=> Starting(t)
                            /\ Starting(t) => call'[t] = call[t]
  PROVE  /\ \A c : Returned(c)' <=> Returned(c)
         /\ \A c : Queued(c)' <=> Queued(c)
         /\ \A c : Done(c)' <=> Done(c)
         /\ UNCHANGED sw_counter => \A c, e : Behind(c, e)' <=> Behind(c, e)
  <1>1. \A c : Returned(c)' <=> Returned(c)
    BY DEF Returned, Entered
  <1>2. \A c : Queued(c)' <=> Queued(c)
    BY DEF Queued
  <1>3. UNCHANGED sw_counter => \A c, e : Behind(c, e)' <=> Behind(c, e)
    BY DEF Behind, Executed
  <1> QED
    BY <1>1, <1>2, <1>3 DEF Done

\* The table is left alone as well.
LEMMA TableFrame ==
  ASSUME TableInv, EntryInv,
         UNCHANGED <<cmds, owner, sw_counter, copy_task, copy_counter, finished_copy_counter>>,
         \A t \in Clients : /\ Starting(t)' <=> Starting(t)
                            /\ Starting(t) => call'[t] = call[t] /\ pc'[t] = pc[t]
  PROVE  TableInv' /\ EntryInv'
  <1>1. /\ \A c : Returned(c)' <=> Returned(c)
        /\ \A c : Done(c)' <=> Done(c)
        /\ \A c, e : Behind(c, e)' <=> Behind(c, e)
    BY CopyFrame
  <1>2. TableInv'
    <2>1. \A t \in Clients : Starting(t)' => Number(t)' = Number(t)
      BY DEF Number
    <2> QED
      BY <2>1 DEF TableInv
  <1>3. EntryInv'
    <2>1. ASSUME NEW n \in finished_copy_counter..copy_counter - 1
          PROVE  (Returned(owner[n + 1]) => Behind(owner[n + 1], copy_task[n % MaxTask].request_id))'
      BY <1>1 DEF EntryInv
    <2>2. ASSUME NEW n \in 0..finished_copy_counter - 1 PROVE Done(owner[n + 1])'
      BY <1>1 DEF EntryInv
    <2>3. ASSUME NEW t \in Clients
          PROVE  (/\ pc[t] = "store" => Behind(call[t].copy, call[t].id)
                  /\ pc[t] = "return" => Behind(call[t].copy, copy_task[call[t].req].request_id))'
      <3>1. pc'[t] \in {"store", "return"} => Starting(t) /\ call'[t] = call[t] /\ pc'[t] = pc[t]
        BY DEF Starting
      <3> QED
        BY <1>1, <3>1 DEF EntryInv
    <2> QED
      BY <2>1, <2>2, <2>3 DEF EntryInv
  <1> QED
    BY <1>2, <1>3

\* What md_copy_sync knows of the copies, when no call begins or ends.
LEMMA HandleFrame ==
  ASSUME TypeOK, NEW h, Handle(h), \A c : Returned(c) => Returned(c)',
         copy_counter' \in Nat, copy_counter' >= copy_counter,
         \A n \in 1..copy_counter : owner'[n] = owner[n]
  PROVE  Handle(h)'
  <1>1. copy_counter \in Nat
    BY DEF TypeOK
  <1>2. h[2] \in 0..copy_counter - 1 /\ h[2] + 1 \in 1..copy_counter /\ h[2] \in 0..copy_counter' - 1
    BY <1>1 DEF Handle
  <1> QED
    BY <1>2 DEF Handle

\* A call of md_copy_sync, and the handles, while another client takes a step.
LEMMA WaitFrame ==
  ASSUME TypeOK, CopiesKept, NEW t \in Clients, WaitInv(t),
         handles'[t] \subseteq handles[t],
         pc'[t] \in {"look", "poll", "clean"} => pc'[t] = pc[t] /\ call'[t] = call[t]
  PROVE  WaitInv(t)'
  <1>1. \A h : Handle(h) => Handle(h)'
    BY HandleFrame DEF CopiesKept
  <1>2. \A c : Done(c) => Done(c)'
    BY DEF CopiesKept, Done
  <1>3. \A h \in handles'[t] : Handle(h)'
    BY <1>1 DEF WaitInv
  <1>4. CASE pc'[t] \notin {"look", "poll", "clean"}
    BY <1>3, <1>4 DEF WaitInv
  <1>5. CASE pc'[t] = "look"
    <2>1. call'[t] = call[t] /\ Handle(<<call[t].copy, call[t].handle>>)
      BY <1>5 DEF WaitInv
    <2>2. Handle(<<call[t].copy, call[t].handle>>)'
      BY <1>1, <2>1
    <2> QED
      BY <1>3, <1>5, <2>1, <2>2 DEF WaitInv
  <1>6. CASE pc'[t] = "poll"
    <2>1. PICK c, e : c = call[t].copy /\ e = call[t].id
      OBVIOUS
    <2>2. call'[t] = call[t] /\ Returned(c) /\ (Queued(c) => Behind(c, e))
      BY <1>6, <2>1 DEF WaitInv
    <2>3. Returned(c)' /\ (Queued(c)' => Behind(c, e)')
      BY <2>2 DEF CopiesKept
    <2>4. call'[t].copy = c /\ call'[t].id = e
      BY <2>1, <2>2
    <2> QED
      BY <1>3, <1>6, <2>3, <2>4 DEF WaitInv
  <1>7. CASE pc'[t] = "clean"
    <2>1. call'[t] = call[t] /\ Done(call[t].copy)
      BY <1>7 DEF WaitInv
    <2>2. Done(call[t].copy)'
      BY <1>2, <2>1
    <2> QED
      BY <1>3, <1>7, <2>2 DEF WaitInv
  <1> QED
    BY <1>4, <1>5, <1>6, <1>7

\* Steps that leave the ring and the calls of md_copy_start alone.
LEMMA QuietKept ==
  ASSUME TypeOK, UNCHANGED <<cmds, owner, sw_counter, copy_counter>>,
         \A t \in Clients : /\ Starting(t)' <=> Starting(t)
                            /\ Starting(t) => call'[t] = call[t]
  PROVE  CopiesKept
  <1>1. copy_counter \in Nat
    BY DEF TypeOK
  <1> QED
    BY <1>1, CopyFrame DEF CopiesKept

-----------------------------------------------------------------------------
(* Releasing entries. *)

\* Entries are freed; a copy that is being started either keeps its entry or
\* is recorded as having lost it.
LEMMA ReleaseFacts ==
  ASSUME TypeOK, FlowInv, NEW last \in finished_copy_counter..copy_counter, Release(last)
  PROVE  /\ finished_copy_counter' = last /\ owner' = owner
         /\ copy_task' \in [0..MaxTask - 1 -> [request_id : Nat, copy_id : Nat]]
         /\ \A i \in 0..MaxTask - 1 :
              copy_task'[i] = IF i \in Released(last) THEN Free ELSE copy_task[i]
         /\ swept \subseteq swept' /\ swept' \subseteq 1..Len(copies)
         /\ \A c \in swept' : c \in swept \/ \E t \in Clients : Starting(t) /\ call[t].copy = c
         /\ \A t \in Clients : Starting(t) /\ call[t].copy \notin swept' =>
              call[t].req \notin Released(last) /\ copy_task'[call[t].req] = copy_task[call[t].req]
  <1>1. /\ finished_copy_counter' = last /\ owner' = owner
        /\ copy_task' = [i \in 0..MaxTask - 1 |-> IF i \in Released(last) THEN Free ELSE copy_task[i]]
        /\ swept' = swept \cup Victims(Released(last))
    BY DEF Release, TypeOK
  <1>2. Free \in [request_id : Nat, copy_id : Nat]
    BY DEF Free
  <1>3. copy_task' \in [0..MaxTask - 1 -> [request_id : Nat, copy_id : Nat]]
    BY <1>1, <1>2 DEF TypeOK
  <1>4. ASSUME NEW c \in Victims(Released(last))
        PROVE  c \in 1..Len(copies) /\ \E t \in Clients : Starting(t) /\ call[t].copy = c
    BY DEF Victims, Starting, FlowInv, CallInv, InCall
  <1>5. ASSUME NEW t \in Clients, Starting(t), call[t].copy \notin swept'
        PROVE  call[t].req \notin Released(last) /\ copy_task'[call[t].req] = copy_task[call[t].req]
    <2>1. call[t].req \notin Released(last)
      BY <1>1, <1>5 DEF Victims, Starting
    <2>2. call[t].req \in 0..MaxTask - 1
      BY <1>5 DEF FlowInv, CallInv
    <2> QED
      BY <1>1, <2>1, <2>2
  <1>6. swept \subseteq 1..Len(copies)
    BY DEF TypeOK
  <1> QED
    BY <1>1, <1>3, <1>4, <1>5, <1>6

\* When no call loses its entry, what is released is done, and the entries of
\* the other copies stay.
LEMMA ReleaseTable ==
  ASSUME TypeOK, FlowInv, swept = {}, EngineInv, TableInv, EntryInv, swept' = {},
         NEW last \in finished_copy_counter..copy_counter, Release(last),
         \A n \in finished_copy_counter..last - 1 : TaskFinished(n)
  PROVE  /\ \A n \in 0..last - 1 : Done(owner[n + 1])
         /\ \A n \in last..copy_counter - 1 : copy_task'[n % MaxTask] = copy_task[n % MaxTask]
         /\ \A t \in Clients : Starting(t) =>
              Number(t) \in last..copy_counter - 1 /\ copy_task'[call[t].req] = copy_task[call[t].req]
         /\ \A i \in 0..MaxTask - 1 : copy_task'[i].request_id # 0 =>
              copy_task'[i] = copy_task[i] /\ \E n \in last..copy_counter - 1 : n % MaxTask = i
  <1>1. /\ \A i \in 0..MaxTask - 1 :
              copy_task'[i] = IF i \in Released(last) THEN Free ELSE copy_task[i]
        /\ \A t \in Clients : Starting(t) =>
              call[t].req \notin Released(last) /\ copy_task'[call[t].req] = copy_task[call[t].req]
    BY ReleaseFacts
  <1>2. /\ MaxTask \in Nat \ {0} /\ copy_counter \in Nat /\ finished_copy_counter \in Nat
        /\ last \in Nat /\ finished_copy_counter <= last /\ last <= copy_counter
        /\ copy_counter - finished_copy_counter <= MaxTask
    BY Types DEF FlowInv, TypeOK
  <1>3. ASSUME NEW t \in Clients, Starting(t)
        PROVE  Number(t) \in last..copy_counter - 1
    <2>1. Number(t) \in finished_copy_counter..copy_counter - 1 /\ call[t].req = Number(t) % MaxTask
      BY <1>3 DEF TableInv
    <2>2. Number(t) \notin finished_copy_counter..last - 1
      BY <1>1, <1>3, <2>1 DEF Released
    <2> QED
      BY <1>2, <2>1, <2>2
  <1>4. ASSUME NEW n \in finished_copy_counter..last - 1 PROVE Done(owner[n + 1])
    <2>1. n \in 0..copy_counter - 1 /\ n \in finished_copy_counter..copy_counter - 1
      BY <1>2
    <2>2. Returned(owner[n + 1])
      <3>1. ASSUME NEW t \in Clients, Starting(t), Number(t) = n PROVE FALSE
        BY <1>2, <1>3, <3>1
      <3> QED
        BY <2>1, <3>1, NumberOwner
    <2>3. Behind(owner[n + 1], copy_task[n % MaxTask].request_id)
      BY <2>1, <2>2 DEF EntryInv
    <2>4. CheckFinish(copy_task[n % MaxTask].request_id)
      BY DEF TaskFinished
    <2>5. ~Queued(owner[n + 1])
      BY <2>3, <2>4, BehindFinished
    <2> QED
      BY <2>2, <2>5 DEF Done
  <1>5. ASSUME NEW n \in 0..last - 1 PROVE Done(owner[n + 1])
    <2>1. n \in 0..finished_copy_counter - 1 \/ n \in finished_copy_counter..last - 1
      BY <1>2
    <2> QED
      BY <1>4, <2>1 DEF EntryInv
  <1>6. ASSUME NEW n \in last..copy_counter - 1
        PROVE  copy_task'[n % MaxTask] = copy_task[n % MaxTask]
    <2>1. ASSUME NEW m \in finished_copy_counter..last - 1, m % MaxTask = n % MaxTask PROVE FALSE
      <3>1. /\ m \in finished_copy_counter..finished_copy_counter + MaxTask - 1
            /\ n \in finished_copy_counter..finished_copy_counter + MaxTask - 1
            /\ finished_copy_counter \in Int /\ m # n
        BY <1>2
      <3> QED
        BY <2>1, <3>1, EntriesDiffer
    <2>2. n % MaxTask \notin Released(last)
      BY <2>1 DEF Released
    <2>3. n % MaxTask \in 0..MaxTask - 1
      <3>1. n \in Int
        BY <1>2
      <3> QED
        BY <3>1, EntryExists
    <2> QED
      BY <1>1, <2>2, <2>3
  <1>7. ASSUME NEW i \in 0..MaxTask - 1, copy_task'[i].request_id # 0
        PROVE  copy_task'[i] = copy_task[i] /\ \E n \in last..copy_counter - 1 : n % MaxTask = i
    <2>1. i \notin Released(last) /\ copy_task'[i] = copy_task[i]
      BY <1>1, <1>7 DEF Free
    <2>2. PICK n \in finished_copy_counter..copy_counter - 1 : n % MaxTask = i
      BY <1>7, <2>1 DEF TableInv
    <2>3. n \notin finished_copy_counter..last - 1
      BY <2>1, <2>2 DEF Released
    <2>4. n \in last..copy_counter - 1
      BY <1>2, <2>3
    <2> QED
      BY <2>1, <2>2, <2>4
  <1> QED
    BY <1>1, <1>3, <1>5, <1>6, <1>7

\* md_check_copy_tasks keeps the table sound.
LEMMA CheckTable ==
  ASSUME TypeOK, FlowInv, swept = {}, EngineInv, TableInv, EntryInv, swept' = {}, CheckCopyTasks,
         UNCHANGED <<copy_counter, cmds, sw_counter>>,
         \A t \in Clients : /\ Starting(t)' <=> Starting(t)
                            /\ Starting(t) => call'[t] = call[t] /\ pc'[t] = pc[t]
  PROVE  TableInv' /\ EntryInv'
  <1>1. PICK last \in finished_copy_counter..copy_counter :
          Release(last) /\ \A n \in finished_copy_counter..last - 1 : TaskFinished(n)
    BY DEF CheckCopyTasks
  <1>2. finished_copy_counter' = last /\ owner' = owner
    BY <1>1, ReleaseFacts
  <1>3. /\ \A n \in 0..last - 1 : Done(owner[n + 1])
        /\ \A n \in last..copy_counter - 1 : copy_task'[n % MaxTask] = copy_task[n % MaxTask]
        /\ \A t \in Clients : Starting(t) =>
             Number(t) \in last..copy_counter - 1 /\ copy_task'[call[t].req] = copy_task[call[t].req]
        /\ \A i \in 0..MaxTask - 1 : copy_task'[i].request_id # 0 =>
             copy_task'[i] = copy_task[i] /\ \E n \in last..copy_counter - 1 : n % MaxTask = i
    BY <1>1, ReleaseTable
  <1>4. /\ \A c : Returned(c)' <=> Returned(c)
        /\ \A c : Done(c)' <=> Done(c)
        /\ \A c, e : Behind(c, e)' <=> Behind(c, e)
    BY <1>2, CopyFrame
  <1>5. TableInv'
    <2>1. \A t \in Clients : Starting(t)' =>
            Number(t)' \in last..copy_counter - 1 /\ call'[t].req = Number(t)' % MaxTask
      BY <1>3 DEF Number, TableInv
    <2> QED
      BY <1>2, <1>3, <2>1 DEF TableInv
  <1>6. EntryInv'
    <2>1. ASSUME NEW n \in last..copy_counter - 1
          PROVE  (Returned(owner[n + 1]) => Behind(owner[n + 1], copy_task[n % MaxTask].request_id))'
      <3>1. n \in finished_copy_counter..copy_counter - 1
        BY Types DEF FlowInv
      <3> QED
        BY <1>2, <1>3, <1>4, <3>1 DEF EntryInv
    <2>2. ASSUME NEW n \in 0..last - 1 PROVE Done(owner[n + 1])'
      BY <1>2, <1>3, <1>4
    <2>3. ASSUME NEW t \in Clients
          PROVE  (/\ pc[t] = "store" => Behind(call[t].copy, call[t].id)
                  /\ pc[t] = "return" => Behind(call[t].copy, copy_task[call[t].req].request_id))'
      <3>1. pc'[t] \in {"store", "return"} =>
              /\ call'[t] = call[t] /\ pc'[t] = pc[t]
              /\ copy_task'[call[t].req] = copy_task[call[t].req]
        BY <1>3 DEF Starting
      <3> QED
        BY <1>4, <3>1 DEF EntryInv
    <2> QED
      BY <1>2, <2>1, <2>2, <2>3 DEF EntryInv
  <1> QED
    BY <1>5, <1>6

-----------------------------------------------------------------------------
(* The steps. *)

LEMMA InitIInv == Init => IInv
  <1> SUFFICES ASSUME Init PROVE IInv
    OBVIOUS
  <1>0. Len(cmds) = 0 /\ Len(copies) = 0 /\ Len(ran) = 0 /\ Len(owner) = 0 /\ 1..0 = {} /\ 0..0 - 1 = {}
    BY DEF Init
  <1>1. TypeOK
    <2>1. copy_task \in [0..MaxTask - 1 -> [request_id : Nat, copy_id : Nat]]
      BY DEF Init, Free
    <2>2. copy_counter - finished_copy_counter <= MaxTask /\ hw_counter \in 0..CounterMod - 1
      BY MDAssumption DEF Init
    <2>3. \A t \in Clients : handles[t] \subseteq (1..Len(copies)) \X Nat
      BY DEF Init
    <2>4. Len(cmds) <= RingCmds
      BY <1>0, MDAssumption
    <2>5. pc \in [Clients -> Labels]
      BY DEF Init, Labels
    <2> QED
      BY <2>1, <2>2, <2>3, <2>4, <2>5 DEF Init, TypeOK
  <1>2. ShapeInv
    BY <1>0 DEF Init, ShapeInv, NoCall
  <1>3. \A t \in Clients : ~Asking(t) /\ ~Starting(t) /\ pc[t] = "idle" /\ handles[t] = {}
    BY DEF Init, Asking, Starting
  <1>4. OwnerInv /\ ChunkInv /\ FailedInv
    BY <1>0 DEF Init, OwnerInv, ChunkInv, FailedInv
  <1>5. \A t \in Clients : CallInv(t)
    BY <1>3 DEF CallInv, InCall
  <1>6. EngineInv
    <2>1. CounterMod \in Nat \ {0} /\ 0 \in 0..CounterMod - 1
      BY MDAssumption
    <2>2. 0 % CounterMod = 0
      BY <2>1, ModSmall
    <2> QED
      BY <1>0, <2>2 DEF Init, EngineInv, Executed
  <1>7. TableInv /\ EntryInv /\ SyncInv
    BY <1>0, <1>3 DEF Init, TableInv, EntryInv, SyncInv, WaitInv, Free
  <1> QED
    BY <1>1, <1>2, <1>4, <1>5, <1>6, <1>7 DEF IInv, FlowInv

\* The engine's numbers, when no command is queued, executed or renumbered.
LEMMA EngineFrame ==
  ASSUME EngineInv, UNCHANGED <<cmds, sw_counter, hw_counter, state>>,
         state = 1 => finished_copy_counter' = copy_counter'
  PROVE  EngineInv'
  BY DEF EngineInv, Executed

\* The locals of a call that begins.
LEMMA NewCall ==
  ASSUME NEW c \in Nat, NEW k \in Nat
  PROVE  /\ [NoCall EXCEPT !.copy = c, !.left = k] \in [copy : Nat, left : Nat, req : Nat, id : Nat, handle : Nat]
         /\ [NoCall EXCEPT !.copy = c, !.left = k].copy = c
         /\ [NoCall EXCEPT !.copy = c, !.left = k].left = k
         /\ [NoCall EXCEPT !.copy = c, !.handle = k] \in [copy : Nat, left : Nat, req : Nat, id : Nat, handle : Nat]
         /\ [NoCall EXCEPT !.copy = c, !.handle = k].copy = c
         /\ [NoCall EXCEPT !.copy = c, !.handle = k].handle = k
  BY DEF NoCall

\* md_copy_start is called.
LEMMA CopyStartStep ==
  ASSUME IInv, NEW t \in Clients, NEW k \in Chunks, CopyStart(t, k)
  PROVE  IInv'
  <1>1. /\ pc[t] = "idle" /\ copies' = Append(copies, k) /\ ran' = Append(ran, {})
        /\ pc' = [pc EXCEPT ![t] = "check"]
        /\ call' = [call EXCEPT ![t] = [NoCall EXCEPT !.copy = Len(copies) + 1, !.left = k]]
        /\ UNCHANGED <<copy_task, copy_counter, finished_copy_counter, sw_counter, hw_counter, cmds,
                       state, suspends, handles, failed, synced, owner, swept>>
    BY DEF CopyStart, Goto, tableVars, pmVars, entryVars
  <1>2. TypeOK /\ FlowInv /\ ShapeInv
    BY DEF IInv, FlowInv
  <1>3. k \in Nat /\ k >= 1 /\ Len(copies) \in Nat /\ Len(ran) = Len(copies)
    BY <1>2, Types, MDAssumption DEF ShapeInv
  <1>4. /\ copies' \in Seq(Nat) /\ Len(copies') = Len(copies) + 1 /\ copies'[Len(copies) + 1] = k
        /\ \A c \in 1..Len(copies) : copies'[c] = copies[c]
    BY <1>1, <1>2, <1>3, AppendFacts DEF TypeOK
  <1>5. /\ ran' \in Seq(SUBSET Nat) /\ Len(ran') = Len(copies) + 1 /\ ran'[Len(copies) + 1] = {}
        /\ \A c \in 1..Len(copies) : ran'[c] = ran[c]
    <2>1. {} \in SUBSET Nat /\ ran \in Seq(SUBSET Nat)
      BY <1>2 DEF TypeOK
    <2> QED
      BY <1>1, <1>3, <2>1, AppendFacts
  <1>6. /\ pc'[t] = "check" /\ \A u \in Clients : u # t => pc'[u] = pc[u] /\ call'[u] = call[u]
        /\ call'[t] = [NoCall EXCEPT !.copy = Len(copies) + 1, !.left = k]
        /\ call'[t].copy = Len(copies) + 1 /\ call'[t].left = k
        /\ pc' \in [Clients -> Labels]
    BY <1>1, <1>2 DEF TypeOK, ShapeInv, Labels, NoCall
  <1>7. 1..Len(copies) \subseteq 1..Len(copies') /\ Len(copies) + 1 \in 1..Len(copies')
        /\ \A c \in 1..Len(copies') : c \in 1..Len(copies) \/ c = Len(copies) + 1
    BY <1>3, <1>4
  <1>8. TypeOK'
    <2>1. cmds' \in Seq((1..Len(copies')) \X Nat) /\ owner' \in Seq(1..Len(copies'))
      <3>1. (1..Len(copies)) \X Nat \subseteq (1..Len(copies')) \X Nat
        BY <1>7
      <3>2. cmds \in Seq((1..Len(copies)) \X Nat) /\ owner \in Seq(1..Len(copies))
        BY <1>2 DEF TypeOK
      <3> QED
        BY <1>1, <1>7, <3>1, <3>2
    <2>2. \A u \in Clients : handles'[u] \subseteq (1..Len(copies')) \X Nat
      BY <1>1, <1>2, <1>7 DEF TypeOK
    <2>3. swept' \subseteq 1..Len(copies')
      BY <1>1, <1>2, <1>7 DEF TypeOK
    <2> QED
      BY <1>1, <1>2, <1>4, <1>5, <1>6, <2>1, <2>2, <2>3 DEF TypeOK
  <1>9. ShapeInv'
    <2>1. handles' \in [Clients -> SUBSET ((1..Len(copies')) \X Nat)]
      BY <1>1, <1>2, <1>7 DEF ShapeInv
    <2>2. call' \in [Clients -> [copy : Nat, left : Nat, req : Nat, id : Nat, handle : Nat]]
      <3>1. [NoCall EXCEPT !.copy = Len(copies) + 1, !.left = k]
              \in [copy : Nat, left : Nat, req : Nat, id : Nat, handle : Nat]
        <4>1. Len(copies) + 1 \in Nat
          BY <1>3
        <4> QED
          BY <1>3, <4>1, NewCall
      <3> QED
        BY <1>1, <1>2, <3>1 DEF ShapeInv
    <2>3. \A c \in 1..Len(copies') : copies'[c] >= 1
      BY <1>2, <1>3, <1>4, <1>7 DEF ShapeInv
    <2>4. failed' \subseteq 1..Len(copies')
      BY <1>1, <1>2, <1>7 DEF ShapeInv
    <2> QED
      BY <1>1, <1>2, <1>3, <1>4, <1>5, <2>1, <2>2, <2>3, <2>4 DEF ShapeInv
  <1>10. \A c : Entered(c)' <=> Entered(c)
    BY <1>1 DEF Entered
  <1>11. \A c : Entered(c) => c \in 1..Len(copies)
    BY <1>2, Types DEF Entered
  <1>12. OwnerInv'
    <2>1. ASSUME NEW i \in 1..Len(cmds)
          PROVE  Entered(cmds[i][1]) /\ cmds[i][2] \in 1..copies'[cmds[i][1]]
      <3>1. cmds[i][1] \in 1..Len(copies) /\ Entered(cmds[i][1]) /\ cmds[i][2] \in 1..copies[cmds[i][1]]
        BY <1>2, <1>11 DEF FlowInv, OwnerInv
      <3> QED
        BY <1>4, <3>1
    <2>2. ASSUME NEW c \in 1..Len(copies')
          PROVE  ran'[c] \subseteq 1..copies'[c] /\ (ran'[c] # {} => Entered(c))
      BY <1>2, <1>4, <1>5, <1>7 DEF FlowInv, OwnerInv
    <2> QED
      BY <1>1, <1>2, <1>10, <2>1, <2>2 DEF FlowInv, OwnerInv
  <1>13. \A u \in Clients : u # t => (Asking(u)' <=> Asking(u)) /\ (Starting(u)' <=> Starting(u))
    BY <1>6 DEF Asking, Starting
  <1>14. ~Starting(t) /\ ~Starting(t)' /\ Asking(t)' /\ ~Asking(t)
    BY <1>1, <1>6 DEF Starting, Asking
  <1>15. ASSUME NEW u \in Clients PROVE CallInv(u)'
    <2>1. CASE u = t
      <3>1. PICK c : c = Len(copies) + 1
        OBVIOUS
      <3>2. c \in 1..Len(copies') /\ c \notin 1..Len(copies)
        BY <1>3, <1>7, <3>1
      <3>3. c \notin failed' /\ c \notin swept' /\ ~Entered(c)'
        BY <1>1, <1>2, <1>10, <1>11, <3>2 DEF ShapeInv, TypeOK
      <3>4. \A v \in Clients : InCall(v)' /\ call'[v].copy = c => v = t
        BY <1>2, <1>6, <1>13, <3>2 DEF FlowInv, CallInv, InCall
      <3>5. call'[t].copy = c /\ call'[t].left = copies'[c] /\ pc'[t] = "check"
        BY <1>4, <1>6, <3>1
      <3> QED
        BY <1>14, <2>1, <3>2, <3>3, <3>4, <3>5 DEF CallInv
    <2>2. CASE u # t
      <3>1. CallInv(u) /\ call'[u] = call[u] /\ pc'[u] = pc[u]
        BY <1>2, <1>6, <2>2 DEF FlowInv
      <3>2. InCall(u) => call[u].copy \in 1..Len(copies) /\ call[u].copy \in 1..Len(copies')
                         /\ copies'[call[u].copy] = copies[call[u].copy]
        BY <1>4, <1>7, <3>1 DEF CallInv
      <3>3. InCall(u)' <=> InCall(u)
        BY <1>13, <2>2 DEF InCall
      <3>4. \A v \in Clients : InCall(u)' /\ InCall(v)' /\ call'[v].copy = call[u].copy => v = u
        <4>1. call'[t].copy \notin 1..Len(copies)
          BY <1>3, <1>6
        <4> QED
          BY <1>6, <1>13, <3>1, <3>2, <3>3, <4>1 DEF CallInv, InCall
      <3>5. Number(u)' = Number(u)
        BY <1>1, <3>1 DEF Number
      <3>6. Entered(call[u].copy)' <=> Entered(call[u].copy)
        BY <1>10, <3>1
      <3>7. InCall(u) <=> Asking(u) \/ Starting(u)
        BY DEF InCall
      <3> QED
        BY <1>1, <1>13, <2>2, <3>1, <3>2, <3>3, <3>4, <3>5, <3>6, <3>7 DEF CallInv
    <2> QED
      BY <2>1, <2>2
  <1>16. ChunkInv'
    <2> SUFFICES ASSUME NEW n \in 1..Len(owner'), NEW p \in 1..copies'[owner'[n]],
                        p \notin ran'[owner'[n]], ~\E i \in 1..Len(cmds') : cmds'[i] = <<owner'[n], p>>
                 PROVE  \E u \in Clients : Starting(u)' /\ call'[u].copy = owner'[n]
                                           /\ p > copies'[owner'[n]] - call'[u].left
      BY Zenon DEF ChunkInv
    <2>1. owner'[n] = owner[n] /\ owner[n] \in 1..Len(copies) /\ n \in 1..Len(owner)
      BY <1>1, <1>2, Types
    <2>2. copies'[owner[n]] = copies[owner[n]] /\ ran'[owner[n]] = ran[owner[n]]
      BY <1>4, <1>5, <2>1
    <2>3. PICK u \in Clients : Starting(u) /\ call[u].copy = owner[n] /\ p > copies[owner[n]] - call[u].left
      BY <1>1, <1>2, <2>1, <2>2 DEF FlowInv, ChunkInv
    <2>4. u # t
      BY <1>14, <2>3
    <2> QED
      BY <1>6, <1>13, <2>1, <2>2, <2>3, <2>4
  <1>17. FailedInv'
    <2>1. ASSUME NEW c \in failed PROVE Given(c)' => Given(c)
      BY <1>1, <1>2, <1>5 DEF ShapeInv, Given, Queued
    <2> QED
      BY <1>1, <1>2, <2>1 DEF FlowInv, FailedInv
  <1>18. ASSUME swept' = {} PROVE EngineInv' /\ TableInv' /\ EntryInv' /\ SyncInv'
    <2>1. EngineInv /\ TableInv /\ EntryInv /\ SyncInv
      BY <1>1, <1>18 DEF IInv
    <2>2. \A u \in Clients : /\ Starting(u)' <=> Starting(u)
                             /\ Starting(u) => call'[u] = call[u] /\ pc'[u] = pc[u]
      BY <1>6, <1>13, <1>14
    <2>3. EngineInv'
      BY <1>1, <2>1, EngineFrame DEF EngineInv
    <2>4. TableInv' /\ EntryInv'
      BY <1>1, <2>1, <2>2, TableFrame
    <2>5. CopiesKept
      BY <1>1, <1>2, <2>2, QuietKept
    <2>6. ASSUME NEW u \in Clients PROVE WaitInv(u)'
      BY <1>1, <1>2, <1>6, <2>1, <2>5, WaitFrame DEF SyncInv
    <2>7. SyncInv'
      BY <1>1, <2>1, <2>5, <2>6 DEF SyncInv, CopiesKept, Done
    <2> QED
      BY <2>3, <2>4, <2>7
  <1> QED
    BY <1>8, <1>9, <1>12, <1>15, <1>16, <1>17, <1>18 DEF IInv, FlowInv

\* A client goes from one label to another.
LEMMA GotoTypes ==
  ASSUME TypeOK, NEW t \in Clients, NEW l \in Labels, Goto(t, l)
  PROVE  /\ pc' \in [Clients -> Labels] /\ pc'[t] = l
         /\ \A u \in Clients : u # t => pc'[u] = pc[u]
  BY DEF TypeOK, Goto

\* A call returns.
LEMMA ReturnTypes ==
  ASSUME TypeOK, ShapeInv, NEW t \in Clients, Return(t)
  PROVE  /\ pc' \in [Clients -> Labels] /\ pc'[t] = "idle"
         /\ call' \in [Clients -> [copy : Nat, left : Nat, req : Nat, id : Nat, handle : Nat]]
         /\ \A u \in Clients : u # t => pc'[u] = pc[u] /\ call'[u] = call[u]
  <1>1. NoCall \in [copy : Nat, left : Nat, req : Nat, id : Nat, handle : Nat]
    BY DEF NoCall
  <1> QED
    BY <1>1 DEF TypeOK, ShapeInv, Return, Goto, Labels

\* The table stays in its range and keeps its window.
LEMMA CheckTypes ==
  ASSUME TypeOK, FlowInv, CheckCopyTasks, UNCHANGED copy_counter
  PROVE  /\ copy_task' \in [0..MaxTask - 1 -> [request_id : Nat, copy_id : Nat]]
         /\ finished_copy_counter' \in 0..copy_counter' /\ owner' = owner
         /\ finished_copy_counter' >= finished_copy_counter
         /\ swept' = {} => copy_counter' - finished_copy_counter' <= MaxTask
         /\ swept \subseteq swept' /\ swept' \subseteq 1..Len(copies)
         /\ \A c \in swept' : c \in swept \/ \E t \in Clients : Starting(t) /\ call[t].copy = c
         /\ \A t \in Clients : Starting(t) /\ call[t].copy \notin swept' =>
              copy_task'[call[t].req] = copy_task[call[t].req]
  <1>1. PICK last \in finished_copy_counter..copy_counter : Release(last)
    BY DEF CheckCopyTasks
  <1>2. /\ MaxTask \in Nat /\ copy_counter \in Nat /\ finished_copy_counter \in Nat
        /\ swept = {} => copy_counter - finished_copy_counter <= MaxTask
    BY Types DEF FlowInv, TypeOK
  <1>3. /\ finished_copy_counter' = last /\ owner' = owner
        /\ copy_task' \in [0..MaxTask - 1 -> [request_id : Nat, copy_id : Nat]]
        /\ swept \subseteq swept' /\ swept' \subseteq 1..Len(copies)
        /\ \A c \in swept' : c \in swept \/ \E t \in Clients : Starting(t) /\ call[t].copy = c
        /\ \A t \in Clients : Starting(t) /\ call[t].copy \notin swept' =>
             copy_task'[call[t].req] = copy_task[call[t].req]
    BY <1>1, ReleaseFacts
  <1>4. last \in 0..copy_counter /\ last >= finished_copy_counter
    BY <1>2
  <1>5. swept' = {} => copy_counter - last <= MaxTask
    BY <1>2, <1>3
  <1> QED
    BY <1>3, <1>4, <1>5

\* md_check_copy_tasks when a copy is to be started.
LEMMA StartCheckStep ==
  ASSUME IInv, NEW t \in Clients, StartCheck(t)
  PROVE  IInv'
  <1>1. /\ pc[t] = "check" /\ CheckCopyTasks /\ Goto(t, "alloc")
        /\ UNCHANGED <<copy_counter, sw_counter, hw_counter, cmds, ran, state, suspends,
                       handles, copies, failed, synced, call>>
    BY DEF StartCheck, engineVars, pmVars, histVars
  <1>2. TypeOK /\ FlowInv /\ ShapeInv
    BY DEF IInv, FlowInv
  <1>3. /\ pc' \in [Clients -> Labels] /\ pc'[t] = "alloc"
        /\ \A u \in Clients : u # t => pc'[u] = pc[u]
    BY <1>1, <1>2, GotoTypes DEF Labels
  <1>4. /\ copy_task' \in [0..MaxTask - 1 -> [request_id : Nat, copy_id : Nat]]
        /\ finished_copy_counter' \in 0..copy_counter' /\ owner' = owner
        /\ finished_copy_counter' >= finished_copy_counter
        /\ swept' = {} => copy_counter' - finished_copy_counter' <= MaxTask
        /\ swept \subseteq swept' /\ swept' \subseteq 1..Len(copies)
        /\ \A c \in swept' : c \in swept \/ \E u \in Clients : Starting(u) /\ call[u].copy = c
        /\ \A u \in Clients : Starting(u) /\ call[u].copy \notin swept' =>
             copy_task'[call[u].req] = copy_task[call[u].req]
    BY <1>1, <1>2, CheckTypes
  <1>5. TypeOK' /\ ShapeInv'
    BY <1>1, <1>2, <1>3, <1>4 DEF TypeOK, ShapeInv
  <1>6. \A u \in Clients : /\ Asking(u)' <=> Asking(u)
                           /\ Starting(u)' <=> Starting(u)
                           /\ Starting(u) => pc'[u] = pc[u]
                           /\ pc'[u] \in {"write", "return", "look", "poll", "clean"} => pc'[u] = pc[u]
    BY <1>1, <1>3 DEF Asking, Starting
  <1>7. \A u \in Clients : /\ pc'[u] = "write" => call[u].left >= 1
                           /\ pc'[u] = "return" => call[u].left = 0
    BY <1>2, <1>6 DEF FlowInv, CallInv
  <1>8. \A u \in Clients : Starting(u) /\ call[u].copy \notin swept' => Number(u)' = Number(u)
    BY <1>1, <1>4 DEF Number
  <1>9. OwnerInv' /\ (\A u \in Clients : CallInv(u)') /\ ChunkInv' /\ FailedInv'
    BY <1>1, <1>2, <1>4, <1>6, <1>7, <1>8, FlowFrame
  <1>10. ASSUME swept' = {} PROVE EngineInv' /\ TableInv' /\ EntryInv' /\ SyncInv'
    <2>1. swept = {} /\ EngineInv /\ TableInv /\ EntryInv /\ SyncInv
      BY <1>4, <1>10 DEF IInv
    <2>2. EngineInv'
      <3>1. state = 1 => finished_copy_counter' = copy_counter'
        BY <1>1, <1>2, <1>4, <2>1, Types DEF EngineInv
      <3> QED
        BY <1>1, <2>1, <3>1, EngineFrame
    <2>3. TableInv' /\ EntryInv'
      BY <1>1, <1>2, <1>6, <1>10, <2>1, CheckTable
    <2>4. CopiesKept
      BY <1>1, <1>2, <1>4, <1>6, QuietKept
    <2>5. ASSUME NEW u \in Clients PROVE WaitInv(u)'
      BY <1>1, <1>2, <1>6, <2>1, <2>4, WaitFrame DEF SyncInv
    <2>6. SyncInv'
      BY <1>1, <2>1, <2>4, <2>5 DEF SyncInv, CopiesKept, Done
    <2> QED
      BY <2>2, <2>3, <2>6
  <1> QED
    BY <1>5, <1>9, <1>10 DEF IInv, FlowInv

\* md_copy_sync cleans up and returns.
LEMMA SyncCleanStep ==
  ASSUME IInv, NEW t \in Clients, SyncClean(t)
  PROVE  IInv'
  <1>1. /\ pc[t] = "clean" /\ CheckCopyTasks /\ Return(t) /\ synced' = synced \cup {call[t].copy}
        /\ UNCHANGED <<copy_counter, sw_counter, hw_counter, cmds, ran, state, suspends,
                       handles, copies, failed>>
    BY DEF SyncClean, engineVars, pmVars
  <1>2. TypeOK /\ FlowInv /\ ShapeInv
    BY DEF IInv, FlowInv
  <1>3. /\ pc' \in [Clients -> Labels] /\ pc'[t] = "idle"
        /\ call' \in [Clients -> [copy : Nat, left : Nat, req : Nat, id : Nat, handle : Nat]]
        /\ \A u \in Clients : u # t => pc'[u] = pc[u] /\ call'[u] = call[u]
    BY <1>1, <1>2, ReturnTypes
  <1>4. /\ copy_task' \in [0..MaxTask - 1 -> [request_id : Nat, copy_id : Nat]]
        /\ finished_copy_counter' \in 0..copy_counter' /\ owner' = owner
        /\ finished_copy_counter' >= finished_copy_counter
        /\ swept' = {} => copy_counter' - finished_copy_counter' <= MaxTask
        /\ swept \subseteq swept' /\ swept' \subseteq 1..Len(copies)
        /\ \A c \in swept' : c \in swept \/ \E u \in Clients : Starting(u) /\ call[u].copy = c
        /\ \A u \in Clients : Starting(u) /\ call[u].copy \notin swept' =>
             copy_task'[call[u].req] = copy_task[call[u].req]
    BY <1>1, <1>2, CheckTypes
  <1>5. TypeOK' /\ ShapeInv'
    BY <1>1, <1>2, <1>3, <1>4 DEF TypeOK, ShapeInv
  <1>6. \A u \in Clients : /\ Asking(u)' <=> Asking(u)
                           /\ Starting(u)' <=> Starting(u)
                           /\ Starting(u) \/ InCall(u) => pc'[u] = pc[u] /\ call'[u] = call[u]
                           /\ pc'[u] \in {"write", "return", "look", "poll", "clean"} =>
                                pc'[u] = pc[u] /\ call'[u] = call[u]
    BY <1>1, <1>3 DEF Asking, Starting, InCall
  <1>7. \A u \in Clients : /\ pc'[u] = "write" => call[u].left >= 1
                           /\ pc'[u] = "return" => call[u].left = 0
    BY <1>2, <1>6 DEF FlowInv, CallInv
  <1>8. \A u \in Clients : Starting(u) /\ call[u].copy \notin swept' => Number(u)' = Number(u)
    BY <1>4, <1>6 DEF Number
  <1>9. OwnerInv' /\ (\A u \in Clients : CallInv(u)') /\ ChunkInv' /\ FailedInv'
    BY <1>1, <1>2, <1>4, <1>6, <1>7, <1>8, FlowFrame
  <1>10. ASSUME swept' = {} PROVE EngineInv' /\ TableInv' /\ EntryInv' /\ SyncInv'
    <2>1. swept = {} /\ EngineInv /\ TableInv /\ EntryInv /\ SyncInv
      BY <1>4, <1>10 DEF IInv
    <2>2. EngineInv'
      <3>1. state = 1 => finished_copy_counter' = copy_counter'
        BY <1>1, <1>2, <1>4, <2>1, Types DEF EngineInv
      <3> QED
        BY <1>1, <2>1, <3>1, EngineFrame
    <2>3. TableInv' /\ EntryInv'
      BY <1>1, <1>2, <1>6, <1>10, <2>1, CheckTable
    <2>4. CopiesKept
      BY <1>1, <1>2, <1>4, <1>6, QuietKept
    <2>5. ASSUME NEW u \in Clients PROVE WaitInv(u)'
      BY <1>1, <1>2, <1>6, <2>1, <2>4, WaitFrame DEF SyncInv
    <2>6. ASSUME NEW c \in synced' PROVE Done(c)'
      <3>1. Done(c)
        BY <1>1, <2>1 DEF SyncInv, WaitInv
      <3> QED
        BY <2>4, <3>1 DEF CopiesKept, Done
    <2> QED
      BY <2>2, <2>3, <2>5, <2>6 DEF SyncInv
  <1> QED
    BY <1>5, <1>9, <1>10 DEF IInv, FlowInv

\* Steps of the engine's power, of md_copy_sync and of nobody: neither the
\* table, nor the ring, nor a call of md_copy_start moves.
LEMMA QuietStep ==
  ASSUME IInv, TypeOK', ShapeInv',
         UNCHANGED <<copy_task, copy_counter, finished_copy_counter, sw_counter, cmds, ran,
                     copies, failed, owner, swept>>,
         \A t \in Clients : /\ Asking(t)' <=> Asking(t)
                            /\ Starting(t)' <=> Starting(t)
                            /\ InCall(t) => call'[t] = call[t] /\ pc'[t] = pc[t],
         swept = {} => EngineInv' /\ SyncInv'
  PROVE  IInv'
  <1>1. \A t \in Clients : /\ Starting(t) => call'[t] = call[t] /\ pc'[t] = pc[t]
                           /\ pc'[t] = "write" => pc[t] = "write"
                           /\ pc'[t] = "return" => pc[t] = "return"
    BY DEF InCall, Starting
  <1>2. \A t \in Clients : /\ pc'[t] = "write" => call[t].left >= 1
                           /\ pc'[t] = "return" => call[t].left = 0
    BY <1>1 DEF IInv, FlowInv, CallInv
  <1>3. \A t \in Clients : Starting(t) /\ call[t].copy \notin swept' => Number(t)' = Number(t)
    BY <1>1 DEF Number
  <1>4. OwnerInv' /\ (\A t \in Clients : CallInv(t)') /\ ChunkInv' /\ FailedInv'
    BY <1>2, <1>3, FlowFrame DEF IInv
  <1>5. swept' = {} => TableInv' /\ EntryInv'
    BY <1>1, TableFrame DEF IInv
  <1> QED
    BY <1>4, <1>5 DEF IInv, FlowInv

\* md_copy_sync is called.
LEMMA SyncCallStep ==
  ASSUME IInv, NEW t \in Clients, NEW h \in handles[t], SyncCall(t, h)
  PROVE  IInv'
  <1>1. /\ pc[t] = "idle" /\ handles' = [handles EXCEPT ![t] = @ \ {h}]
        /\ \/ /\ h[2] >= finished_copy_counter /\ synced' = synced
              /\ call' = [call EXCEPT ![t] = [NoCall EXCEPT !.copy = h[1], !.handle = h[2]]]
              /\ pc' = [pc EXCEPT ![t] = "look"]
           \/ /\ ~(h[2] >= finished_copy_counter) /\ synced' = synced \cup {h[1]}
              /\ UNCHANGED <<pc, call>>
        /\ UNCHANGED <<copy_task, copy_counter, finished_copy_counter, sw_counter, hw_counter, cmds,
                       ran, state, suspends, copies, failed, owner, swept>>
    BY DEF SyncCall, Goto, tableVars, engineVars, pmVars, entryVars
  <1>2. TypeOK /\ FlowInv /\ ShapeInv
    BY DEF IInv, FlowInv
  <1>3. h[1] \in Nat /\ h[2] \in Nat /\ h = <<h[1], h[2]>>
    <2>1. h \in (1..Len(copies)) \X Nat
      BY <1>2 DEF TypeOK
    <2> QED
      BY <1>2, <2>1, Types
  <1>4. /\ handles' \in [Clients -> SUBSET ((1..Len(copies)) \X Nat)]
        /\ \A u \in Clients : handles'[u] \subseteq handles[u]
    BY <1>1, <1>2 DEF ShapeInv
  <1>5. call' \in [Clients -> [copy : Nat, left : Nat, req : Nat, id : Nat, handle : Nat]]
    <2>1. [NoCall EXCEPT !.copy = h[1], !.handle = h[2]]
            \in [copy : Nat, left : Nat, req : Nat, id : Nat, handle : Nat]
      BY <1>3, NewCall
    <2> QED
      BY <1>1, <1>2, <2>1 DEF ShapeInv
  <1>6. /\ pc' \in [Clients -> Labels] /\ pc'[t] \in {"idle", "look"}
        /\ \A u \in Clients : u # t => pc'[u] = pc[u] /\ call'[u] = call[u]
        /\ pc'[t] = "look" => call'[t].copy = h[1] /\ call'[t].handle = h[2]
    <2>1. [NoCall EXCEPT !.copy = h[1], !.handle = h[2]].copy = h[1]
          /\ [NoCall EXCEPT !.copy = h[1], !.handle = h[2]].handle = h[2]
      BY <1>3, NewCall
    <2>2. t \in DOMAIN pc /\ t \in DOMAIN call /\ pc \in [Clients -> Labels] /\ "look" \in Labels
      BY <1>2 DEF TypeOK, ShapeInv, Labels
    <2>3. CASE h[2] >= finished_copy_counter
      <3>1. /\ call' = [call EXCEPT ![t] = [NoCall EXCEPT !.copy = h[1], !.handle = h[2]]]
            /\ pc' = [pc EXCEPT ![t] = "look"]
        BY <1>1, <2>3
      <3>2. call'[t] = [NoCall EXCEPT !.copy = h[1], !.handle = h[2]] /\ pc'[t] = "look"
        BY <2>2, <3>1
      <3> QED
        BY <1>2, <2>1, <2>2, <3>1, <3>2 DEF ShapeInv
    <2>4. CASE ~(h[2] >= finished_copy_counter)
      BY <1>1, <2>2, <2>4
    <2> QED
      BY <2>3, <2>4
  <1>7. TypeOK' /\ ShapeInv'
    BY <1>1, <1>2, <1>4, <1>5, <1>6 DEF TypeOK, ShapeInv
  <1>8. \A u \in Clients : /\ Asking(u)' <=> Asking(u)
                           /\ Starting(u)' <=> Starting(u)
                           /\ InCall(u) => call'[u] = call[u] /\ pc'[u] = pc[u]
                           /\ Starting(u) => call'[u] = call[u]
    BY <1>1, <1>6 DEF Asking, Starting, InCall
  <1>9. ASSUME swept = {} PROVE EngineInv' /\ SyncInv'
    <2>1. EngineInv /\ EntryInv /\ SyncInv
      BY <1>9 DEF IInv
    <2>2. EngineInv'
      BY <1>1, <2>1, EngineFrame DEF EngineInv
    <2>3. CopiesKept
      BY <1>1, <1>2, <1>8, QuietKept
    <2>4. Handle(h) /\ Handle(h)'
      BY <1>2, <2>1, <2>3, HandleFrame DEF SyncInv, WaitInv, CopiesKept
    <2>5. ASSUME NEW u \in Clients PROVE WaitInv(u)'
      <3>1. CASE pc'[u] \in {"look", "poll", "clean"} => pc'[u] = pc[u] /\ call'[u] = call[u]
        BY <1>2, <1>4, <2>1, <2>3, <3>1, WaitFrame DEF SyncInv
      <3>2. CASE u = t /\ pc'[t] = "look"
        <4>1. \A g \in handles'[t] : Handle(g)'
          BY <1>2, <1>4, <2>1, <2>3, HandleFrame DEF SyncInv, WaitInv, CopiesKept
        <4>2. Handle(<<call[t].copy, call[t].handle>>)'
          BY <1>3, <1>6, <2>4, <3>2
        <4> QED
          BY <3>2, <4>1, <4>2 DEF WaitInv
      <3> QED
        BY <1>6, <3>1, <3>2
    <2>6. ASSUME NEW c \in synced' PROVE Done(c)'
      <3>1. CASE c \in synced
        BY <2>1, <2>3, <3>1 DEF SyncInv, CopiesKept, Done
      <3>2. CASE c \notin synced
        <4>1. c = h[1] /\ ~(h[2] >= finished_copy_counter)
          BY <1>1, <3>2
        <4>2. h[2] \in 0..finished_copy_counter - 1 /\ owner[h[2] + 1] = c
          BY <1>2, <1>3, <2>4, <4>1, Types DEF Handle
        <4>3. Done(c)
          BY <2>1, <4>2 DEF EntryInv
        <4> QED
          BY <2>3, <4>3 DEF CopiesKept, Done
      <3> QED
        BY <3>1, <3>2
    <2> QED
      BY <2>2, <2>5, <2>6 DEF SyncInv
  <1> QED
    BY <1>1, <1>7, <1>8, <1>9, QuietStep

\* md_copy_sync looks at the entry, which may have gone to another copy.
LEMMA SyncLookStep ==
  ASSUME IInv, NEW t \in Clients, SyncLook(t)
  PROVE  IInv'
  <1>1. /\ pc[t] = "look" /\ Goto(t, "poll")
        /\ call' = [call EXCEPT ![t].id = copy_task[call[t].handle % MaxTask].request_id]
        /\ UNCHANGED <<copy_task, copy_counter, finished_copy_counter, sw_counter, hw_counter, cmds,
                       ran, state, suspends, handles, copies, failed, synced, owner, swept>>
    BY DEF SyncLook, tableVars, engineVars, pmVars, histVars, entryVars
  <1>2. TypeOK /\ FlowInv /\ ShapeInv
    BY DEF IInv, FlowInv
  <1>3. /\ pc' \in [Clients -> Labels] /\ pc'[t] = "poll"
        /\ \A u \in Clients : u # t => pc'[u] = pc[u]
    BY <1>1, <1>2, GotoTypes DEF Labels
  <1>4. call[t].handle \in Int /\ call[t].handle % MaxTask \in 0..MaxTask - 1
    <2>1. call[t].handle \in Int
      BY <1>2 DEF ShapeInv
    <2> QED
      BY <2>1, EntryExists
  <1>5. PICK e \in Nat : e = copy_task[call[t].handle % MaxTask].request_id
    BY <1>2, <1>4, Types
  <1>6. /\ call' \in [Clients -> [copy : Nat, left : Nat, req : Nat, id : Nat, handle : Nat]]
        /\ call'[t].copy = call[t].copy /\ call'[t].id = e
        /\ \A u \in Clients : u # t => call'[u] = call[u]
    BY <1>1, <1>2, <1>5 DEF ShapeInv
  <1>7. TypeOK' /\ ShapeInv'
    BY <1>1, <1>2, <1>3, <1>6 DEF TypeOK, ShapeInv
  <1>8. \A u \in Clients : /\ Asking(u)' <=> Asking(u)
                           /\ Starting(u)' <=> Starting(u)
                           /\ InCall(u) => call'[u] = call[u] /\ pc'[u] = pc[u]
                           /\ Starting(u) => call'[u] = call[u]
    BY <1>1, <1>3, <1>6 DEF Asking, Starting, InCall
  <1>9. ASSUME swept = {} PROVE EngineInv' /\ SyncInv'
    <2>1. EngineInv /\ EntryInv /\ SyncInv
      BY <1>9 DEF IInv
    <2>2. EngineInv'
      BY <1>1, <2>1, EngineFrame DEF EngineInv
    <2>3. CopiesKept
      BY <1>1, <1>2, <1>8, QuietKept
    <2>4. ASSUME NEW u \in Clients PROVE WaitInv(u)'
      <3>1. CASE u # t
        BY <1>1, <1>2, <1>3, <1>6, <2>1, <2>3, <3>1, WaitFrame DEF SyncInv
      <3>2. CASE u = t
        <4>1. PICK c, n : c = call[t].copy /\ n = call[t].handle
          OBVIOUS
        <4>2. n \in 0..copy_counter - 1 /\ owner[n + 1] = c /\ Returned(c)
          BY <1>1, <2>1, <4>1 DEF SyncInv, WaitInv, Handle
        <4>3. Queued(c) => Behind(c, e)
          <5>1. CASE n \in 0..finished_copy_counter - 1
            BY <2>1, <4>2, <5>1 DEF EntryInv, Done
          <5>2. CASE n \in finished_copy_counter..copy_counter - 1
            BY <1>5, <2>1, <4>1, <4>2, <5>2 DEF EntryInv
          <5> QED
            BY <1>2, <4>2, <5>1, <5>2, Types
        <4>4. Returned(c)' /\ (Queued(c)' => Behind(c, e)')
          BY <2>3, <4>2, <4>3 DEF CopiesKept
        <4>5. \A g \in handles'[t] : Handle(g)'
          BY <1>1, <1>2, <2>1, <2>3, HandleFrame DEF SyncInv, WaitInv, CopiesKept
        <4>6. call'[t].copy = c /\ call'[t].id = e
          BY <1>6, <4>1
        <4> QED
          BY <1>3, <3>2, <4>4, <4>5, <4>6 DEF WaitInv
      <3> QED
        BY <3>1, <3>2
    <2>5. ASSUME NEW c \in synced' PROVE Done(c)'
      BY <1>1, <2>1, <2>3 DEF SyncInv, CopiesKept, Done
    <2> QED
      BY <2>2, <2>4, <2>5 DEF SyncInv
  <1> QED
    BY <1>1, <1>7, <1>8, <1>9, QuietStep

\* The polling loop ends.
LEMMA SyncPollStep ==
  ASSUME IInv, NEW t \in Clients, SyncPoll(t)
  PROVE  IInv'
  <1>1. /\ pc[t] = "poll" /\ CheckFinish(call[t].id) /\ Goto(t, "clean")
        /\ UNCHANGED <<copy_task, copy_counter, finished_copy_counter, sw_counter, hw_counter, cmds,
                       ran, state, suspends, handles, copies, failed, synced, owner, swept, call>>
    BY DEF SyncPoll, tableVars, engineVars, pmVars, histVars, entryVars
  <1>2. TypeOK /\ FlowInv /\ ShapeInv
    BY DEF IInv, FlowInv
  <1>3. /\ pc' \in [Clients -> Labels] /\ pc'[t] = "clean"
        /\ \A u \in Clients : u # t => pc'[u] = pc[u]
    BY <1>1, <1>2, GotoTypes DEF Labels
  <1>4. TypeOK' /\ ShapeInv'
    BY <1>1, <1>2, <1>3 DEF TypeOK, ShapeInv
  <1>5. \A u \in Clients : /\ Asking(u)' <=> Asking(u)
                           /\ Starting(u)' <=> Starting(u)
                           /\ InCall(u) => call'[u] = call[u] /\ pc'[u] = pc[u]
    BY <1>1, <1>3 DEF Asking, Starting, InCall
  <1>6. ASSUME swept = {} PROVE EngineInv' /\ SyncInv'
    <2>1. EngineInv /\ SyncInv
      BY <1>6 DEF IInv
    <2>2. EngineInv'
      BY <1>1, <2>1, EngineFrame DEF EngineInv
    <2>3. CopiesKept
      BY <1>1, <1>2, <1>5, QuietKept
    <2>4. ASSUME NEW u \in Clients PROVE WaitInv(u)'
      <3>1. CASE u # t
        BY <1>1, <1>2, <1>3, <2>1, <2>3, <3>1, WaitFrame DEF SyncInv
      <3>2. CASE u = t
        <4>1. PICK c, e : c = call[t].copy /\ e = call[t].id
          OBVIOUS
        <4>2. Returned(c) /\ (Queued(c) => Behind(c, e)) /\ CheckFinish(e)
          BY <1>1, <2>1, <4>1 DEF SyncInv, WaitInv
        <4>3. ~Queued(c)
          BY <1>2, <2>1, <4>2, BehindFinished
        <4>4. Done(c)'
          BY <2>3, <4>2, <4>3 DEF CopiesKept, Done
        <4>5. \A g \in handles'[t] : Handle(g)'
          BY <1>1, <1>2, <2>1, <2>3, HandleFrame DEF SyncInv, WaitInv, CopiesKept
        <4>6. call'[t].copy = c
          BY <1>1, <4>1
        <4> QED
          BY <1>3, <3>2, <4>4, <4>5, <4>6 DEF WaitInv
      <3> QED
        BY <3>1, <3>2
    <2>5. ASSUME NEW c \in synced' PROVE Done(c)'
      BY <1>1, <2>1, <2>3 DEF SyncInv, CopiesKept, Done
    <2> QED
      BY <2>2, <2>4, <2>5 DEF SyncInv
  <1> QED
    BY <1>1, <1>4, <1>5, <1>6, QuietStep

\* The register is lost with the power, and restored by md_drv_resume.
LEMMA PowerStep ==
  ASSUME IInv, PowerOff \/ Resume
  PROVE  IInv'
  <1>1. /\ state = 1
        /\ \/ state' = 1 /\ hw_counter' = 0
           \/ state' = 0 /\ hw_counter' = sw_counter % CounterMod
        /\ UNCHANGED <<copy_task, copy_counter, finished_copy_counter, sw_counter, cmds, ran, suspends,
                       handles, copies, failed, synced, owner, swept, pc, call>>
    BY DEF PowerOff, Resume, tableVars, pmVars, histVars, entryVars
  <1>2. TypeOK /\ FlowInv /\ ShapeInv
    BY DEF IInv, FlowInv
  <1>3. CounterMod \in Nat \ {0} /\ 0 \in 0..CounterMod - 1 /\ sw_counter \in Int
    BY <1>2, Types, MDAssumption
  <1>4. hw_counter' \in 0..CounterMod - 1
    <2>1. sw_counter % CounterMod \in 0..CounterMod - 1
      BY <1>3, ModRange
    <2> QED
      BY <1>1, <1>3, <2>1
  <1>5. TypeOK' /\ ShapeInv'
    BY <1>1, <1>2, <1>4 DEF TypeOK, ShapeInv
  <1>6. \A u \in Clients : /\ Asking(u)' <=> Asking(u)
                           /\ Starting(u)' <=> Starting(u)
                           /\ InCall(u) => call'[u] = call[u] /\ pc'[u] = pc[u]
    BY <1>1 DEF Asking, Starting
  <1>7. ASSUME swept = {} PROVE EngineInv' /\ SyncInv'
    <2>1. EngineInv /\ SyncInv
      BY <1>7 DEF IInv
    <2>2. EngineInv'
      <3>1. cmds = << >> /\ finished_copy_counter = copy_counter
        BY <1>1, <2>1 DEF EngineInv
      <3>2. Executed' = sw_counter /\ Len(cmds) <= sw_counter
        BY <1>1, <1>3, <2>1, <3>1 DEF Executed, EngineInv
      <3> QED
        BY <1>1, <3>1, <3>2 DEF EngineInv
    <2>3. CopiesKept
      BY <1>1, <1>2, <1>6, QuietKept
    <2>4. ASSUME NEW u \in Clients PROVE WaitInv(u)'
      BY <1>1, <1>2, <2>1, <2>3, WaitFrame DEF SyncInv
    <2>5. ASSUME NEW c \in synced' PROVE Done(c)'
      BY <1>1, <2>1, <2>3 DEF SyncInv, CopiesKept, Done
    <2> QED
      BY <2>2, <2>4, <2>5 DEF SyncInv
  <1> QED
    BY <1>1, <1>5, <1>6, <1>7, QuietStep

\* A step that changes nothing.
LEMMA StutterStep ==
  ASSUME IInv, UNCHANGED vars
  PROVE  IInv'
  <1>1. UNCHANGED <<copy_task, copy_counter, finished_copy_counter, sw_counter, hw_counter, cmds, ran,
                    state, suspends, handles, copies, failed, synced, owner, swept, pc, call>>
    BY DEF vars, tableVars, engineVars, pmVars, histVars, entryVars
  <1>2. TypeOK' /\ ShapeInv'
    BY <1>1 DEF IInv, FlowInv, TypeOK, ShapeInv
  <1>3. \A u \in Clients : /\ Asking(u)' <=> Asking(u)
                           /\ Starting(u)' <=> Starting(u)
                           /\ InCall(u) => call'[u] = call[u] /\ pc'[u] = pc[u]
    BY <1>1 DEF Asking, Starting
  <1>4. ASSUME swept = {} PROVE EngineInv' /\ SyncInv'
    <2>1. EngineInv /\ SyncInv
      BY <1>4 DEF IInv
    <2>2. EngineInv'
      BY <1>1, <2>1, EngineFrame DEF EngineInv
    <2>3. CopiesKept
      BY <1>1, <1>3, QuietKept DEF IInv
    <2>4. ASSUME NEW u \in Clients PROVE WaitInv(u)'
      BY <1>1, <2>1, <2>3, WaitFrame DEF SyncInv, IInv
    <2>5. ASSUME NEW c \in synced' PROVE Done(c)'
      BY <1>1, <2>1, <2>3 DEF SyncInv, CopiesKept, Done
    <2> QED
      BY <2>2, <2>4, <2>5 DEF SyncInv
  <1> QED
    BY <1>1, <1>2, <1>3, <1>4, QuietStep

\* A call of md_copy_start returns: what is known of the other calls and of the
\* chunks stays, whether or not the copy is reported as failed.
LEMMA LeaveFlow ==
  ASSUME IInv, NEW t \in Clients, InCall(t), Starting(t) => call[t].left = 0,
         \A u \in Clients : u # t => pc'[u] = pc[u] /\ call'[u] = call[u],
         pc'[t] = "idle", UNCHANGED <<copy_task, copies, ran, cmds, owner, swept>>,
         failed' \subseteq failed \cup {call[t].copy}
  PROVE  /\ OwnerInv' /\ (\A u \in Clients : CallInv(u)') /\ ChunkInv'
         /\ \A u \in Clients : /\ Starting(u)' <=> Starting(u) /\ u # t
                               /\ Asking(u)' <=> Asking(u) /\ u # t
  <1>1. TypeOK /\ FlowInv /\ ShapeInv
    BY DEF IInv, FlowInv
  <1>2. \A u \in Clients : /\ Starting(u)' <=> Starting(u) /\ u # t
                           /\ Asking(u)' <=> Asking(u) /\ u # t
                           /\ InCall(u)' <=> InCall(u) /\ u # t
    BY DEF Starting, Asking, InCall
  <1>3. OwnerInv'
    BY <1>1 DEF FlowInv, OwnerInv, Entered
  <1>4. ASSUME NEW u \in Clients PROVE CallInv(u)'
    <2>1. CASE u = t
      BY <1>2, <2>1 DEF CallInv
    <2>2. CASE u # t
      <3>1. CallInv(u) /\ CallInv(t) /\ call'[u] = call[u] /\ pc'[u] = pc[u]
        BY <1>1, <2>2 DEF FlowInv
      <3>2. InCall(u)' => call[u].copy \in 1..Len(copies) /\ call[u].copy \notin failed'
        BY <1>2, <2>2, <3>1 DEF CallInv
      <3>3. \A v \in Clients : InCall(u)' /\ InCall(v)' /\ call'[v].copy = call[u].copy => v = u
        BY <1>2, <3>1 DEF CallInv
      <3>4. Number(u)' = Number(u)
        BY <3>1 DEF Number
      <3>5. Entered(call[u].copy)' <=> Entered(call[u].copy)
        BY <3>1 DEF Entered
      <3> QED
        BY <1>2, <2>2, <3>1, <3>2, <3>3, <3>4, <3>5 DEF CallInv
    <2> QED
      BY <2>1, <2>2
  <1>5. ChunkInv'
    <2> SUFFICES ASSUME NEW n \in 1..Len(owner'), NEW p \in 1..copies'[owner'[n]],
                        p \notin ran'[owner'[n]], ~\E i \in 1..Len(cmds') : cmds'[i] = <<owner'[n], p>>
                 PROVE  \E u \in Clients : Starting(u)' /\ call'[u].copy = owner'[n]
                                           /\ p > copies'[owner'[n]] - call'[u].left
      BY Zenon DEF ChunkInv
    <2>1. PICK u \in Clients : Starting(u) /\ call[u].copy = owner[n] /\ p > copies[owner[n]] - call[u].left
      BY <1>1 DEF FlowInv, ChunkInv
    <2>2. owner[n] \in 1..Len(copies) /\ copies[owner[n]] \in Nat /\ p \in 1..copies[owner[n]]
      BY <1>1, Types
    <2>3. u # t
      BY <2>1, <2>2
    <2> QED
      BY <1>2, <2>1, <2>3
  <1> QED
    BY <1>2, <1>3, <1>4, <1>5

\* md_alloc_copy_request refuses the copy, of which the engine has nothing.
LEMMA AllocRefusedStep ==
  ASSUME IInv, NEW t \in Clients, AllocRefused(t)
  PROVE  IInv'
  <1>1. /\ pc[t] = "alloc" /\ Return(t) /\ failed' = failed \cup {call[t].copy}
        /\ UNCHANGED <<copy_task, copy_counter, finished_copy_counter, sw_counter, hw_counter, cmds, ran,
                       state, suspends, handles, copies, synced, owner, swept>>
    BY DEF AllocRefused, tableVars, engineVars, pmVars, entryVars
  <1>2. TypeOK /\ FlowInv /\ ShapeInv
    BY DEF IInv, FlowInv
  <1>3. /\ pc' \in [Clients -> Labels] /\ pc'[t] = "idle"
        /\ call' \in [Clients -> [copy : Nat, left : Nat, req : Nat, id : Nat, handle : Nat]]
        /\ \A u \in Clients : u # t => pc'[u] = pc[u] /\ call'[u] = call[u]
    BY <1>1, <1>2, ReturnTypes
  <1>4. Asking(t) /\ InCall(t) /\ ~Starting(t)
    BY <1>1 DEF Asking, Starting, InCall
  <1>5. call[t].copy \in 1..Len(copies) /\ ~Entered(call[t].copy)
    BY <1>2, <1>4 DEF FlowInv, CallInv
  <1>6. TypeOK' /\ ShapeInv'
    BY <1>1, <1>2, <1>3, <1>5 DEF TypeOK, ShapeInv
  <1>7. /\ OwnerInv' /\ (\A u \in Clients : CallInv(u)') /\ ChunkInv'
        /\ \A u \in Clients : Starting(u)' <=> Starting(u)
    BY <1>1, <1>3, <1>4, LeaveFlow
  <1>8. FailedInv'
    <2>1. \A c : Given(c)' <=> Given(c)
      BY <1>1 DEF Given, Queued
    <2>2. ~Given(call[t].copy)
      BY <1>2, <1>5 DEF FlowInv, OwnerInv, Given, Queued
    <2>3. ASSUME NEW c \in failed', Given(c)' PROVE c = owner[1] \/ c \in swept
      BY <1>1, <1>2, <2>1, <2>2, <2>3 DEF FlowInv, FailedInv
    <2> QED
      BY <1>1, <2>3 DEF FailedInv
  <1>9. ASSUME swept' = {} PROVE EngineInv' /\ TableInv' /\ EntryInv' /\ SyncInv'
    <2>1. EngineInv /\ TableInv /\ EntryInv /\ SyncInv
      BY <1>1, <1>9 DEF IInv
    <2>2. \A u \in Clients : /\ Starting(u)' <=> Starting(u)
                             /\ Starting(u) => call'[u] = call[u] /\ pc'[u] = pc[u]
      BY <1>3, <1>4, <1>7
    <2>3. EngineInv'
      BY <1>1, <2>1, EngineFrame DEF EngineInv
    <2>4. TableInv' /\ EntryInv'
      BY <1>1, <2>1, <2>2, TableFrame
    <2>5. CopiesKept
      BY <1>1, <1>2, <2>2, QuietKept
    <2>6. ASSUME NEW u \in Clients PROVE WaitInv(u)'
      BY <1>1, <1>2, <1>3, <2>1, <2>5, WaitFrame DEF SyncInv
    <2>7. SyncInv'
      BY <1>1, <2>1, <2>5, <2>6 DEF SyncInv, CopiesKept, Done
    <2> QED
      BY <2>3, <2>4, <2>7
  <1> QED
    BY <1>6, <1>7, <1>8, <1>9 DEF IInv, FlowInv

\* md_copy_start returns what its entry has: the copy's number, or the zero of
\* the first copy, or whatever is there once the entry is lost.
LEMMA StartReturnStep ==
  ASSUME IInv, NEW t \in Clients, StartReturn(t)
  PROVE  IInv'
  <1>1. /\ pc[t] = "return" /\ Return(t)
        /\ \/ Number(t) = 0 /\ failed' = failed \cup {call[t].copy} /\ handles' = handles
           \/ /\ Number(t) # 0 /\ failed' = failed
              /\ handles' = [handles EXCEPT ![t] = @ \cup {<<call[t].copy, Number(t)>>}]
        /\ UNCHANGED <<copy_task, copy_counter, finished_copy_counter, sw_counter, hw_counter, cmds, ran,
                       state, suspends, copies, synced, owner, swept>>
    BY DEF StartReturn, Number, tableVars, engineVars, pmVars, entryVars
  <1>2. TypeOK /\ FlowInv /\ ShapeInv
    BY DEF IInv, FlowInv
  <1>3. /\ pc' \in [Clients -> Labels] /\ pc'[t] = "idle"
        /\ call' \in [Clients -> [copy : Nat, left : Nat, req : Nat, id : Nat, handle : Nat]]
        /\ \A u \in Clients : u # t => pc'[u] = pc[u] /\ call'[u] = call[u]
    BY <1>1, <1>2, ReturnTypes
  <1>4. Starting(t) /\ InCall(t)
    BY <1>1 DEF Starting, InCall
  <1>5. PICK c \in 1..Len(copies) : c = call[t].copy /\ c \notin failed /\ Entered(c) /\ call[t].left = 0
                                   /\ call[t].req \in 0..MaxTask - 1
    BY <1>1, <1>2, <1>4 DEF FlowInv, CallInv
  <1>6. PICK n \in Nat : n = Number(t)
    BY <1>2, <1>5, Types DEF Number
  <1>7. c \notin swept => n < Len(owner) /\ owner[n + 1] = c
    BY <1>2, <1>4, <1>5, <1>6 DEF FlowInv, CallInv
  <1>8. handles' \in [Clients -> SUBSET ((1..Len(copies)) \X Nat)]
    <2>1. {<<c, n>>} \subseteq (1..Len(copies)) \X Nat
      OBVIOUS
    <2>2. handles \in [Clients -> SUBSET ((1..Len(copies)) \X Nat)]
      BY <1>2 DEF ShapeInv
    <2>3. CASE n = 0
      BY <1>1, <1>6, <2>2, <2>3
    <2>4. CASE n # 0
      <3>1. handles' = [handles EXCEPT ![t] = @ \cup {<<c, n>>}]
        BY <1>1, <1>5, <1>6, <2>4
      <3> QED
        BY <2>1, <2>2, <3>1
    <2> QED
      BY <2>3, <2>4
  <1>9. TypeOK' /\ ShapeInv'
    BY <1>1, <1>2, <1>3, <1>5, <1>8 DEF TypeOK, ShapeInv
  <1>10. /\ OwnerInv' /\ (\A u \in Clients : CallInv(u)') /\ ChunkInv'
         /\ \A u \in Clients : Starting(u)' <=> Starting(u) /\ u # t
    BY <1>1, <1>3, <1>4, <1>5, LeaveFlow
  <1>11. FailedInv'
    <2>1. \A d : Given(d)' <=> Given(d)
      BY <1>1 DEF Given, Queued
    <2>2. Number(t) = 0 => c = owner[1] \/ c \in swept
      BY <1>6, <1>7
    <2>3. ASSUME NEW d \in failed', Given(d)' PROVE d = owner[1] \/ d \in swept
      BY <1>1, <1>2, <1>5, <2>1, <2>2, <2>3 DEF FlowInv, FailedInv
    <2> QED
      BY <1>1, <2>3 DEF FailedInv
  <1>12. ASSUME swept' = {} PROVE EngineInv' /\ TableInv' /\ EntryInv' /\ SyncInv'
    <2>1. swept = {} /\ EngineInv /\ TableInv /\ EntryInv /\ SyncInv
      BY <1>1, <1>12 DEF IInv
    <2>2. EngineInv'
      BY <1>1, <2>1, EngineFrame DEF EngineInv
    <2>3. owner[n + 1] = c /\ n \in finished_copy_counter..copy_counter - 1 /\ call[t].req = n % MaxTask
      BY <1>4, <1>6, <1>7, <2>1 DEF TableInv
    <2>4. Behind(c, copy_task[n % MaxTask].request_id)
      BY <1>1, <1>5, <2>1, <2>3 DEF EntryInv
    <2>5. \A d : Returned(d)' <=> Returned(d) \/ d = c
      <3>1. ASSUME NEW u \in Clients, Starting(u), u # t PROVE call[u].copy # c
        BY <1>2, <1>4, <1>5, <3>1 DEF FlowInv, CallInv, InCall
      <3>2. \A d : Entered(d)' <=> Entered(d)
        BY <1>1 DEF Entered
      <3>3. Returned(c)'
        BY <1>3, <1>5, <1>10, <3>1, <3>2 DEF Returned
      <3>4. ASSUME NEW d, d # c PROVE Returned(d)' <=> Returned(d)
        BY <1>3, <1>5, <1>10, <3>2, <3>4 DEF Returned
      <3> QED
        BY <3>3, <3>4
    <2>6. /\ \A d : Queued(d)' <=> Queued(d)
          /\ \A d, e : Behind(d, e)' <=> Behind(d, e)
      BY <1>1 DEF Queued, Behind, Executed
    <2>7. TableInv'
      <3>1. \A u \in Clients : Starting(u)' => Starting(u) /\ call'[u] = call[u] /\ Number(u)' = Number(u)
        BY <1>1, <1>3, <1>10 DEF Number
      <3> QED
        BY <1>1, <2>1, <3>1 DEF TableInv
    <2>8. EntryInv'
      <3>1. ASSUME NEW m \in finished_copy_counter..copy_counter - 1
            PROVE  (Returned(owner[m + 1]) => Behind(owner[m + 1], copy_task[m % MaxTask].request_id))'
        <4>1. CASE owner[m + 1] = c
          <5>1. m + 1 \in 1..Len(owner) /\ n + 1 \in 1..Len(owner)
            BY <1>2, <2>3, Types
          <5>2. m + 1 = n + 1
            BY <1>2, <2>3, <4>1, <5>1 DEF FlowInv, OwnerInv
          <5>3. m = n
            BY <5>2
          <5> QED
            BY <1>1, <2>3, <2>4, <2>6, <5>3
        <4>2. CASE owner[m + 1] # c
          BY <1>1, <2>1, <2>5, <2>6, <4>2 DEF EntryInv
        <4> QED
          BY <4>1, <4>2
      <3>2. ASSUME NEW m \in 0..finished_copy_counter - 1 PROVE Done(owner[m + 1])'
        BY <1>1, <2>1, <2>5, <2>6 DEF EntryInv, Done
      <3>3. ASSUME NEW u \in Clients
            PROVE  (/\ pc[u] = "store" => Behind(call[u].copy, call[u].id)
                    /\ pc[u] = "return" => Behind(call[u].copy, copy_task[call[u].req].request_id))'
        <4>1. pc'[u] \in {"store", "return"} => pc'[u] = pc[u] /\ call'[u] = call[u]
          BY <1>3
        <4> QED
          BY <1>1, <2>1, <2>6, <4>1 DEF EntryInv
      <3> QED
        BY <1>1, <3>1, <3>2, <3>3 DEF EntryInv
    <2>9. CopiesKept
      BY <1>1, <1>2, <2>5, <2>6, Types DEF CopiesKept
    <2>10. ASSUME NEW u \in Clients PROVE WaitInv(u)'
      <3>1. CASE u # t
        BY <1>1, <1>2, <1>3, <2>1, <2>9, <3>1, WaitFrame DEF SyncInv, ShapeInv
      <3>2. CASE u = t
        <4>1. ASSUME NEW h \in handles'[t] PROVE Handle(h)'
          <5>1. CASE h \in handles[t]
            BY <1>2, <2>1, <2>9, <5>1, HandleFrame DEF SyncInv, WaitInv, CopiesKept
          <5>2. CASE h \notin handles[t]
            <6>1. h = <<c, n>>
              BY <1>1, <1>2, <1>5, <1>6, <5>2 DEF ShapeInv
            <6>2. n \in 0..copy_counter - 1
              BY <1>2, <2>3, Types
            <6>3. h[1] = c /\ h[2] = n
              BY <6>1
            <6> QED
              BY <1>1, <2>3, <2>5, <6>2, <6>3 DEF Handle
          <5> QED
            BY <5>1, <5>2
        <4> QED
          BY <1>3, <3>2, <4>1 DEF WaitInv
      <3> QED
        BY <3>1, <3>2
    <2>11. SyncInv'
      BY <1>1, <2>1, <2>9, <2>10 DEF SyncInv, CopiesKept, Done
    <2> QED
      BY <2>2, <2>7, <2>8, <2>11
  <1> QED
    BY <1>9, <1>10, <1>11, <1>12 DEF IInv, FlowInv

\* md_alloc_copy_request takes an entry.
LEMMA AllocStep ==
  ASSUME IInv, NEW t \in Clients, Alloc(t)
  PROVE  IInv'
  <1>1. /\ pc[t] = "alloc" /\ state = 0 /\ copy_task[Entry].request_id = 0 /\ Goto(t, "write")
        /\ copy_task' = [copy_task EXCEPT ![Entry].copy_id = copy_counter]
        /\ copy_counter' = copy_counter + 1 /\ call' = [call EXCEPT ![t].req = Entry]
        /\ owner' = Append(owner, call[t].copy) /\ swept' = swept \cup Victims({Entry})
        /\ UNCHANGED <<finished_copy_counter, sw_counter, hw_counter, cmds, ran, state, suspends,
                       handles, copies, failed, synced>>
    BY DEF Alloc, Takes, engineVars, pmVars, histVars
  <1>2. TypeOK /\ FlowInv /\ ShapeInv
    BY DEF IInv, FlowInv
  <1>3. /\ pc' \in [Clients -> Labels] /\ pc'[t] = "write"
        /\ \A u \in Clients : u # t => pc'[u] = pc[u]
    BY <1>1, <1>2, GotoTypes DEF Labels
  <1>4. /\ copy_counter \in Nat /\ finished_copy_counter \in Nat /\ finished_copy_counter <= copy_counter
        /\ Len(owner) = copy_counter /\ MaxTask \in Nat \ {0} /\ copy_counter \in Int
    BY <1>2, Types
  <1>5. PICK x \in 0..MaxTask - 1 : x = Entry
    BY <1>4, EntryExists DEF Entry
  <1>6. Asking(t) /\ InCall(t) /\ ~Starting(t) /\ Starting(t)' /\ ~Asking(t)'
    BY <1>1, <1>3 DEF Asking, Starting, InCall
  <1>7. PICK c \in 1..Len(copies) : /\ c = call[t].copy /\ c \notin failed /\ ~Entered(c) /\ c \notin swept
                                   /\ call[t].left = copies[c]
    BY <1>2, <1>6 DEF FlowInv, CallInv
  <1>8. /\ call' \in [Clients -> [copy : Nat, left : Nat, req : Nat, id : Nat, handle : Nat]]
        /\ call'[t].copy = c /\ call'[t].left = copies[c] /\ call'[t].req = x
        /\ \A u \in Clients : u # t => call'[u] = call[u]
    <2>1. /\ call \in [Clients -> [copy : Nat, left : Nat, req : Nat, id : Nat, handle : Nat]]
          /\ call' = [call EXCEPT ![t].req = x] /\ x \in Nat
      BY <1>1, <1>2, <1>4, <1>5 DEF ShapeInv
    <2> QED
      BY <1>7, <2>1
  <1>9. /\ owner' \in Seq(1..Len(copies)) /\ Len(owner') = copy_counter + 1
        /\ owner'[copy_counter + 1] = c /\ \A n \in 1..copy_counter : owner'[n] = owner[n]
    <2>1. owner \in Seq(1..Len(copies))
      BY <1>2 DEF TypeOK
    <2> QED
      BY <1>1, <1>4, <1>7, <2>1, AppendFacts
  <1>10. /\ copy_task' \in [0..MaxTask - 1 -> [request_id : Nat, copy_id : Nat]]
         /\ copy_task'[x].copy_id = copy_counter /\ copy_task'[x].request_id = 0
         /\ \A i \in 0..MaxTask - 1 : i # x => copy_task'[i] = copy_task[i]
         /\ \A i \in 0..MaxTask - 1 : copy_task'[i].request_id = copy_task[i].request_id
    BY <1>1, <1>2, <1>4, <1>5 DEF TypeOK
  <1>11. \A u \in Clients : /\ Asking(u)' <=> Asking(u) /\ u # t
                            /\ Starting(u)' <=> Starting(u) \/ u = t
                            /\ InCall(u)' <=> InCall(u)
                            /\ u # t => pc'[u] = pc[u] /\ call'[u] = call[u]
    BY <1>3, <1>6, <1>8 DEF Asking, Starting, InCall
  <1>12. \A d : Entered(d)' <=> Entered(d) \/ d = c
    <2>1. \A n \in 1..copy_counter + 1 : n \in 1..copy_counter \/ n = copy_counter + 1
      BY <1>4
    <2>2. copy_counter + 1 \in 1..copy_counter + 1 /\ 1..copy_counter \subseteq 1..copy_counter + 1
      BY <1>4
    <2> QED
      BY <1>4, <1>9, <2>1, <2>2 DEF Entered
  <1>13. /\ swept \subseteq swept' /\ swept' \subseteq 1..Len(copies)
         /\ \A d \in swept' : d \in swept \/ \E u \in Clients : Starting(u) /\ call[u].copy = d
         /\ \A u \in Clients : Starting(u) /\ call[u].copy \notin swept' => call[u].req # x
    <2>1. ASSUME NEW d \in Victims({Entry})
          PROVE  d \in 1..Len(copies) /\ \E u \in Clients : Starting(u) /\ call[u].copy = d
      BY <1>2 DEF Victims, Starting, FlowInv, CallInv, InCall
    <2>2. ASSUME NEW u \in Clients, Starting(u), call[u].req = x PROVE call[u].copy \in Victims({Entry})
      BY <1>5, <2>2 DEF Victims, Starting
    <2> QED
      BY <1>1, <1>2, <2>1, <2>2 DEF TypeOK
  <1>14. ASSUME swept' = {} PROVE copy_counter + 1 - finished_copy_counter <= MaxTask
    <2> SUFFICES ASSUME copy_counter + 1 - finished_copy_counter > MaxTask PROVE FALSE
      BY <1>4
    <2>1. swept = {} /\ TableInv /\ EntryInv
      BY <1>13, <1>14 DEF IInv
    <2>2. copy_counter = finished_copy_counter + MaxTask
      BY <1>2, <1>4, <2>1 DEF TypeOK
    <2>3. finished_copy_counter % MaxTask = x
      <3>1. finished_copy_counter \in Int
        BY <1>4
      <3> QED
        BY <1>5, <2>2, <3>1, EntryRepeats DEF Entry
    <2>4. PICK n : n = finished_copy_counter
      OBVIOUS
    <2>5. n \in 0..copy_counter - 1 /\ n \in finished_copy_counter..copy_counter - 1
      BY <1>4, <2>2, <2>4
    <2>6. ~Returned(owner[n + 1])
      <3>1. ~Behind(owner[n + 1], 0)
        BY DEF Behind
      <3> QED
        BY <1>1, <1>5, <2>1, <2>3, <2>4, <2>5, <3>1 DEF EntryInv
    <2>7. PICK u \in Clients : Starting(u) /\ Number(u) = n
      BY <1>2, <2>1, <2>5, <2>6, NumberOwner
    <2>8. call[u].req = x
      BY <2>1, <2>3, <2>4, <2>7 DEF TableInv
    <2> QED
      BY <1>13, <1>14, <2>7, <2>8
  <1>15. TypeOK' /\ ShapeInv'
    <2>1. finished_copy_counter' \in 0..copy_counter' /\ copy_counter' \in Nat
      BY <1>1, <1>4
    <2>2. TypeOK'
      <3>1. swept' = {} => copy_counter' - finished_copy_counter' <= MaxTask
        <4>1. copy_counter' = copy_counter + 1 /\ finished_copy_counter' = finished_copy_counter
          BY <1>1
        <4> QED
          BY <1>4, <1>14, <4>1
      <3>2. /\ copy_task' \in [0..MaxTask - 1 -> [request_id : Nat, copy_id : Nat]]
            /\ pc' \in [Clients -> Labels] /\ owner' \in Seq(1..Len(copies')) /\ swept' \subseteq 1..Len(copies')
        BY <1>1, <1>3, <1>9, <1>10, <1>13
      <3>3. /\ sw_counter' \in Nat /\ hw_counter' \in 0..CounterMod - 1
            /\ cmds' \in Seq((1..Len(copies')) \X Nat) /\ Len(cmds') <= RingCmds
            /\ state' \in {0, 1} /\ suspends' \in Nat /\ copies' \in Seq(Nat) /\ ran' \in Seq(SUBSET Nat)
            /\ \A u \in Clients : handles'[u] \subseteq (1..Len(copies')) \X Nat
        BY <1>1, <1>2 DEF TypeOK
      <3> QED
        BY <2>1, <3>1, <3>2, <3>3 DEF TypeOK
    <2>3. ShapeInv'
      BY <1>1, <1>2, <1>8, <1>9 DEF ShapeInv
    <2> QED
      BY <2>2, <2>3
  <1>16. OwnerInv'
    <2>1. ASSUME NEW m \in 1..copy_counter + 1, NEW n \in 1..copy_counter + 1, owner'[m] = owner'[n]
          PROVE  m = n
      <3>1. \A i \in 1..copy_counter : owner'[i] # c
        BY <1>4, <1>7, <1>9 DEF Entered
      <3>2. m \in 1..copy_counter \/ m = copy_counter + 1
        BY <1>4
      <3>3. n \in 1..copy_counter \/ n = copy_counter + 1
        BY <1>4
      <3> QED
        BY <1>2, <1>4, <1>9, <2>1, <3>1, <3>2, <3>3 DEF FlowInv, OwnerInv
    <2>2. ASSUME NEW i \in 1..Len(cmds)
          PROVE  (Entered(cmds[i][1]) /\ cmds[i][2] \in 1..copies[cmds[i][1]])'
      BY <1>1, <1>2, <1>12 DEF FlowInv, OwnerInv
    <2>3. ASSUME NEW d \in 1..Len(copies)
          PROVE  (ran[d] \subseteq 1..copies[d] /\ (ran[d] # {} => Entered(d)))'
      BY <1>1, <1>2, <1>12 DEF FlowInv, OwnerInv
    <2> QED
      BY <1>1, <1>9, <2>1, <2>2, <2>3 DEF OwnerInv
  <1>17. ASSUME NEW u \in Clients PROVE CallInv(u)'
    <2>1. \A v \in Clients : InCall(v) /\ call[v].copy = c => v = t
      BY <1>2, <1>6, <1>7 DEF FlowInv, CallInv
    <2>2. \A v \in Clients : InCall(v) => call'[v].copy = call[v].copy
      BY <1>7, <1>8
    <2>3. CASE u = t
      <3>1. Number(t)' = copy_counter
        BY <1>8, <1>10 DEF Number
      <3>2. copies[c] \in Nat /\ copies[c] >= 1
        BY <1>2, Types
      <3>3. Entered(call[t].copy)'
        BY <1>8, <1>12
      <3>4. call'[t].left >= 1 /\ call'[t].left <= copies'[c]
        BY <1>1, <1>8, <3>2
      <3>5. Number(t)' < Len(owner') /\ owner'[Number(t)' + 1] = c
        BY <1>4, <1>9, <3>1
      <3>6. \A v \in Clients : InCall(v)' /\ call'[v].copy = c => v = t
        BY <1>11, <2>1, <2>2
      <3> QED
        BY <1>1, <1>3, <1>5, <1>6, <1>7, <1>8, <2>3, <3>3, <3>4, <3>5, <3>6 DEF CallInv
    <2>4. CASE u # t
      <3>1. CallInv(u) /\ call'[u] = call[u] /\ pc'[u] = pc[u]
        BY <1>2, <1>11, <2>4 DEF FlowInv
      <3>2. \A v \in Clients : InCall(u)' /\ InCall(v)' /\ call'[v].copy = call[u].copy => v = u
        BY <1>11, <2>2, <3>1 DEF CallInv
      <3>3. InCall(u) => call[u].copy # c
        BY <2>1, <2>4
      <3>4. Asking(u) => ~Entered(call[u].copy)' /\ call[u].copy \notin swept'
        <4> SUFFICES ASSUME Asking(u) PROVE ~Entered(call[u].copy)' /\ call[u].copy \notin swept'
          OBVIOUS
        <4>1. InCall(u) /\ ~Starting(u) /\ ~Entered(call[u].copy) /\ call[u].copy \notin swept
          BY <3>1 DEF CallInv, InCall, Asking, Starting
        <4>2. ~Entered(call[u].copy)'
          BY <1>12, <3>1, <3>3, <4>1
        <4>3. ASSUME NEW v \in Clients, Starting(v) PROVE call[v].copy # call[u].copy
          BY <3>1, <4>1, <4>3 DEF CallInv, InCall
        <4> QED
          BY <1>13, <4>1, <4>2, <4>3
      <3>5. Starting(u) => Entered(call[u].copy)'
        BY <1>12, <3>1 DEF CallInv
      <3>6. ASSUME Starting(u), call[u].copy \notin swept'
            PROVE  Number(u)' < Len(owner') /\ owner'[Number(u)' + 1] = call[u].copy
        <4>1. call[u].req # x /\ call[u].req \in 0..MaxTask - 1
          BY <1>13, <3>1, <3>6 DEF CallInv
        <4>2. Number(u)' = Number(u) /\ Number(u) \in Nat
          BY <1>2, <1>10, <3>1, <4>1, Types DEF Number
        <4>3. Number(u) < Len(owner) /\ owner[Number(u) + 1] = call[u].copy
          BY <1>13, <3>1, <3>6 DEF CallInv
        <4>4. Number(u) + 1 \in 1..copy_counter
          BY <1>4, <4>2, <4>3
        <4> QED
          BY <1>4, <1>9, <4>2, <4>3, <4>4
      <3>7. InCall(u) <=> Asking(u) \/ Starting(u)
        BY DEF InCall
      <3>8. /\ InCall(u)' <=> InCall(u)
            /\ Asking(u)' <=> Asking(u)
            /\ Starting(u)' <=> Starting(u)
        BY <1>11, <2>4
      <3>9. InCall(u)' => call'[u].copy \in 1..Len(copies') /\ call'[u].copy \notin failed'
        BY <1>1, <3>1, <3>8 DEF CallInv
      <3>10. Asking(u)' => /\ call'[u].left = copies'[call'[u].copy] /\ ~Entered(call[u].copy)'
                          /\ call'[u].copy \notin swept'
        BY <1>1, <3>1, <3>4, <3>8 DEF CallInv
      <3>11. Starting(u)' => /\ Entered(call[u].copy)' /\ call'[u].req \in 0..MaxTask - 1
                            /\ call'[u].left <= copies'[call'[u].copy]
        BY <1>1, <3>1, <3>5, <3>8 DEF CallInv
      <3>12. /\ pc'[u] = "write" => call'[u].left >= 1
             /\ pc'[u] = "return" => call'[u].left = 0
        BY <3>1 DEF CallInv
      <3> QED
        BY <3>1, <3>2, <3>6, <3>8, <3>9, <3>10, <3>11, <3>12 DEF CallInv
    <2> QED
      BY <2>3, <2>4
  <1>18. ChunkInv'
    <2> SUFFICES ASSUME NEW n \in 1..Len(owner'), NEW p \in 1..copies'[owner'[n]],
                        p \notin ran'[owner'[n]], ~\E i \in 1..Len(cmds') : cmds'[i] = <<owner'[n], p>>
                 PROVE  \E u \in Clients : Starting(u)' /\ call'[u].copy = owner'[n]
                                           /\ p > copies'[owner'[n]] - call'[u].left
      BY Zenon DEF ChunkInv
    <2>1. CASE n \in 1..copy_counter
      <3>1. owner'[n] = owner[n] /\ n \in 1..Len(owner)
        BY <1>4, <1>9, <2>1
      <3>0. /\ p \in 1..copies[owner[n]] /\ p \notin ran[owner[n]]
            /\ ~\E i \in 1..Len(cmds) : cmds[i] = <<owner[n], p>>
        BY <1>1, <3>1
      <3>2. PICK u \in Clients : Starting(u) /\ call[u].copy = owner[n] /\ p > copies[owner[n]] - call[u].left
        BY <1>2, <3>0, <3>1 DEF FlowInv, ChunkInv
      <3>3. u # t
        BY <1>6, <3>2
      <3> QED
        BY <1>1, <1>11, <3>1, <3>2, <3>3
    <2>2. CASE n = copy_counter + 1
      <3>1. owner'[n] = c /\ copies'[c] = copies[c] /\ copies[c] \in Nat
        BY <1>1, <1>2, <1>9, <2>2, Types
      <3>2. p > copies'[c] - call'[t].left
        BY <1>8, <3>1
      <3> QED
        BY <1>6, <1>8, <3>1, <3>2
    <2> QED
      BY <1>4, <1>9, <2>1, <2>2
  <1>19. FailedInv'
    <2>1. ASSUME NEW d \in failed', Given(d)' PROVE d = owner'[1] \/ d \in swept'
      <3>1. Given(d) /\ d \in failed /\ d \in 1..Len(copies)
        BY <1>1, <1>2, <2>1 DEF Given, Queued, ShapeInv
      <3>2. Entered(d)
        BY <1>2, <3>1 DEF FlowInv, OwnerInv, Given, Queued
      <3>3. 1 \in 1..copy_counter
        BY <1>4, <3>2 DEF Entered
      <3> QED
        BY <1>2, <1>9, <1>13, <3>1, <3>3 DEF FlowInv, FailedInv
    <2> QED
      BY <2>1 DEF FailedInv
  <1>20. ASSUME swept' = {} PROVE EngineInv' /\ TableInv' /\ EntryInv' /\ SyncInv'
    <2>1. swept = {} /\ EngineInv /\ TableInv /\ EntryInv /\ SyncInv
      BY <1>13, <1>20 DEF IInv
    <2>2. EngineInv'
      BY <1>1, <2>1, EngineFrame
    <2>3. \A d : Returned(d) => d # c
      BY <1>7 DEF Returned
    <2>4. ASSUME NEW d, d # c PROVE Returned(d)' <=> Returned(d)
      <3>1. Entered(d)' <=> Entered(d)
        BY <1>12, <2>4
      <3>2. (\A u \in Clients : Starting(u) => call[u].copy # d)'
              <=> \A u \in Clients : Starting(u) => call[u].copy # d
        BY <1>6, <1>8, <1>11, <2>4
      <3> QED
        BY <3>1, <3>2 DEF Returned
    <2>5. ~Returned(c)'
      BY <1>6, <1>8 DEF Returned
    <2>6. /\ \A d : Queued(d)' <=> Queued(d)
          /\ \A d, e : Behind(d, e)' <=> Behind(d, e)
      BY <1>1 DEF Queued, Behind, Executed
    <2>7. ASSUME NEW n \in finished_copy_counter..copy_counter - 1
          PROVE  n % MaxTask # x /\ copy_task'[n % MaxTask] = copy_task[n % MaxTask]
                 /\ owner'[n + 1] = owner[n + 1]
      <3>1. /\ n \in finished_copy_counter..finished_copy_counter + MaxTask - 1
            /\ copy_counter \in finished_copy_counter..finished_copy_counter + MaxTask - 1
            /\ n # copy_counter /\ finished_copy_counter \in Int /\ n \in Int /\ n + 1 \in 1..copy_counter
        BY <1>4, <1>14, <1>20
      <3>2. n % MaxTask # x
        BY <1>5, <3>1, EntriesDiffer DEF Entry
      <3>3. n % MaxTask \in 0..MaxTask - 1
        BY <3>1, EntryExists
      <3> QED
        BY <1>9, <1>10, <3>1, <3>2, <3>3
    <2>8. TableInv'
      <3>1. ASSUME NEW i \in 0..MaxTask - 1, copy_task'[i].request_id # 0
            PROVE  \E n \in finished_copy_counter'..copy_counter' - 1 : n % MaxTask = i
        <4>1. PICK n \in finished_copy_counter..copy_counter - 1 : n % MaxTask = i
          BY <1>10, <2>1, <3>1 DEF TableInv
        <4>2. n \in finished_copy_counter'..copy_counter' - 1
          BY <1>1, <1>4
        <4> QED
          BY <4>1, <4>2
      <3>2. ASSUME NEW u \in Clients, Starting(u)'
            PROVE  /\ Number(u)' \in finished_copy_counter'..copy_counter' - 1
                   /\ call'[u].req = Number(u)' % MaxTask
        <4>1. CASE u = t
          <5>1. Number(t)' = copy_counter
            BY <1>8, <1>10 DEF Number
          <5>2. copy_counter \in finished_copy_counter'..copy_counter' - 1
            BY <1>1, <1>4
          <5> QED
            BY <1>5, <1>8, <4>1, <5>1, <5>2 DEF Entry
        <4>2. CASE u # t
          <5>1. Starting(u) /\ call'[u] = call[u]
            BY <1>11, <3>2, <4>2
          <5>2. /\ Number(u) \in finished_copy_counter..copy_counter - 1
                /\ call[u].req = Number(u) % MaxTask
            BY <2>1, <5>1 DEF TableInv
          <5>3. Number(u)' = Number(u)
            BY <2>7, <5>1, <5>2 DEF Number
          <5>4. Number(u) \in finished_copy_counter'..copy_counter' - 1
            BY <1>1, <1>4, <5>2
          <5> QED
            BY <5>1, <5>2, <5>3, <5>4
        <4> QED
          BY <4>1, <4>2
      <3> QED
        BY <3>1, <3>2 DEF TableInv
    <2>9. EntryInv'
      <3>1. ASSUME NEW n \in finished_copy_counter'..copy_counter' - 1
            PROVE  (Returned(owner[n + 1]) => Behind(owner[n + 1], copy_task[n % MaxTask].request_id))'
        <4>1. CASE n = copy_counter
          BY <1>9, <2>5, <4>1
        <4>2. CASE n \in finished_copy_counter..copy_counter - 1
          <5>1. owner[n + 1] # c
            <6>1. n + 1 \in 1..Len(owner)
              BY <1>4, <4>2
            <6> QED
              BY <1>7, <6>1 DEF Entered
          <5> QED
            BY <2>1, <2>4, <2>6, <2>7, <4>2, <5>1 DEF EntryInv
        <4> QED
          BY <1>1, <1>4, <4>1, <4>2
      <3>2. ASSUME NEW n \in 0..finished_copy_counter' - 1 PROVE Done(owner[n + 1])'
        <4>1. n \in 0..finished_copy_counter - 1 /\ n + 1 \in 1..copy_counter
          BY <1>1, <1>4
        <4>2. Done(owner[n + 1]) /\ owner'[n + 1] = owner[n + 1]
          BY <1>9, <2>1, <4>1 DEF EntryInv
        <4> QED
          BY <2>3, <2>4, <2>6, <4>2 DEF Done
      <3>3. ASSUME NEW u \in Clients
            PROVE  (/\ pc[u] = "store" => Behind(call[u].copy, call[u].id)
                    /\ pc[u] = "return" => Behind(call[u].copy, copy_task[call[u].req].request_id))'
        <4>1. pc'[u] \in {"store", "return"} => pc'[u] = pc[u] /\ call'[u] = call[u] /\ Starting(u)
          BY <1>3, <1>11 DEF Starting
        <4>2. Starting(u) => copy_task'[call[u].req].request_id = copy_task[call[u].req].request_id
          BY <1>2, <1>10 DEF FlowInv, CallInv
        <4> QED
          BY <2>1, <2>6, <4>1, <4>2 DEF EntryInv
      <3> QED
        BY <3>1, <3>2, <3>3 DEF EntryInv
    <2>10. CopiesKept
      BY <1>1, <1>4, <1>9, <2>3, <2>4, <2>6 DEF CopiesKept
    <2>11. ASSUME NEW u \in Clients PROVE WaitInv(u)'
      BY <1>1, <1>2, <1>3, <1>11, <2>1, <2>10, WaitFrame DEF SyncInv
    <2>12. SyncInv'
      BY <1>1, <2>1, <2>10, <2>11 DEF SyncInv, CopiesKept, Done
    <2> QED
      BY <2>2, <2>8, <2>9, <2>12
  <1> QED
    BY <1>15, <1>16, <1>17, <1>18, <1>19, <1>20 DEF IInv, FlowInv

\* A command is queued: the next chunk of the copy.
LEMMA WriteCmdStep ==
  ASSUME IInv, NEW t \in Clients, WriteCmd(t)
  PROVE  IInv'
  <1>1. /\ pc[t] = "write" /\ Len(cmds) < RingCmds /\ Goto(t, "store")
        /\ cmds' = Append(cmds, <<call[t].copy, copies[call[t].copy] - call[t].left + 1>>)
        /\ sw_counter' = sw_counter + 1
        /\ call' = [call EXCEPT ![t].id = sw_counter + 1, ![t].left = @ - 1]
        /\ UNCHANGED <<copy_task, copy_counter, finished_copy_counter, hw_counter, ran, state, suspends,
                       handles, copies, failed, synced, owner, swept>>
    BY DEF WriteCmd, tableVars, pmVars, histVars, entryVars
  <1>u. UNCHANGED <<copy_task, copy_counter, finished_copy_counter, ran, handles, copies, failed, owner, swept>>
    BY <1>1
  <1>2. TypeOK /\ FlowInv /\ ShapeInv
    BY DEF IInv, FlowInv
  <1>3. /\ pc' \in [Clients -> Labels] /\ pc'[t] = "store"
        /\ \A u \in Clients : u # t => pc'[u] = pc[u]
    BY <1>1, <1>2, GotoTypes DEF Labels
  <1>4. Starting(t) /\ InCall(t) /\ ~Asking(t) /\ Starting(t)' /\ ~Asking(t)'
    BY <1>1, <1>3 DEF Asking, Starting, InCall
  <1>5. PICK c \in 1..Len(copies) : /\ c = call[t].copy /\ c \notin failed /\ Entered(c)
                                   /\ call[t].req \in 0..MaxTask - 1
    BY <1>2, <1>4 DEF FlowInv, CallInv
  <1>6. PICK l \in Nat, k \in Nat, s \in Nat :
          l = call[t].left /\ k = copies[c] /\ s = sw_counter /\ l >= 1 /\ l <= k
    BY <1>1, <1>2, <1>4, <1>5, Types DEF FlowInv, CallInv, ShapeInv
  <1>7. PICK p \in 1..k : p = k - l + 1
    BY <1>6
  <1>8. /\ call' \in [Clients -> [copy : Nat, left : Nat, req : Nat, id : Nat, handle : Nat]]
        /\ call'[t].copy = c /\ call'[t].left = l - 1 /\ call'[t].id = s + 1 /\ call'[t].req = call[t].req
        /\ \A u \in Clients : u # t => call'[u] = call[u]
    <2>1. /\ call \in [Clients -> [copy : Nat, left : Nat, req : Nat, id : Nat, handle : Nat]]
          /\ s + 1 \in Nat /\ l - 1 \in Nat
      BY <1>2, <1>6 DEF ShapeInv
    <2>2. call' = [call EXCEPT ![t] = [call[t] EXCEPT !.id = s + 1, !.left = l - 1]]
      BY <1>1, <1>6, <2>1
    <2>3. PICK r : r = [call[t] EXCEPT !.id = s + 1, !.left = l - 1]
      OBVIOUS
    <2>4. /\ r \in [copy : Nat, left : Nat, req : Nat, id : Nat, handle : Nat]
          /\ r.copy = call[t].copy /\ r.left = l - 1 /\ r.id = s + 1 /\ r.req = call[t].req
      BY <2>1, <2>3
    <2> QED
      BY <1>5, <2>1, <2>2, <2>3, <2>4
  <1>9. /\ cmds' \in Seq((1..Len(copies)) \X Nat) /\ Len(cmds') = Len(cmds) + 1 /\ Len(cmds) \in Nat
        /\ cmds'[Len(cmds) + 1] = <<c, p>> /\ cmds'[Len(cmds) + 1][1] = c /\ \A i \in 1..Len(cmds) : cmds'[i] = cmds[i]
    <2>1. <<c, p>> \in (1..Len(copies)) \X Nat /\ cmds \in Seq((1..Len(copies)) \X Nat)
      BY <1>2 DEF TypeOK
    <2>2. cmds' = Append(cmds, <<c, p>>)
      BY <1>1, <1>5, <1>6, <1>7
    <2>3. cmds'[Len(cmds) + 1] = <<c, p>> /\ <<c, p>>[1] = c
      BY <2>1, <2>2, AppendFacts
    <2> QED
      BY <2>1, <2>2, <2>3, AppendFacts
  <1>10. \A i \in 1..Len(cmds') : i \in 1..Len(cmds) \/ i = Len(cmds) + 1
    BY <1>9
  <1>11. 1..Len(cmds) \subseteq 1..Len(cmds') /\ Len(cmds) + 1 \in 1..Len(cmds')
    BY <1>9
  <1>12. TypeOK' /\ ShapeInv'
    <2>1. Len(cmds') <= RingCmds
      <3>1. Len(cmds) < RingCmds /\ RingCmds \in Nat
        BY <1>1, MDAssumption
      <3> QED
        BY <1>9, <3>1
    <2>2. sw_counter' \in Nat
      BY <1>1, <1>6
    <2> QED
      BY <1>1, <1>2, <1>3, <1>8, <1>9, <2>1, <2>2 DEF TypeOK, ShapeInv
  <1>13. \A u \in Clients : /\ Asking(u)' <=> Asking(u)
                            /\ Starting(u)' <=> Starting(u)
                            /\ InCall(u)' <=> InCall(u)
                            /\ u # t => pc'[u] = pc[u] /\ call'[u] = call[u]
                            /\ call'[u].copy = call[u].copy /\ call'[u].req = call[u].req
    BY <1>3, <1>4, <1>5, <1>8 DEF Asking, Starting, InCall
  <1>14. \A d : Entered(d)' <=> Entered(d)
    BY <1>1 DEF Entered
  <1>15. OwnerInv'
    <2>1. ASSUME NEW i \in 1..Len(cmds')
          PROVE  (Entered(cmds[i][1]) /\ cmds[i][2] \in 1..copies[cmds[i][1]])'
      <3>1. CASE i \in 1..Len(cmds)
        BY <1>1, <1>2, <1>9, <1>14, <3>1 DEF FlowInv, OwnerInv
      <3>2. CASE i = Len(cmds) + 1
        <4>1. cmds'[i][1] = c /\ cmds'[i][2] = p
          BY <1>9, <3>2
        <4> QED
          BY <1>1, <1>5, <1>6, <1>14, <4>1
      <3> QED
        BY <1>10, <3>1, <3>2
    <2> QED
      BY <1>1, <1>2, <1>14, <2>1 DEF FlowInv, OwnerInv
  <1>16. ASSUME NEW u \in Clients PROVE CallInv(u)'
    <2>1. CallInv(u) /\ Number(u)' = Number(u)
      BY <1>1, <1>2, <1>13 DEF FlowInv, Number
    <2>2. \A v \in Clients : InCall(u)' /\ InCall(v)' /\ call'[v].copy = call'[u].copy => v = u
      BY <1>13, <2>1 DEF CallInv
    <2>3. InCall(u)' => call'[u].copy \in 1..Len(copies') /\ call'[u].copy \notin failed'
      BY <1>u, <1>13, <2>1 DEF CallInv
    <2>4. Asking(u)' => /\ call'[u].left = copies'[call'[u].copy] /\ ~Entered(call[u].copy)'
                        /\ call'[u].copy \notin swept'
      <3>1. Asking(u)' => u # t
        BY <1>4
      <3> QED
        BY <1>u, <1>13, <1>14, <2>1, <3>1 DEF CallInv
    <2>5. Starting(u)' => /\ Entered(call[u].copy)' /\ call'[u].req \in 0..MaxTask - 1
                          /\ call'[u].left <= copies'[call'[u].copy]
      <3>1. CASE u = t
        <4>1. l - 1 <= k
          BY <1>6
        <4> QED
          BY <1>1, <1>5, <1>6, <1>8, <1>14, <3>1, <4>1
      <3>2. CASE u # t
        BY <1>1, <1>13, <1>14, <2>1, <3>2 DEF CallInv
      <3> QED
        BY <3>1, <3>2
    <2>6. /\ pc'[u] = "write" => call'[u].left >= 1
          /\ pc'[u] = "return" => call'[u].left = 0
      <3>1. pc'[u] \in {"write", "return"} => u # t
        BY <1>3
      <3> QED
        BY <1>13, <2>1, <3>1 DEF CallInv
    <2>7. Starting(u)' /\ call'[u].copy \notin swept' =>
            Number(u)' < Len(owner') /\ owner'[Number(u)' + 1] = call'[u].copy
      BY <1>u, <1>13, <2>1 DEF CallInv
    <2> QED
      BY <2>2, <2>3, <2>4, <2>5, <2>6, <2>7 DEF CallInv
  <1>17. ChunkInv'
    <2> SUFFICES ASSUME NEW n \in 1..Len(owner'), NEW q \in 1..copies'[owner'[n]],
                        q \notin ran'[owner'[n]], ~\E i \in 1..Len(cmds') : cmds'[i] = <<owner'[n], q>>
                 PROVE  \E u \in Clients : Starting(u)' /\ call'[u].copy = owner'[n]
                                           /\ q > copies'[owner'[n]] - call'[u].left
      BY Zenon DEF ChunkInv
    <2>1. /\ n \in 1..Len(owner) /\ q \in 1..copies[owner[n]] /\ q \notin ran[owner[n]]
          /\ ~\E i \in 1..Len(cmds) : cmds[i] = <<owner[n], q>>
          /\ ~(owner[n] = c /\ q = p)
      BY <1>1, <1>9, <1>11
    <2>2. PICK u \in Clients : Starting(u) /\ call[u].copy = owner[n] /\ q > copies[owner[n]] - call[u].left
      BY <1>2, <2>1 DEF FlowInv, ChunkInv
    <2>3. CASE u # t
      BY <1>1, <1>13, <2>2, <2>3
    <2>4. CASE u = t
      <3>1. owner[n] = c /\ q > k - l /\ q # k - l + 1 /\ q \in Nat
        BY <1>5, <1>6, <1>7, <2>1, <2>2, <2>4
      <3>2. q > k - (l - 1)
        BY <3>1
      <3> QED
        BY <1>1, <1>4, <1>6, <1>8, <3>1, <3>2
    <2> QED
      BY <2>3, <2>4
  <1>18. FailedInv'
    <2>1. ASSUME NEW d \in failed, Given(d)' PROVE Given(d)
      <3>1. d # c
        BY <1>5
      <3>2. Queued(d)' => Queued(d)
        BY <1>9, <1>10, <3>1 DEF Queued
      <3> QED
        BY <1>1, <2>1, <3>2 DEF Given
    <2> QED
      BY <1>1, <1>2, <2>1 DEF FlowInv, FailedInv
  <1>19. ASSUME swept' = {} PROVE EngineInv' /\ TableInv' /\ EntryInv' /\ SyncInv'
    <2>1. swept = {} /\ EngineInv /\ TableInv /\ EntryInv /\ SyncInv
      BY <1>1, <1>19 DEF IInv
    <2>2. Executed' = Executed /\ Executed \in Int /\ Executed + Len(cmds) = s /\ Len(cmds) <= s
      BY SMTT(30), <1>1, <1>6, <1>9, <2>1 DEF Executed, EngineInv
    <2>3. EngineInv'
      <3>1. state # 1
        <4>1. Number(t) \in finished_copy_counter..copy_counter - 1
          BY <1>4, <2>1 DEF TableInv
        <4>2. finished_copy_counter # copy_counter
          BY <1>2, <4>1, Types
        <4> QED
          BY <2>1, <4>2 DEF EngineInv
      <3>2. Len(cmds') <= sw_counter'
        BY <1>1, <1>6, <1>9, <2>2
      <3> QED
        BY <1>1, <2>1, <2>2, <3>1, <3>2 DEF EngineInv
    <2>4. \A d : Returned(d)' <=> Returned(d)
      BY <1>13, <1>14 DEF Returned
    <2>5. \A d : Returned(d) => d # c
      BY <1>4, <1>5 DEF Returned
    <2>6. \A d : d # c /\ Queued(d)' => Queued(d)
      BY <1>9, <1>10 DEF Queued
    <2>7. ASSUME NEW d, NEW e, d # c, Behind(d, e) PROVE Behind(d, e)'
      <3>1. e \in 1..sw_counter'
        BY <1>1, <1>6, <2>7 DEF Behind
      <3>2. ASSUME NEW i \in 1..Len(cmds'), cmds'[i][1] = d PROVE Executed' + i <= e
        <4>1. i # Len(cmds) + 1
          BY <1>9, <2>7, <3>2
        <4>2. i \in 1..Len(cmds) /\ cmds'[i] = cmds[i]
          BY <1>9, <1>10, <4>1
        <4> QED
          BY <2>2, <2>7, <3>2, <4>2 DEF Behind
      <3> QED
        BY <3>1, <3>2 DEF Behind
    <2>8. Behind(c, s + 1)'
      <3>1. s + 1 \in 1..sw_counter'
        BY <1>1, <1>6
      <3>2. ASSUME NEW i \in 1..Len(cmds') PROVE Executed' + i <= s + 1
        BY <1>9, <2>2
      <3> QED
        BY <3>1, <3>2 DEF Behind
    <2>9. CopiesKept
      BY SMTT(30), <1>1, <1>2, <2>4, <2>5, <2>6, <2>7, Types DEF CopiesKept
    <2>10. TableInv'
      <3>1. \A u \in Clients : Number(u)' = Number(u)
        BY <1>1, <1>13 DEF Number
      <3> QED
        BY <1>1, <1>13, <2>1, <3>1 DEF TableInv
    <2>11. EntryInv'
      <3>1. ASSUME NEW n \in finished_copy_counter..copy_counter - 1
            PROVE  (Returned(owner[n + 1]) => Behind(owner[n + 1], copy_task[n % MaxTask].request_id))'
        BY <1>1, <2>1, <2>4, <2>5, <2>7 DEF EntryInv
      <3>2. ASSUME NEW n \in 0..finished_copy_counter - 1 PROVE Done(owner[n + 1])'
        BY <1>1, <2>1, <2>4, <2>5, <2>6 DEF EntryInv, Done
      <3>3. ASSUME NEW u \in Clients
            PROVE  (/\ pc[u] = "store" => Behind(call[u].copy, call[u].id)
                    /\ pc[u] = "return" => Behind(call[u].copy, copy_task[call[u].req].request_id))'
        <4>1. CASE u = t
          BY <1>3, <1>8, <2>8, <4>1
        <4>2. CASE u # t
          <5>1. pc'[u] = pc[u] /\ call'[u] = call[u]
            BY <1>13, <4>2
          <5>2. pc[u] \in {"store", "return"} => call[u].copy # c
            BY <1>2, <1>4, <1>5, <4>2 DEF FlowInv, CallInv, InCall, Starting
          <5> QED
            BY <1>1, <2>1, <2>7, <5>1, <5>2 DEF EntryInv
        <4> QED
          BY <4>1, <4>2
      <3> QED
        BY <1>1, <3>1, <3>2, <3>3 DEF EntryInv
    <2>12. ASSUME NEW u \in Clients PROVE WaitInv(u)'
      BY <1>1, <1>2, <1>3, <1>13, <2>1, <2>9, WaitFrame DEF SyncInv
    <2>13. SyncInv'
      BY <1>1, <2>1, <2>9, <2>12 DEF SyncInv, CopiesKept, Done
    <2> QED
      BY <2>3, <2>10, <2>11, <2>13
  <1> QED
    BY <1>12, <1>15, <1>16, <1>17, <1>18, <1>19 DEF IInv, FlowInv

\* The number of the command goes into the entry.
LEMMA StoreIdStep ==
  ASSUME IInv, NEW t \in Clients, StoreId(t)
  PROVE  IInv'
  <1>1. /\ pc[t] = "store"
        /\ copy_task' = [copy_task EXCEPT ![call[t].req].request_id = call[t].id]
        /\ Goto(t, IF call[t].left > 0 THEN "write" ELSE "return")
        /\ UNCHANGED <<copy_counter, finished_copy_counter, sw_counter, hw_counter, cmds, ran, state, suspends,
                       handles, copies, failed, synced, owner, swept, call>>
    BY DEF StoreId, engineVars, pmVars, histVars, entryVars
  <1>2. TypeOK /\ FlowInv /\ ShapeInv
    BY DEF IInv, FlowInv
  <1>3. PICK l \in Labels : l = IF call[t].left > 0 THEN "write" ELSE "return"
    BY DEF Labels
  <1>4. /\ pc' \in [Clients -> Labels] /\ pc'[t] = l
        /\ \A u \in Clients : u # t => pc'[u] = pc[u]
    BY <1>1, <1>2, <1>3, GotoTypes
  <1>5. Starting(t) /\ InCall(t) /\ Starting(t)' /\ ~Asking(t)' /\ ~Asking(t)
    BY <1>1, <1>3, <1>4 DEF Asking, Starting, InCall
  <1>6. PICK x \in 0..MaxTask - 1 : x = call[t].req
    BY <1>2, <1>5 DEF FlowInv, CallInv
  <1>7. PICK e \in Nat : e = call[t].id
    BY <1>2 DEF ShapeInv
  <1>8. /\ copy_task' \in [0..MaxTask - 1 -> [request_id : Nat, copy_id : Nat]]
        /\ copy_task'[x].request_id = e
        /\ \A i \in 0..MaxTask - 1 : i # x => copy_task'[i] = copy_task[i]
        /\ \A i \in 0..MaxTask - 1 : copy_task'[i].copy_id = copy_task[i].copy_id
    <2>1. copy_task \in [0..MaxTask - 1 -> [request_id : Nat, copy_id : Nat]]
      BY <1>2 DEF TypeOK
    <2>2. copy_task' = [copy_task EXCEPT ![x].request_id = e]
      BY <1>1, <1>6, <1>7
    <2> QED
      BY <2>1, <2>2
  <1>9. TypeOK' /\ ShapeInv'
    BY <1>1, <1>2, <1>4, <1>8 DEF TypeOK, ShapeInv
  <1>10. \A u \in Clients : /\ Asking(u)' <=> Asking(u)
                            /\ Starting(u)' <=> Starting(u)
    BY <1>4, <1>5 DEF Asking, Starting
  <1>11. \A u \in Clients : /\ pc'[u] = "write" => call[u].left >= 1
                            /\ pc'[u] = "return" => call[u].left = 0
    <2>1. call[t].left \in Nat
      BY <1>2 DEF ShapeInv
    <2>2. /\ pc'[t] = "write" => call[t].left >= 1
          /\ pc'[t] = "return" => call[t].left = 0
      BY <1>3, <1>4, <2>1
    <2>3. ASSUME NEW u \in Clients, u # t
          PROVE  /\ pc'[u] = "write" => call[u].left >= 1
                 /\ pc'[u] = "return" => call[u].left = 0
      BY <1>2, <1>4, <2>3 DEF FlowInv, CallInv
    <2> QED
      BY <2>2, <2>3
  <1>12. \A u \in Clients : Starting(u) => Number(u)' = Number(u)
    BY <1>1, <1>2, <1>8 DEF Number, FlowInv, CallInv
  <1>13. OwnerInv' /\ (\A u \in Clients : CallInv(u)') /\ ChunkInv' /\ FailedInv'
    BY <1>1, <1>2, <1>10, <1>11, <1>12, FlowFrame
  <1>14. ASSUME swept' = {} PROVE EngineInv' /\ TableInv' /\ EntryInv' /\ SyncInv'
    <2>1. swept = {} /\ EngineInv /\ TableInv /\ EntryInv /\ SyncInv
      BY <1>1, <1>14 DEF IInv
    <2>2. EngineInv'
      BY <1>1, <2>1, EngineFrame DEF EngineInv
    <2>3. /\ \A d : Returned(d)' <=> Returned(d)
          /\ \A d : Done(d)' <=> Done(d)
          /\ \A d, f : Behind(d, f)' <=> Behind(d, f)
      BY <1>1, <1>10, CopyFrame
    <2>4. PICK n \in finished_copy_counter..copy_counter - 1 : n = Number(t) /\ x = n % MaxTask
      BY <1>5, <1>6, <2>1 DEF TableInv
    <2>5. owner[n + 1] = call[t].copy
      BY <1>2, <1>5, <2>1, <2>4 DEF FlowInv, CallInv
    <2>6. TableInv'
      <3>1. \A i \in 0..MaxTask - 1 : copy_task'[i].request_id # 0 =>
              \E m \in finished_copy_counter..copy_counter - 1 : m % MaxTask = i
        BY <1>8, <2>1, <2>4 DEF TableInv
      <3> QED
        BY <1>1, <1>10, <1>12, <2>1, <3>1 DEF TableInv
    <2>7. EntryInv'
      <3>1. ASSUME NEW m \in finished_copy_counter..copy_counter - 1
            PROVE  (Returned(owner[m + 1]) => Behind(owner[m + 1], copy_task[m % MaxTask].request_id))'
        <4>1. CASE m % MaxTask = x
          <5>1. /\ m \in finished_copy_counter..finished_copy_counter + MaxTask - 1
                /\ n \in finished_copy_counter..finished_copy_counter + MaxTask - 1
                /\ finished_copy_counter \in Int
            <6>1. /\ copy_counter - finished_copy_counter <= MaxTask /\ MaxTask \in Nat
                  /\ copy_counter \in Nat /\ finished_copy_counter \in Nat
              BY <1>2, <2>1, Types DEF TypeOK
            <6> QED
              BY <6>1
          <5>2. m = n
            BY <2>4, <4>1, <5>1, EntriesDiffer
          <5>3. ~Returned(owner[m + 1])
            BY <1>5, <2>5, <5>2 DEF Returned
          <5> QED
            BY <1>1, <2>3, <5>3
        <4>2. CASE m % MaxTask # x
          <5>1. m % MaxTask \in 0..MaxTask - 1
            <6>1. m \in Int
              BY <1>2, Types
            <6> QED
              BY <6>1, EntryExists
          <5> QED
            BY <1>1, <1>8, <2>1, <2>3, <4>2, <5>1 DEF EntryInv
        <4> QED
          BY <4>1, <4>2
      <3>2. ASSUME NEW m \in 0..finished_copy_counter - 1 PROVE Done(owner[m + 1])'
        BY <1>1, <2>1, <2>3 DEF EntryInv
      <3>3. ASSUME NEW u \in Clients
            PROVE  (/\ pc[u] = "store" => Behind(call[u].copy, call[u].id)
                    /\ pc[u] = "return" => Behind(call[u].copy, copy_task[call[u].req].request_id))'
        <4>1. CASE u = t
          <5>1. Behind(call[t].copy, e) /\ pc'[t] # "store" /\ copy_task'[call[t].req].request_id = e
            BY <1>1, <1>3, <1>4, <1>6, <1>7, <1>8, <2>1 DEF EntryInv
          <5> QED
            BY <1>1, <2>3, <4>1, <5>1
        <4>2. CASE u # t
          <5>1. pc'[u] = pc[u]
            BY <1>4, <4>2
          <5>2. ASSUME pc[u] = "return" PROVE copy_task'[call[u].req] = copy_task[call[u].req]
            <6>1. Starting(u) /\ call[u].req \in 0..MaxTask - 1
              BY <1>2, <5>2 DEF Starting, FlowInv, CallInv
            <6>2. call[u].req # x
              BY <1>2, <1>5, <1>6, <2>1, <4>2, <6>1, StartersDiffer DEF Number
            <6> QED
              BY <1>8, <6>1, <6>2
          <5> QED
            BY <1>1, <2>1, <2>3, <5>1, <5>2 DEF EntryInv
        <4> QED
          BY <4>1, <4>2
      <3> QED
        BY <1>1, <3>1, <3>2, <3>3 DEF EntryInv
    <2>8. CopiesKept
      BY <1>1, <1>2, <1>10, QuietKept
    <2>9. ASSUME NEW u \in Clients PROVE WaitInv(u)'
      <3>1. pc'[u] \in {"look", "poll", "clean"} => pc'[u] = pc[u]
        BY <1>3, <1>4
      <3> QED
        BY <1>1, <1>2, <2>1, <2>8, <3>1, WaitFrame DEF SyncInv
    <2>10. SyncInv'
      BY <1>1, <2>1, <2>8, <2>9 DEF SyncInv, CopiesKept, Done
    <2> QED
      BY <2>2, <2>6, <2>7, <2>10
  <1> QED
    BY <1>9, <1>13, <1>14 DEF IInv, FlowInv

\* The engine executes the oldest command.
LEMMA ExecuteStep ==
  ASSUME IInv, Execute
  PROVE  IInv'
  <1>1. /\ cmds # << >> /\ state = 0
        /\ ran' = [ran EXCEPT ![Head(cmds)[1]] = @ \cup {Head(cmds)[2]}]
        /\ cmds' = Tail(cmds) /\ hw_counter' = (hw_counter + 1) % CounterMod
        /\ UNCHANGED <<copy_task, copy_counter, finished_copy_counter, sw_counter, state, suspends,
                       handles, copies, failed, synced, owner, swept, pc, call>>
    BY DEF Execute, tableVars, pmVars, histVars, entryVars
  <1>u. UNCHANGED <<copy_task, copy_counter, finished_copy_counter, sw_counter, state, suspends,
                    handles, copies, failed, synced, owner, swept, pc, call>>
    BY <1>1
  <1>2. TypeOK /\ FlowInv /\ ShapeInv
    BY DEF IInv, FlowInv
  <1>3. /\ cmds' \in Seq((1..Len(copies)) \X Nat) /\ Len(cmds) \in Nat /\ Len(cmds) >= 1
        /\ Len(cmds') = Len(cmds) - 1 /\ Head(cmds) = cmds[1] /\ 1 \in 1..Len(cmds)
        /\ \A i \in 1..Len(cmds') : cmds'[i] = cmds[i + 1] /\ i + 1 \in 1..Len(cmds)
    <2>1. cmds \in Seq((1..Len(copies)) \X Nat) /\ cmds # << >> /\ cmds' = Tail(cmds)
      BY <1>1, <1>2 DEF TypeOK
    <2> QED
      BY <2>1
  <1>4. PICK c \in 1..Len(copies), p \in Nat :
          c = cmds[1][1] /\ p = cmds[1][2] /\ cmds[1] = <<c, p>> /\ Entered(c) /\ p \in 1..copies[c]
    <2>1. cmds[1] \in (1..Len(copies)) \X Nat /\ cmds[1] = <<cmds[1][1], cmds[1][2]>>
      BY <1>2, <1>3, CommandTypes
    <2>2. Entered(cmds[1][1]) /\ cmds[1][2] \in 1..copies[cmds[1][1]]
      BY <1>2, <1>3 DEF FlowInv, OwnerInv
    <2> QED
      BY <2>1, <2>2
  <1>5. /\ ran' \in Seq(SUBSET Nat) /\ Len(ran') = Len(copies)
        /\ ran'[c] = ran[c] \cup {p} /\ \A d \in 1..Len(copies) : d # c => ran'[d] = ran[d]
    <2>1. ran \in [1..Len(copies) -> SUBSET Nat] /\ Len(copies) \in Nat
      BY <1>2, Types DEF TypeOK, ShapeInv
    <2>2. ran' = [ran EXCEPT ![c] = @ \cup {p}]
      BY <1>1, <1>3, <1>4
    <2>3. ran' \in [1..Len(copies) -> SUBSET Nat]
      BY <2>1, <2>2
    <2>4. ran' \in Seq(SUBSET Nat) /\ Len(ran') = Len(copies)
      BY <2>1, <2>3, FunctionIsSeq
    <2> QED
      BY <2>1, <2>2, <2>4
  <1>6. CounterMod \in Nat \ {0} /\ hw_counter' \in 0..CounterMod - 1
    <2>1. CounterMod \in Nat \ {0} /\ hw_counter + 1 \in Int
      BY <1>2, MDAssumption DEF TypeOK
    <2>2. (hw_counter + 1) % CounterMod \in 0..CounterMod - 1
      BY <2>1, ModRange
    <2> QED
      BY <1>1, <2>1, <2>2
  <1>7. TypeOK' /\ ShapeInv'
    <2>1. Len(cmds') <= RingCmds
      <3>1. Len(cmds) <= RingCmds /\ RingCmds \in Nat
        BY <1>2, MDAssumption DEF TypeOK
      <3> QED
        BY <1>3, <3>1
    <2> QED
      BY <1>u, <1>2, <1>3, <1>5, <1>6, <2>1 DEF TypeOK, ShapeInv
  <1>8. /\ \A d : Entered(d)' <=> Entered(d)
        /\ \A u \in Clients : /\ Asking(u)' <=> Asking(u)
                              /\ Starting(u)' <=> Starting(u)
                              /\ InCall(u)' <=> InCall(u)
                              /\ Number(u)' = Number(u)
        /\ \A d : Returned(d)' <=> Returned(d)
    BY <1>u DEF Entered, Asking, Starting, InCall, Number, Returned
  <1>9. \A d : Queued(d)' => Queued(d)
    BY <1>3 DEF Queued
  <1>10. OwnerInv'
    <2>1. ASSUME NEW i \in 1..Len(cmds')
          PROVE  (Entered(cmds[i][1]) /\ cmds[i][2] \in 1..copies[cmds[i][1]])'
      BY <1>u, <1>2, <1>3, <1>8 DEF FlowInv, OwnerInv
    <2>2. ASSUME NEW d \in 1..Len(copies)
          PROVE  (ran[d] \subseteq 1..copies[d] /\ (ran[d] # {} => Entered(d)))'
      <3>1. CASE d = c
        BY <1>u, <1>2, <1>4, <1>5, <1>8, <3>1 DEF FlowInv, OwnerInv
      <3>2. CASE d # c
        BY <1>u, <1>2, <1>5, <1>8, <3>2 DEF FlowInv, OwnerInv
      <3> QED
        BY <3>1, <3>2
    <2> QED
      BY <1>u, <1>2, <2>1, <2>2 DEF FlowInv, OwnerInv
  <1>11. ASSUME NEW u \in Clients PROVE CallInv(u)'
    <2>1. CallInv(u) /\ call'[u] = call[u] /\ pc'[u] = pc[u]
      BY <1>u, <1>2 DEF FlowInv
    <2>2. Entered(call[u].copy)' <=> Entered(call[u].copy)
      BY <1>8, <2>1
    <2> QED
      BY <1>u, <1>8, <2>1, <2>2 DEF CallInv
  <1>12. ChunkInv'
    <2> SUFFICES ASSUME NEW n \in 1..Len(owner'), NEW q \in 1..copies'[owner'[n]],
                        q \notin ran'[owner'[n]], ~\E i \in 1..Len(cmds') : cmds'[i] = <<owner'[n], q>>
                 PROVE  \E u \in Clients : Starting(u)' /\ call'[u].copy = owner'[n]
                                           /\ q > copies'[owner'[n]] - call'[u].left
      BY Zenon DEF ChunkInv
    <2>1. n \in 1..Len(owner) /\ owner'[n] = owner[n] /\ owner[n] \in 1..Len(copies) /\ q \in 1..copies[owner[n]]
      BY <1>u, <1>2, Types
    <2>2. q \notin ran[owner[n]] /\ ~(owner[n] = c /\ q = p)
      BY <1>5, <2>1
    <2>3. ASSUME NEW i \in 1..Len(cmds), cmds[i] = <<owner[n], q>> PROVE FALSE
      <3>1. CASE i = 1
        BY <1>4, <2>2, <2>3, <3>1
      <3>2. CASE i # 1
        <4>1. i - 1 \in 1..Len(cmds') /\ (i - 1) + 1 = i
          BY <1>3, <3>2
        <4>2. cmds'[i - 1] = <<owner[n], q>>
          BY <1>3, <2>3, <4>1
        <4> QED
          BY <2>1, <4>1, <4>2
      <3> QED
        BY <3>1, <3>2
    <2>4. PICK u \in Clients : Starting(u) /\ call[u].copy = owner[n] /\ q > copies[owner[n]] - call[u].left
      BY <1>2, <2>1, <2>2, <2>3 DEF FlowInv, ChunkInv
    <2> QED
      BY <1>u, <1>8, <2>4
  <1>13. FailedInv'
    <2>1. ASSUME NEW d \in failed, Given(d)' PROVE Given(d)
      <3>1. d \in 1..Len(copies)
        BY <1>2 DEF ShapeInv
      <3>2. CASE d = c
        BY <1>3, <1>4, <3>2 DEF Given, Queued
      <3>3. CASE d # c
        BY <1>5, <1>9, <2>1, <3>1, <3>3 DEF Given
      <3> QED
        BY <3>2, <3>3
    <2> QED
      BY <1>u, <1>2, <2>1 DEF FlowInv, FailedInv
  <1>14. ASSUME swept' = {} PROVE EngineInv' /\ TableInv' /\ EntryInv' /\ SyncInv'
    <2>1. swept = {} /\ EngineInv /\ TableInv /\ EntryInv /\ SyncInv
      BY <1>u, <1>14 DEF IInv
    <2>2. PICK x \in Nat : x = Executed /\ Executed' = x + 1
      <3>1. Len(cmds) <= sw_counter /\ sw_counter \in Nat
        BY <1>2, <2>1, Types DEF EngineInv
      <3>2. sw_counter - Len(cmds) \in Nat /\ sw_counter - (Len(cmds) - 1) = sw_counter - Len(cmds) + 1
        BY <1>3, <3>1
      <3> QED
        BY <1>u, <1>3, <3>2 DEF Executed
    <2>3. EngineInv'
      <3>1. CounterMod % CounterMod = 0
        <4>1. CounterMod \in CounterMod..2 * CounterMod - 1
          BY <1>6
        <4>2. CounterMod % CounterMod = CounterMod - CounterMod
          BY <1>6, <4>1, ModOnce
        <4> QED
          BY <1>6, <4>2
      <3>2. x \in Int /\ 1 \in Int
        OBVIOUS
      <3>3. ((x % CounterMod) + 1) % CounterMod = (x + 1) % CounterMod
        BY ZenonT(30), <1>6, <3>1, <3>2, WrapKeepsPlace
      <3>4. hw_counter = x % CounterMod
        BY <1>1, <2>1, <2>2 DEF EngineInv
      <3>5. hw_counter' = Executed' % CounterMod
        BY <1>1, <2>2, <3>3, <3>4
      <3>6. Len(cmds') <= sw_counter' /\ state' = 0
        BY <1>1, <1>2, <1>3, <2>1, Types DEF EngineInv
      <3> QED
        BY <3>5, <3>6 DEF EngineInv
    <2>4. ASSUME NEW d, NEW e, Behind(d, e) PROVE Behind(d, e)'
      <3>1. e \in 1..sw_counter' /\ e \in Int
        BY <1>u, <1>2, <2>4, Types DEF Behind
      <3>2. ASSUME NEW i \in 1..Len(cmds'), cmds'[i][1] = d PROVE Executed' + i <= e
        <4>1. i + 1 \in 1..Len(cmds) /\ cmds[i + 1][1] = d /\ i \in Nat
          BY <1>3, <3>2
        <4>2. x + (i + 1) <= e
          BY <2>2, <2>4, <4>1 DEF Behind
        <4> QED
          BY <2>2, <3>1, <4>1, <4>2
      <3> QED
        BY <3>1, <3>2 DEF Behind
    <2>5. CopiesKept
      BY <1>u, <1>2, <1>8, <1>9, <2>4, Types DEF CopiesKept
    <2>6. TableInv'
      BY <1>u, <1>8, <2>1 DEF TableInv
    <2>7. EntryInv'
      <3>1. ASSUME NEW n \in finished_copy_counter..copy_counter - 1
            PROVE  (Returned(owner[n + 1]) => Behind(owner[n + 1], copy_task[n % MaxTask].request_id))'
        BY <1>u, <1>8, <2>1, <2>4 DEF EntryInv
      <3>2. ASSUME NEW n \in 0..finished_copy_counter - 1 PROVE Done(owner[n + 1])'
        BY <1>u, <1>8, <1>9, <2>1 DEF EntryInv, Done
      <3>3. ASSUME NEW u \in Clients
            PROVE  (/\ pc[u] = "store" => Behind(call[u].copy, call[u].id)
                    /\ pc[u] = "return" => Behind(call[u].copy, copy_task[call[u].req].request_id))'
        BY <1>u, <2>1, <2>4 DEF EntryInv
      <3> QED
        BY <1>u, <3>1, <3>2, <3>3 DEF EntryInv
    <2>8. ASSUME NEW u \in Clients PROVE WaitInv(u)'
      BY <1>u, <1>2, <2>1, <2>5, WaitFrame DEF SyncInv
    <2>9. SyncInv'
      BY <1>u, <2>1, <2>5, <2>8 DEF SyncInv, CopiesKept, Done
    <2> QED
      BY <2>3, <2>6, <2>7, <2>9
  <1> QED
    BY <1>7, <1>10, <1>11, <1>12, <1>13, <1>14 DEF IInv, FlowInv

\* md_drv_suspend: every copy is done, so the engine has nothing left, and the
\* numbers may start again from the value of the register.
LEMMA SuspendStep ==
  ASSUME IInv, Suspend
  PROVE  IInv'
  <1>1. /\ state = 0 /\ (\A u \in Clients : pc[u] = "idle") /\ Release(copy_counter)
        /\ \A n \in finished_copy_counter..copy_counter - 1 : TaskFinished(n)
        /\ sw_counter' = hw_counter /\ state' = 1 /\ suspends' = suspends + 1
        /\ UNCHANGED <<copy_counter, hw_counter, cmds, ran, handles, copies, failed, synced, pc, call>>
    BY DEF Suspend, histVars
  <1>2. TypeOK /\ FlowInv /\ ShapeInv
    BY DEF IInv, FlowInv
  <1>3. copy_counter \in finished_copy_counter..copy_counter /\ copy_counter \in Nat /\ MaxTask \in Nat
    BY <1>2, Types
  <1>4. /\ finished_copy_counter' = copy_counter /\ owner' = owner
        /\ copy_task' \in [0..MaxTask - 1 -> [request_id : Nat, copy_id : Nat]]
        /\ swept \subseteq swept' /\ swept' \subseteq 1..Len(copies)
        /\ \A c \in swept' : c \in swept \/ \E t \in Clients : Starting(t) /\ call[t].copy = c
    BY <1>1, <1>2, <1>3, ReleaseFacts
  <1>5. \A u \in Clients : ~Starting(u) /\ ~Asking(u) /\ ~Starting(u)' /\ ~Asking(u)' /\ ~InCall(u)
    BY <1>1 DEF Starting, Asking, InCall
  <1>6. TypeOK' /\ ShapeInv'
    <2>1. /\ copy_counter' - finished_copy_counter' <= MaxTask /\ finished_copy_counter' \in 0..copy_counter'
          /\ sw_counter' \in Nat /\ suspends' \in Nat
      BY <1>1, <1>2, <1>3, <1>4, MDAssumption DEF TypeOK
    <2> QED
      BY <1>1, <1>2, <1>4, <2>1 DEF TypeOK, ShapeInv
  <1>7. OwnerInv' /\ (\A u \in Clients : CallInv(u)') /\ ChunkInv' /\ FailedInv'
    BY <1>1, <1>2, <1>4, <1>5, FlowFrame
  <1>8. ASSUME swept' = {} PROVE EngineInv' /\ TableInv' /\ EntryInv' /\ SyncInv'
    <2>1. swept = {} /\ EngineInv /\ TableInv /\ EntryInv /\ SyncInv
      BY <1>4, <1>8 DEF IInv
    <2>2. /\ \A n \in 0..copy_counter - 1 : Done(owner[n + 1])
          /\ \A i \in 0..MaxTask - 1 : copy_task'[i].request_id # 0 =>
               \E n \in copy_counter..copy_counter - 1 : n % MaxTask = i
      BY <1>1, <1>2, <1>3, <1>8, <2>1, ReleaseTable
    <2>3. cmds = << >>
      <3>1. ASSUME NEW i \in 1..Len(cmds) PROVE FALSE
        <4>1. PICK m \in 1..Len(owner) : owner[m] = cmds[i][1]
          BY <1>2 DEF FlowInv, OwnerInv, Entered
        <4>2. m - 1 \in 0..copy_counter - 1 /\ (m - 1) + 1 = m
          BY <1>2, Types
        <4>3. Done(owner[m])
          BY <2>2, <4>2
        <4> QED
          BY <4>1, <4>3 DEF Done, Queued
      <3>2. cmds \in Seq((1..Len(copies)) \X Nat)
        BY <1>2 DEF TypeOK
      <3> QED
        BY <3>1, <3>2
    <2>4. /\ \A c : Returned(c)' <=> Returned(c)
          /\ \A c : Done(c)' <=> Done(c)
      BY <1>1, <1>4, <1>5, CopyFrame
    <2>5. EngineInv'
      <3>1. Len(cmds') = 0 /\ sw_counter' \in Nat
        BY <1>1, <1>6, <2>3 DEF TypeOK
      <3> QED
        BY <1>1, <1>4, <2>3, <3>1 DEF EngineInv
    <2>6. copy_counter..copy_counter - 1 = {}
      BY <1>3
    <2>7. TableInv'
      BY <1>1, <1>4, <1>5, <2>2 DEF TableInv
    <2>8. EntryInv'
      <3>1. ASSUME NEW n \in 0..copy_counter - 1 PROVE Done(owner[n + 1])'
        BY <1>4, <2>2, <2>4
      <3> QED
        BY <1>1, <1>4, <2>6, <3>1 DEF EntryInv
    <2>9. ASSUME NEW u \in Clients PROVE WaitInv(u)'
      <3>1. ASSUME NEW h \in handles'[u] PROVE Handle(h)'
        BY <1>1, <1>4, <2>1, <2>4 DEF SyncInv, WaitInv, Handle
      <3> QED
        BY <1>1, <3>1 DEF WaitInv
    <2>10. SyncInv'
      BY <1>1, <2>1, <2>4, <2>9 DEF SyncInv
    <2> QED
      BY <2>5, <2>7, <2>8, <2>10
  <1> QED
    BY <1>6, <1>7, <1>8 DEF IInv, FlowInv

\* Every step keeps the invariant.
LEMMA NextIInv == IInv /\ [Next]_vars => IInv'
  <1> SUFFICES ASSUME IInv, [Next]_vars PROVE IInv'
    OBVIOUS
  <1>1. ASSUME NEW t \in Clients, NEW k \in Chunks, CopyStart(t, k) PROVE IInv'
    BY <1>1, CopyStartStep
  <1>2. ASSUME NEW t \in Clients, NEW h \in handles[t], SyncCall(t, h) PROVE IInv'
    BY <1>2, SyncCallStep
  <1>3. ASSUME NEW t \in Clients, ClientStep(t) PROVE IInv'
    BY <1>3, StartCheckStep, AllocRefusedStep, AllocStep, WriteCmdStep, StoreIdStep, StartReturnStep,
       SyncLookStep, SyncPollStep, SyncCleanStep DEF ClientStep
  <1>4. CASE Execute
    BY <1>4, ExecuteStep
  <1>5. CASE Suspend
    BY <1>5, SuspendStep
  <1>6. CASE PowerOff \/ Resume
    BY <1>6, PowerStep
  <1>7. CASE UNCHANGED vars
    BY <1>7, StutterStep
  <1> QED
    BY <1>1, <1>2, <1>3, <1>4, <1>5, <1>6, <1>7 DEF Next

\* The invariant holds in every reachable state.
LEMMA Invariance == Spec => []IInv
  BY InitIInv, NextIInv, PTL DEF Spec

-----------------------------------------------------------------------------
(* The properties. *)

\* Every variable keeps its type, and the counters of copies are not more than
\* MAX_COPY_TASK apart unless a copy lost its entry.
THEOREM TypeCorrect == Spec => []TypeOK
  <1>1. IInv => TypeOK
    BY DEF IInv
  <1> QED
    BY <1>1, Invariance, PTL

\* md_copy_sync returns only when the engine has executed the whole copy,
\* although IOA_SMQ_INST_CNT wraps and is set back by a suspend, until a copy
\* loses its entry.
THEOREM SyncWaits == Spec => []SyncMeansComplete
  <1>1. ASSUME IInv PROVE SyncMeansComplete
    BY <1>1, DoneComplete DEF IInv, SyncInv, SyncMeansComplete
  <1> QED
    BY <1>1, Invariance, PTL

\* md_check_copy_tasks and md_drv_suspend release, and unmap, only copies that
\* the engine has finished, until a copy loses its entry.
THEOREM ReleaseWaits == Spec => []ReleasedWhenComplete
  <1>1. ASSUME IInv PROVE ReleasedWhenComplete
    BY <1>1, DoneComplete DEF IInv, EntryInv, ReleasedWhenComplete
  <1> QED
    BY <1>1, Invariance, PTL

\* With no call in progress and every copy released, md_alloc_copy_request
\* finds a free entry, unless a copy lost its entry.
THEOREM EntriesReturn == Spec => []TableUsable
  <1>1. ASSUME IInv PROVE TableUsable
    <2> SUFFICES ASSUME swept = {}, finished_copy_counter = copy_counter
                 PROVE  copy_task[Entry].request_id = 0
      BY DEF TableUsable, EntryFree
    <2>1. copy_counter \in Int /\ copy_counter..copy_counter - 1 = {}
      BY <1>1, Types DEF IInv, FlowInv
    <2>2. Entry \in 0..MaxTask - 1
      BY <2>1, EntryExists DEF Entry
    <2> QED
      BY <1>1, <2>1, <2>2 DEF IInv, TableInv
  <1> QED
    BY <1>1, Invariance, PTL

\* A copy that the engine was given is reported as refused only when it is the
\* first one, whose copy_id is 0, or one that lost its entry.
THEOREM RefusedDoesNotRun == Spec => []FailedMeansNotStarted
  <1>1. ASSUME IInv PROVE FailedMeansNotStarted
    <2>1. DOMAIN cmds = 1..Len(cmds)
      BY <1>1 DEF IInv, TypeOK
    <2>2. \A c \in failed : Given(c) => c = owner[1] \/ c \in swept
      BY <1>1 DEF IInv, FlowInv, FailedInv
    <2> QED
      BY <2>1, <2>2 DEF FailedMeansNotStarted, Given, Queued
  <1> QED
    BY <1>1, Invariance, PTL
=============================================================================
