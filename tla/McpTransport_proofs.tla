-------------------------- MODULE McpTransport_proofs --------------------------
(***************************************************************************)
(* Proofs about the stdio transport, for any number of requests, restarts  *)
(* and unsolicited lines.                                                  *)
(***************************************************************************)
EXTENDS McpTransport, SequenceTheorems, TLAPS

Inside == {"checking", "writing", "reading"}
Unsent == {"idle", "waiting", "checking", "writing"}

\* The lock is held by the one thread inside rpc.
LockInv == \A c \in Clients : pc[c] \in Inside <=> lock = c

\* Nothing of a dead server is left in its input.
DeadInv == ~alive => inbox = <<>> /\ working = <<>>

\* A call that was not sent, or was refused, is nowhere; one that is sent is
\* in the inbox at most once, and there only before it is carried out.
CallInv ==
  \A c \in Calls :
    /\ effects[c] <= 1
    /\ pc[c] \in Unsent => effects[c] = 0 /\ \A i \in DOMAIN inbox : inbox[i] # c
    /\ verdict[c] = "refused" =>
         pc[c] = "done" /\ effects[c] = 0 /\ \A i \in DOMAIN inbox : inbox[i] # c
    /\ \A i \in DOMAIN inbox : inbox[i] = c => effects[c] = 0
    /\ \A i, j \in DOMAIN inbox : inbox[i] = c /\ inbox[j] = c => i = j

\* Whatever is on its way back was carried out.
EarnedInv ==
  /\ \A i \in DOMAIN working : effects[working[i]] >= 1
  /\ \A i \in DOMAIN outbox : outbox[i] # Noise => effects[outbox[i]] >= 1
  /\ AnswersAreEarned

Messages == Len(inbox) + Len(working) + Len(outbox)

\* Without noise there is one message in the pipes at most, and it belongs
\* to the thread that reads.
QuietInv ==
  noise = 0 =>
    /\ Messages <= 1
    /\ Messages = 1 =>
         /\ lock \in Clients /\ pc[lock] = "reading"
         /\ \A i \in DOMAIN inbox : inbox[i] = lock
         /\ \A i \in DOMAIN working : working[i] = lock
         /\ \A i \in DOMAIN outbox : outbox[i] \in {lock, Noise}

TransportInv ==
  TypeOK /\ LockInv /\ DeadInv /\ CallInv /\ EarnedInv /\ QuietInv

LEMMA TransportInit == Init => TransportInv
<1> SUFFICES ASSUME Init PROVE TransportInv
  OBVIOUS
<1>1. TypeOK
  BY ClientsAssumption, BoundsAssumption DEF Init, TypeOK, Pc, Verdict
<1>2. LockInv
  BY ClientsAssumption DEF Init, LockInv, Inside
<1>3. DeadInv /\ CallInv /\ EarnedInv
  BY ClientsAssumption
  DEF Init, DeadInv, CallInv, EarnedInv, AnswersAreEarned, Unsent
<1>4. QuietInv
  BY DEF Init, QuietInv, Messages
<1>5. QED
  BY <1>1, <1>2, <1>3, <1>4 DEF TransportInv

\* What the end of a request changes.
LEMMA FinishFacts ==
  ASSUME TypeOK, NEW c \in Clients, NEW v \in Verdict, Finish(c, v)
  PROVE  /\ pc' \in [Clients -> Pc] /\ tries' \in [Clients -> 0..(MaxRestarts + 1)]
         /\ verdict' \in [Clients -> Verdict] /\ lock' = Nobody
         /\ pc'[c] = "done" /\ verdict'[c] = v
         /\ \A d \in Clients \ {c} : pc'[d] = pc[d] /\ verdict'[d] = verdict[d]
BY DEF Finish, Goto, TypeOK, Pc

\* What a step of the thread inside changes of the pipes, if it respawns.
LEMMA RespawnFacts ==
  ASSUME TypeOK, CanRestart, Respawn
  PROVE  /\ restarts' \in 0..MaxRestarts /\ alive' = TRUE
         /\ inbox' = <<>> /\ working' = <<>> /\ outbox' = <<>>
         /\ noise' = noise /\ effects' = effects
BY BoundsAssumption DEF Respawn, CanRestart, TypeOK

\* A broken connection ends the request, or makes one that only reads try
\* again with new pipes; a call always ends.
LEMMA LostFacts ==
  ASSUME TypeOK, NEW c \in Clients, Lost(c)
  PROVE  /\ pc' \in [Clients -> Pc] /\ tries' \in [Clients -> 0..(MaxRestarts + 1)]
         /\ verdict' \in [Clients -> Verdict]
         /\ \A d \in Clients \ {c} : pc'[d] = pc[d] /\ verdict'[d] = verdict[d]
         /\ \/ pc'[c] = "done" /\ verdict'[c] = "unknown" /\ lock' = Nobody
            \/ /\ pc'[c] = "checking" /\ verdict'[c] = verdict[c] /\ lock' = lock
               /\ c \notin Calls
         /\ restarts' \in 0..MaxRestarts /\ noise' = noise /\ effects' = effects
         /\ \/ alive' = alive /\ inbox' = inbox /\ working' = working /\ outbox' = outbox
            \/ alive' = TRUE /\ inbox' = <<>> /\ working' = <<>> /\ outbox' = <<>>
         /\ pc'[c] = "checking" => inbox' = <<>> /\ working' = <<>> /\ outbox' = <<>>
<1>1. CASE ~CanRestart
  <2>1. Finish(c, "unknown") /\ UNCHANGED <<restarts, server>>
    BY <1>1 DEF Lost
  <2>2. "unknown" \in Verdict
    BY DEF Verdict
  <2>3. restarts' \in 0..MaxRestarts
    BY <2>1 DEF TypeOK
  <2>4. QED
    BY <2>1, <2>2, <2>3, FinishFacts DEF server
<1>2. CASE CanRestart
  <2>1. Respawn
    BY <1>2 DEF Lost
  <2>2. /\ restarts' \in 0..MaxRestarts /\ alive' = TRUE
        /\ inbox' = <<>> /\ working' = <<>> /\ outbox' = <<>>
        /\ noise' = noise /\ effects' = effects
    BY <1>2, <2>1, RespawnFacts
  <2>3. "unknown" \in Verdict
    BY DEF Verdict
  <2>4. CASE Finish(c, "unknown")
    BY <2>2, <2>3, <2>4, FinishFacts
  <2>5. CASE ~Finish(c, "unknown")
    <3>1. /\ tries[c] > 1 /\ tries' = [tries EXCEPT ![c] = @ - 1]
          /\ Goto(c, "checking") /\ UNCHANGED <<verdict, lock>> /\ c \notin Calls
      BY <1>2, <2>5 DEF Lost, NextTry
    <3>2. tries' \in [Clients -> 0..(MaxRestarts + 1)]
      BY <3>1, BoundsAssumption DEF TypeOK
    <3>3. /\ pc' \in [Clients -> Pc] /\ pc'[c] = "checking"
          /\ \A d \in Clients \ {c} : pc'[d] = pc[d]
      BY <3>1 DEF Goto, TypeOK, Pc
    <3>4. QED
      BY <2>2, <3>1, <3>2, <3>3 DEF TypeOK
  <2>6. QED
    BY <2>4, <2>5
<1>3. QED
  BY <1>1, <1>2

\* Moving a thread from one place to another.
LEMMA GotoFacts ==
  ASSUME TypeOK, NEW c \in Clients, NEW p \in Pc, Goto(c, p)
  PROVE  /\ pc' \in [Clients -> Pc] /\ pc'[c] = p
         /\ \A d \in Clients \ {c} : pc'[d] = pc[d]
BY DEF Goto, TypeOK

\* A thread that waits, or takes the lock, touches no pipe.
LEMMA EnteringStep ==
  ASSUME TransportInv, NEW c \in Clients, Request(c) \/ Acquire(c)
  PROVE  TransportInv'
<1>1. /\ UNCHANGED <<tries, verdict, restarts, server>>
      /\ \/ pc[c] = "idle" /\ Goto(c, "waiting") /\ lock' = lock
         \/ pc[c] = "waiting" /\ Goto(c, "checking") /\ lock = Nobody /\ lock' = c
  BY DEF Request, Acquire
<1>2. /\ pc' \in [Clients -> Pc] /\ pc'[c] \in {"waiting", "checking"}
      /\ pc[c] = "idle" => pc'[c] = "waiting"
      /\ pc[c] = "waiting" => pc'[c] = "checking"
      /\ \A d \in Clients \ {c} : pc'[d] = pc[d]
  BY <1>1, GotoFacts DEF TransportInv, Pc
<1>3. TypeOK'
  BY <1>1, <1>2 DEF TransportInv, TypeOK, server
<1>4. LockInv'
  BY <1>1, <1>2, ClientsAssumption DEF TransportInv, LockInv, Inside
<1>5. DeadInv' /\ EarnedInv'
  BY <1>1 DEF TransportInv, DeadInv, EarnedInv, AnswersAreEarned, server
<1>6. CallInv'
  <2>1. \A d \in Calls : pc'[d] \in Unsent => pc[d] \in Unsent
    BY <1>1, <1>2, ClientsAssumption DEF Unsent
  <2>2. \A d \in Calls : pc[d] = "done" => pc'[d] = "done"
    BY <1>1, <1>2, ClientsAssumption
  <2>3. UNCHANGED <<inbox, effects, verdict>>
    BY <1>1 DEF server
  <2>4. QED
    BY <2>1, <2>2, <2>3 DEF TransportInv, CallInv
<1>7. QuietInv'
  <2>1. Messages' = Messages /\ UNCHANGED <<inbox, working, outbox, noise>>
    BY <1>1 DEF server, Messages
  <2>2. lock \in Clients /\ pc[lock] = "reading" => lock' = lock /\ pc'[lock'] = "reading"
    BY <1>1, <1>2, ClientsAssumption
  <2>3. QED
    BY <2>1, <2>2 DEF TransportInv, QuietInv
<1>8. QED
  BY <1>3, <1>4, <1>5, <1>6, <1>7 DEF TransportInv

\* A client that ends while its thread is inside rpc, the pipes left alone
\* or replaced.
LEMMA LosingStep ==
  ASSUME TransportInv, NEW c \in Clients, Lost(c), ~alive,
         pc[c] = "writing" \/ (pc[c] = "reading" /\ outbox = <<>>)
  PROVE  TransportInv'
<1>1. /\ pc' \in [Clients -> Pc] /\ tries' \in [Clients -> 0..(MaxRestarts + 1)]
      /\ verdict' \in [Clients -> Verdict]
      /\ \A d \in Clients \ {c} : pc'[d] = pc[d] /\ verdict'[d] = verdict[d]
      /\ \/ pc'[c] = "done" /\ verdict'[c] = "unknown" /\ lock' = Nobody
         \/ /\ pc'[c] = "checking" /\ verdict'[c] = verdict[c] /\ lock' = lock
            /\ c \notin Calls
      /\ restarts' \in 0..MaxRestarts /\ noise' = noise /\ effects' = effects
      /\ \/ alive' = alive /\ inbox' = inbox /\ working' = working /\ outbox' = outbox
         \/ alive' = TRUE /\ inbox' = <<>> /\ working' = <<>> /\ outbox' = <<>>
      /\ pc'[c] = "checking" => inbox' = <<>> /\ working' = <<>> /\ outbox' = <<>>
  BY LostFacts DEF TransportInv
<1>2. inbox = <<>> /\ working = <<>>
  BY DEF TransportInv, DeadInv
<1>3. inbox' = <<>> /\ working' = <<>> /\ outbox' \in {outbox, <<>>}
  BY <1>1, <1>2
<1>4. lock = c /\ \A d \in Clients \ {c} : pc[d] \notin Inside
  BY DEF TransportInv, LockInv, Inside
<1>5. TypeOK'
  <2>1. lock' \in Clients \cup {Nobody} /\ alive' \in BOOLEAN
    BY <1>1 DEF TransportInv, TypeOK
  <2>2. inbox' \in Seq(Clients) /\ working' \in Seq(Clients)
        /\ outbox' \in Seq(Clients \cup {Noise})
    <3>1. <<>> \in Seq(Clients) /\ <<>> \in Seq(Clients \cup {Noise})
      OBVIOUS
    <3>2. outbox \in Seq(Clients \cup {Noise})
      BY DEF TransportInv, TypeOK
    <3>3. outbox' \in Seq(Clients \cup {Noise})
      BY <1>3, <3>1, <3>2
    <3>4. QED
      BY <1>3, <3>1, <3>3
  <2>3. QED
    BY <1>1, <2>1, <2>2 DEF TransportInv, TypeOK
<1>6. LockInv'
  BY <1>1, <1>4, ClientsAssumption DEF LockInv, Inside
<1>7. DeadInv'
  BY <1>3 DEF DeadInv
<1>8. CallInv'
  <2>1. \A d \in Calls : pc'[d] \in Unsent => pc[d] \in Unsent
    BY <1>1, ClientsAssumption DEF Unsent
  <2>2. \A d \in Calls : verdict'[d] = "refused" => verdict[d] = "refused" /\ d # c
    BY <1>1, ClientsAssumption
  <2>3. \A d \in Calls \ {c} : pc'[d] = pc[d]
    BY <1>1, ClientsAssumption
  <2>4. QED
    BY <1>1, <1>3, <2>1, <2>2, <2>3 DEF TransportInv, CallInv
<1>9. EarnedInv'
  <2>1. \A d \in Clients : verdict'[d] = "answer" => verdict[d] = "answer"
    BY <1>1
  <2>2. QED
    BY <1>1, <1>3, <2>1 DEF TransportInv, EarnedInv, AnswersAreEarned
<1>10. QuietInv'
  <2>1. noise = 0 => outbox = <<>>
    <3>1. CASE pc[c] = "reading" /\ outbox = <<>>
      BY <3>1
    <3>2. CASE pc[c] = "writing"
      <4>1. noise = 0 => Messages # 1
        BY <1>4, <3>2 DEF TransportInv, QuietInv
      <4>2. Len(inbox) = 0 /\ Len(working) = 0 /\ Len(outbox) \in Nat
        BY <1>2 DEF TransportInv, TypeOK
      <4>3. noise = 0 => Len(outbox) = 0
        BY <4>1, <4>2 DEF Messages, TransportInv, QuietInv
      <4>4. QED
        BY <4>3, EmptySeq DEF TransportInv, TypeOK
    <3>3. QED
      BY <3>1, <3>2
  <2>2. noise' = 0 => inbox' = <<>> /\ working' = <<>> /\ outbox' = <<>>
    BY <1>1, <1>3, <2>1
  <2>3. noise' = 0 => Messages' = 0
    BY <2>2 DEF Messages
  <2>4. QED
    BY <2>3 DEF QuietInv
<1>11. QED
  BY <1>5, <1>6, <1>7, <1>8, <1>9, <1>10 DEF TransportInv

\* Before writing, a dead server is replaced or the request given up.
LEMMA CheckingStep ==
  ASSUME TransportInv, NEW c \in Clients, CheckAlive(c)
  PROVE  TransportInv'
<1> DEFINE Kept == /\ alive' = alive /\ inbox' = inbox
                   /\ working' = working /\ outbox' = outbox
           Replaced == /\ alive' = TRUE /\ inbox' = <<>>
                       /\ working' = <<>> /\ outbox' = <<>>
<1>1. pc[c] = "checking" /\ lock = c
  BY DEF CheckAlive, TransportInv, LockInv, Inside
<1>2. \A d \in Clients \ {c} : pc[d] \notin Inside
  BY <1>1 DEF TransportInv, LockInv
<1>3. /\ pc' \in [Clients -> Pc] /\ tries' \in [Clients -> 0..(MaxRestarts + 1)]
      /\ verdict' \in [Clients -> Verdict]
      /\ \A d \in Clients \ {c} : pc'[d] = pc[d] /\ verdict'[d] = verdict[d]
      /\ \/ pc'[c] = "done" /\ verdict'[c] \in {"refused", "unknown"} /\ lock' = Nobody
         \/ pc'[c] = "writing" /\ verdict'[c] = verdict[c] /\ lock' = lock
      /\ restarts' \in 0..MaxRestarts /\ noise' = noise /\ effects' = effects
      /\ Kept \/ Replaced
  <2>1. CASE alive
    BY <2>1, <1>1, GotoFacts DEF CheckAlive, TransportInv, TypeOK, Pc, server
  <2>2. CASE ~alive /\ CanRestart
    <3>1. Respawn /\ Goto(c, "writing") /\ UNCHANGED <<tries, verdict, lock>>
      BY <2>2 DEF CheckAlive
    <3>2. "writing" \in Pc
      BY DEF Pc
    <3>3. /\ pc' \in [Clients -> Pc] /\ pc'[c] = "writing"
          /\ \A d \in Clients \ {c} : pc'[d] = pc[d]
      BY <3>1, <3>2, GotoFacts DEF TransportInv
    <3>4. restarts' \in 0..MaxRestarts /\ noise' = noise /\ effects' = effects /\ Replaced
      BY <2>2, <3>1, RespawnFacts DEF TransportInv
    <3>5. QED
      BY <3>1, <3>3, <3>4 DEF TransportInv, TypeOK
  <2>3. CASE ~alive /\ ~CanRestart
    <3>1. PICK v \in {"refused", "unknown"} : Finish(c, v) /\ UNCHANGED <<restarts, server>>
      BY <2>3 DEF CheckAlive
    <3>2. v \in Verdict
      BY <3>1 DEF Verdict
    <3>3. QED
      BY <3>1, <3>2, FinishFacts DEF TransportInv, TypeOK, server
  <2>4. QED
    BY <2>1, <2>2, <2>3
<1>4. TypeOK'
  <2>1. lock' \in Clients \cup {Nobody}
    BY <1>3 DEF TransportInv, TypeOK
  <2>2. CASE Kept
    BY <1>3, <2>1, <2>2 DEF TransportInv, TypeOK
  <2>3. CASE Replaced
    BY <1>3, <2>1, <2>3 DEF TransportInv, TypeOK
  <2>4. QED
    BY <1>3, <2>2, <2>3
<1>5. LockInv'
  BY <1>1, <1>2, <1>3, ClientsAssumption DEF LockInv, Inside
<1>6. DeadInv'
  BY <1>3 DEF TransportInv, DeadInv
<1>7. CallInv'
  <2>1. c \in Calls => effects[c] = 0 /\ \A i \in DOMAIN inbox : inbox[i] # c
    BY <1>1 DEF TransportInv, CallInv, Unsent
  <2>2. \A d \in Calls : pc'[d] \in Unsent => pc[d] \in Unsent
    BY <1>1, <1>3, ClientsAssumption DEF Unsent
  <2>3. \A d \in Calls \ {c} : pc'[d] = pc[d] /\ verdict'[d] = verdict[d]
    BY <1>3, ClientsAssumption
  <2>4. c \in Calls => (verdict'[c] = "refused" => pc'[c] = "done")
    BY <1>1, <1>3 DEF TransportInv, CallInv
  <2>5. CASE Kept
    BY <1>3, <2>1, <2>2, <2>3, <2>4, <2>5 DEF TransportInv, CallInv
  <2>6. CASE Replaced
    BY <1>3, <2>1, <2>2, <2>3, <2>4, <2>6 DEF TransportInv, CallInv
  <2>7. QED
    BY <1>3, <2>5, <2>6
<1>8. EarnedInv'
  <2>1. \A d \in Clients : verdict'[d] = "answer" => verdict[d] = "answer"
    BY <1>3
  <2>2. AnswersAreEarned'
    BY <1>3, <2>1 DEF TransportInv, EarnedInv, AnswersAreEarned
  <2>3. QED
    BY <1>3, <2>2 DEF TransportInv, EarnedInv
<1>9. QuietInv'
  <2>1. noise = 0 => Messages <= 1 /\ Messages # 1
    BY <1>1 DEF TransportInv, QuietInv
  <2>2. CASE Kept
    BY <1>3, <2>1, <2>2 DEF QuietInv, Messages
  <2>3. CASE Replaced
    <3>1. Messages' = 0
      BY <2>3 DEF Messages
    <3>2. QED
      BY <3>1 DEF QuietInv
  <2>4. QED
    BY <1>3, <2>2, <2>3
<1>10. QED
  BY <1>4, <1>5, <1>6, <1>7, <1>8, <1>9 DEF TransportInv

LEMMA AppendFacts ==
  ASSUME NEW S, NEW s \in Seq(S), NEW e \in S
  PROVE  /\ Append(s, e) \in Seq(S) /\ Len(Append(s, e)) = Len(s) + 1
         /\ \A i \in DOMAIN Append(s, e) :
              \/ i \in DOMAIN s /\ Append(s, e)[i] = s[i]
              \/ i = Len(s) + 1 /\ Append(s, e)[i] = e
OBVIOUS

LEMMA TailFacts ==
  ASSUME NEW S, NEW s \in Seq(S), s # <<>>
  PROVE  /\ Tail(s) \in Seq(S) /\ Len(Tail(s)) = Len(s) - 1 /\ Len(s) \in Nat \ {0}
         /\ 1 \in DOMAIN s /\ Head(s) = s[1] /\ Head(s) \in S
         /\ \A i \in DOMAIN Tail(s) : i + 1 \in DOMAIN s /\ i \in Nat /\ i + 1 # 1
                                    /\ Tail(s)[i] = s[i + 1]
<1>1. Len(s) \in Nat \ {0} /\ Head(s) = s[1] /\ s[1] \in S
  BY EmptySeq
<1>2. Tail(s) \in Seq(S) /\ Len(Tail(s)) = Len(s) - 1
  BY <1>1
<1>3. \A i \in DOMAIN Tail(s) : i \in Nat /\ i >= 1 /\ i + 1 \in DOMAIN s
                              /\ Tail(s)[i] = s[i + 1]
  BY <1>1, <1>2
<1>4. QED
  BY <1>1, <1>2, <1>3

\* A request is written to a server that may die at once.
LEMMA WritingStep ==
  ASSUME TransportInv, NEW c \in Clients, pc[c] = "writing", Goto(c, "reading"),
         inbox' = IF alive THEN Append(inbox, c) ELSE inbox,
         UNCHANGED <<tries, verdict, lock, restarts,
                     alive, working, outbox, noise, effects>>
  PROVE  TransportInv'
<1>1. lock = c /\ \A d \in Clients \ {c} : pc[d] \notin Inside
  BY DEF TransportInv, LockInv, Inside
<1>2. /\ pc' \in [Clients -> Pc] /\ pc'[c] = "reading"
      /\ \A d \in Clients \ {c} : pc'[d] = pc[d]
  BY GotoFacts DEF TransportInv, Pc
<1>3. inbox \in Seq(Clients)
  BY DEF TransportInv, TypeOK
<1>4. /\ inbox' \in Seq(Clients)
      /\ \A i \in DOMAIN inbox' :
           \/ i \in DOMAIN inbox /\ inbox'[i] = inbox[i]
           \/ alive /\ i = Len(inbox) + 1 /\ inbox'[i] = c
      /\ Len(inbox') = IF alive THEN Len(inbox) + 1 ELSE Len(inbox)
  <2>1. CASE alive
    BY <2>1, <1>3, AppendFacts
  <2>2. CASE ~alive
    BY <2>2, <1>3
  <2>3. QED
    BY <2>1, <2>2
<1>5. TypeOK'
  BY <1>2, <1>4 DEF TransportInv, TypeOK
<1>6. LockInv'
  BY <1>1, <1>2 DEF TransportInv, LockInv, Inside
<1>7. DeadInv'
  BY DEF TransportInv, DeadInv
<1>8. CallInv'
  <2> SUFFICES ASSUME NEW d \in Calls PROVE CallInv!(d)'
    BY DEF CallInv
  <2>1. CallInv!(d)
    BY DEF TransportInv, CallInv
  <2>2. CASE d # c
    BY <2>1, <2>2, <1>2, <1>4, ClientsAssumption
  <2>3. CASE d = c
    <3>1. effects[d] = 0 /\ \A i \in DOMAIN inbox : inbox[i] # d
      BY <2>1, <2>3 DEF Unsent
    <3>2. verdict[d] # "refused"
      BY <2>1, <2>3
    <3>3. pc'[d] \notin Unsent
      BY <1>2, <2>3 DEF Unsent
    <3>4. QED
      BY <1>4, <3>1, <3>2, <3>3
  <2>4. QED
    BY <2>2, <2>3
<1>9. EarnedInv'
  BY DEF TransportInv, EarnedInv, AnswersAreEarned
<1>10. QuietInv'
  <2> SUFFICES ASSUME noise = 0 PROVE QuietInv'
    BY DEF QuietInv
  <2>1. Messages = 0 /\ Len(inbox) \in Nat /\ Len(working) \in Nat /\ Len(outbox) \in Nat
    BY <1>1 DEF TransportInv, QuietInv, TypeOK, Messages
  <2>2. Len(inbox) = 0 /\ Len(working) = 0 /\ Len(outbox) = 0
    BY <2>1 DEF Messages
  <2>3. DOMAIN working = {} /\ DOMAIN outbox = {} /\ DOMAIN inbox = {}
    BY <2>2 DEF TransportInv, TypeOK
  <2>4. Messages' <= 1 /\ \A i \in DOMAIN inbox' : inbox'[i] = c
    BY <1>4, <2>2, <2>3 DEF Messages
  <2>5. QED
    BY <1>1, <1>2, <2>3, <2>4 DEF QuietInv
<1>11. QED
  BY <1>5, <1>6, <1>7, <1>8, <1>9, <1>10 DEF TransportInv

\* A line is read, and the request ends with it.
LEMMA ReadingStep ==
  ASSUME TransportInv, NEW c \in Clients, ReadLine(c)
  PROVE  TransportInv'
<1>1. /\ pc[c] = "reading" /\ outbox # <<>> /\ outbox' = Tail(outbox)
      /\ UNCHANGED <<restarts, alive, inbox, working, noise, effects>>
      /\ Finish(c, Answered(c, Head(outbox)))
  BY DEF ReadLine
<1>2. lock = c /\ \A d \in Clients \ {c} : pc[d] \notin Inside
  BY <1>1 DEF TransportInv, LockInv, Inside
<1>3. Answered(c, Head(outbox)) \in {"answer", "mismatch"}
  BY DEF Answered
<1>4. /\ pc' \in [Clients -> Pc] /\ tries' \in [Clients -> 0..(MaxRestarts + 1)]
      /\ verdict' \in [Clients -> Verdict] /\ lock' = Nobody
      /\ pc'[c] = "done" /\ verdict'[c] = Answered(c, Head(outbox))
      /\ \A d \in Clients \ {c} : pc'[d] = pc[d] /\ verdict'[d] = verdict[d]
  BY <1>1, <1>3, FinishFacts DEF TransportInv, Verdict
<1>5. /\ outbox' \in Seq(Clients \cup {Noise}) /\ Len(outbox') = Len(outbox) - 1
      /\ 1 \in DOMAIN outbox /\ Head(outbox) = outbox[1]
      /\ \A i \in DOMAIN outbox' : i + 1 \in DOMAIN outbox /\ outbox'[i] = outbox[i + 1]
  BY <1>1, TailFacts DEF TransportInv, TypeOK
<1>6. TypeOK'
  BY <1>1, <1>4, <1>5 DEF TransportInv, TypeOK
<1>7. LockInv'
  BY <1>2, <1>4, ClientsAssumption DEF LockInv, Inside
<1>8. DeadInv'
  BY <1>1 DEF TransportInv, DeadInv
<1>9. CallInv'
  <2>1. \A d \in Calls : pc'[d] \in Unsent => pc[d] \in Unsent
    BY <1>1, <1>4, ClientsAssumption DEF Unsent
  <2>2. \A d \in Calls : verdict'[d] = "refused" => verdict[d] = "refused" /\ d # c
    BY <1>3, <1>4, ClientsAssumption
  <2>3. QED
    BY <1>1, <1>4, <2>1, <2>2, ClientsAssumption DEF TransportInv, CallInv
<1>10. EarnedInv'
  <2>1. verdict'[c] = "answer" => effects[c] >= 1
    <3>1. verdict'[c] = "answer" => Head(outbox) = c
      BY <1>4 DEF Answered
    <3>2. QED
      BY <1>5, <3>1, ClientsAssumption DEF TransportInv, EarnedInv, Noise
  <2>2. AnswersAreEarned'
    BY <1>1, <1>4, <2>1 DEF TransportInv, EarnedInv, AnswersAreEarned
  <2>3. QED
    BY <1>1, <1>5, <2>2 DEF TransportInv, EarnedInv
<1>11. QuietInv'
  <2>1. Len(inbox) \in Nat /\ Len(working) \in Nat /\ Len(outbox) \in Nat
    BY DEF TransportInv, TypeOK
  <2>2. noise' = 0 => Messages' <= 0
    BY <1>1, <1>5, <2>1 DEF TransportInv, QuietInv, Messages
  <2>3. QED
    BY <1>1, <1>5, <2>1, <2>2 DEF QuietInv, Messages
<1>12. QED
  BY <1>6, <1>7, <1>8, <1>9, <1>10, <1>11 DEF TransportInv

\* The server carries out the oldest request of its input.
LEMMA ServeStep ==
  ASSUME TransportInv, Serve
  PROVE  TransportInv'
<1> DEFINE h == Head(inbox)
<1>1. /\ alive /\ inbox # <<>> /\ inbox' = Tail(inbox) /\ working' = Append(working, h)
      /\ effects' = [effects EXCEPT ![h] = @ + 1]
      /\ UNCHANGED <<pc, tries, verdict, lock, restarts, alive, outbox, noise>>
  BY DEF Serve, client
<1>2. inbox \in Seq(Clients) /\ working \in Seq(Clients) /\ effects \in [Clients -> Nat]
  BY DEF TransportInv, TypeOK
<1>3. /\ inbox' \in Seq(Clients) /\ Len(inbox') = Len(inbox) - 1 /\ Len(inbox) \in Nat \ {0}
      /\ 1 \in DOMAIN inbox /\ h = inbox[1] /\ h \in Clients
      /\ \A i \in DOMAIN inbox' : i + 1 \in DOMAIN inbox /\ i \in Nat /\ i + 1 # 1
                                /\ inbox'[i] = inbox[i + 1]
  BY <1>1, <1>2, TailFacts
<1>4. /\ working' \in Seq(Clients) /\ Len(working') = Len(working) + 1
      /\ \A i \in DOMAIN working' :
           \/ i \in DOMAIN working /\ working'[i] = working[i]
           \/ working'[i] = h
  BY <1>1, <1>2, <1>3, AppendFacts
<1>5. /\ effects' \in [Clients -> Nat] /\ effects'[h] = effects[h] + 1
      /\ \A d \in Clients \ {h} : effects'[d] = effects[d]
      /\ \A d \in Clients : effects'[d] >= effects[d] /\ effects[d] \in Nat
  BY <1>1, <1>2, <1>3
<1>6. TypeOK'
  BY <1>1, <1>3, <1>4, <1>5 DEF TransportInv, TypeOK
<1>7. LockInv' /\ DeadInv'
  BY <1>1 DEF TransportInv, LockInv, DeadInv
<1>8. CallInv'
  <2> SUFFICES ASSUME NEW d \in Calls PROVE CallInv!(d)'
    BY DEF CallInv
  <2>1. CallInv!(d)
    BY DEF TransportInv, CallInv
  <2>2. CASE d # h
    BY <2>1, <2>2, <1>1, <1>3, <1>5, ClientsAssumption
  <2>3. CASE d = h
    <3>1. effects[d] = 0 /\ pc[d] \notin Unsent /\ verdict[d] # "refused"
      BY <2>1, <2>3, <1>3
    <3>2. \A i \in DOMAIN inbox' : inbox'[i] # d
      BY <2>1, <2>3, <1>3
    <3>3. QED
      BY <1>1, <1>5, <2>3, <3>1, <3>2
  <2>4. QED
    BY <2>2, <2>3
<1>9. EarnedInv'
  <2>1. \A i \in DOMAIN working' : effects'[working'[i]] >= 1
    <3>1. \A i \in DOMAIN working : working[i] \in Clients /\ effects[working[i]] >= 1
      BY <1>2 DEF TransportInv, EarnedInv
    <3>2. \A i \in DOMAIN working : effects'[working[i]] >= 1
      BY <1>2, <1>5, <3>1
    <3>3. effects'[h] >= 1
      BY <1>2, <1>3, <1>5
    <3>4. QED
      BY <1>4, <3>2, <3>3
  <2>2. \A i \in DOMAIN outbox : outbox[i] # Noise => outbox[i] \in Clients
    BY DEF TransportInv, TypeOK
  <2>3. \A i \in DOMAIN outbox : outbox[i] # Noise => effects'[outbox[i]] >= 1
    BY <1>5, <2>2 DEF TransportInv, EarnedInv
  <2>4. AnswersAreEarned'
    BY <1>1, <1>5 DEF TransportInv, EarnedInv, AnswersAreEarned
  <2>5. QED
    BY <1>1, <2>1, <2>3, <2>4 DEF EarnedInv
<1>10. QuietInv'
  <2> SUFFICES ASSUME noise = 0 PROVE QuietInv'
    BY <1>1 DEF QuietInv
  <2>1. Len(working) \in Nat /\ Len(outbox) \in Nat
    BY DEF TransportInv, TypeOK
  <2>2. Messages = 1 /\ Messages' = Messages
    BY <1>1, <1>3, <1>4, <2>1 DEF TransportInv, QuietInv, Messages
  <2>3. /\ lock \in Clients /\ pc[lock] = "reading" /\ h = lock
        /\ \A i \in DOMAIN inbox : inbox[i] = lock
        /\ \A i \in DOMAIN working : working[i] = lock
        /\ \A i \in DOMAIN outbox : outbox[i] \in {lock, Noise}
    BY <1>3, <2>2 DEF TransportInv, QuietInv
  <2>4. QED
    BY <1>1, <1>3, <1>4, <2>2, <2>3 DEF QuietInv
<1>11. QED
  BY <1>6, <1>7, <1>8, <1>9, <1>10 DEF TransportInv

\* The server answers the oldest request it carried out.
LEMMA ReplyStep ==
  ASSUME TransportInv, Reply
  PROVE  TransportInv'
<1> DEFINE h == Head(working)
<1>1. /\ alive /\ working # <<>> /\ working' = Tail(working) /\ outbox' = Append(outbox, h)
      /\ UNCHANGED <<pc, tries, verdict, lock, restarts, alive, inbox, noise, effects>>
  BY DEF Reply, client
<1>2. working \in Seq(Clients) /\ outbox \in Seq(Clients \cup {Noise})
  BY DEF TransportInv, TypeOK
<1>3. /\ working' \in Seq(Clients) /\ Len(working') = Len(working) - 1
      /\ Len(working) \in Nat \ {0} /\ 1 \in DOMAIN working /\ h = working[1] /\ h \in Clients
      /\ \A i \in DOMAIN working' : i + 1 \in DOMAIN working /\ working'[i] = working[i + 1]
  BY <1>1, <1>2, TailFacts
<1>4. /\ outbox' \in Seq(Clients \cup {Noise}) /\ Len(outbox') = Len(outbox) + 1
      /\ \A i \in DOMAIN outbox' :
           \/ i \in DOMAIN outbox /\ outbox'[i] = outbox[i]
           \/ outbox'[i] = h
  BY <1>1, <1>2, <1>3, AppendFacts
<1>5. TypeOK'
  BY <1>1, <1>3, <1>4 DEF TransportInv, TypeOK
<1>6. LockInv' /\ DeadInv' /\ CallInv'
  BY <1>1 DEF TransportInv, LockInv, DeadInv, CallInv
<1>7. EarnedInv'
  <2>1. effects[h] >= 1
    BY <1>3 DEF TransportInv, EarnedInv
  <2>2. AnswersAreEarned'
    BY <1>1 DEF TransportInv, EarnedInv, AnswersAreEarned
  <2>3. QED
    BY <1>1, <1>3, <1>4, <2>1, <2>2 DEF TransportInv, EarnedInv
<1>8. QuietInv'
  <2> SUFFICES ASSUME noise = 0 PROVE QuietInv'
    BY <1>1 DEF QuietInv
  <2>1. Len(inbox) \in Nat /\ Len(outbox) \in Nat
    BY DEF TransportInv, TypeOK
  <2>2. Messages = 1 /\ Messages' = Messages
    BY <1>1, <1>3, <1>4, <2>1 DEF TransportInv, QuietInv, Messages
  <2>3. /\ lock \in Clients /\ pc[lock] = "reading" /\ h = lock
        /\ \A i \in DOMAIN inbox : inbox[i] = lock
        /\ \A i \in DOMAIN working : working[i] = lock
        /\ \A i \in DOMAIN outbox : outbox[i] \in {lock, Noise}
    BY <1>3, <2>2 DEF TransportInv, QuietInv
  <2>4. QED
    BY <1>1, <1>3, <1>4, <2>2, <2>3 DEF QuietInv
<1>9. QED
  BY <1>5, <1>6, <1>7, <1>8 DEF TransportInv

\* An unsolicited line ends the quiet, and changes nothing else.
LEMMA NoiseStep ==
  ASSUME TransportInv, PrintNoise
  PROVE  TransportInv'
<1>1. /\ noise < MaxNoise /\ noise' = noise + 1 /\ outbox' = Append(outbox, Noise)
      /\ UNCHANGED <<pc, tries, verdict, lock, restarts, alive, inbox, working, effects>>
  BY DEF PrintNoise, client
<1>2. /\ outbox' \in Seq(Clients \cup {Noise})
      /\ \A i \in DOMAIN outbox' :
           \/ i \in DOMAIN outbox /\ outbox'[i] = outbox[i]
           \/ outbox'[i] = Noise
  <2>1. outbox \in Seq(Clients \cup {Noise}) /\ Noise \in Clients \cup {Noise}
    BY DEF TransportInv, TypeOK
  <2>2. QED
    BY <1>1, <2>1, AppendFacts
<1>3. noise \in Nat /\ noise' \in 0..MaxNoise /\ noise' # 0
  BY <1>1, BoundsAssumption DEF TransportInv, TypeOK
<1>4. TypeOK'
  BY <1>1, <1>2, <1>3 DEF TransportInv, TypeOK
<1>5. LockInv' /\ DeadInv' /\ CallInv'
  BY <1>1 DEF TransportInv, LockInv, DeadInv, CallInv
<1>6. EarnedInv'
  BY <1>1, <1>2 DEF TransportInv, EarnedInv, AnswersAreEarned
<1>7. QuietInv'
  BY <1>3 DEF QuietInv
<1>8. QED
  BY <1>4, <1>5, <1>6, <1>7 DEF TransportInv

\* Dying loses what was not read and what was not answered.
LEMMA DyingStep ==
  ASSUME TransportInv, Die
  PROVE  TransportInv'
<1>1. /\ alive' = FALSE /\ inbox' = <<>> /\ working' = <<>>
      /\ outbox' = outbox \/ (working # <<>> /\ outbox' = Append(outbox, Noise))
      /\ UNCHANGED <<pc, tries, verdict, lock, restarts, noise, effects>>
  BY DEF Die, client
<1>2. working \in Seq(Clients) /\ inbox \in Seq(Clients)
      /\ outbox \in Seq(Clients \cup {Noise})
  BY DEF TransportInv, TypeOK
<1>3. /\ outbox' \in Seq(Clients \cup {Noise})
      /\ \A i \in DOMAIN outbox' :
           \/ i \in DOMAIN outbox /\ outbox'[i] = outbox[i]
           \/ outbox'[i] = Noise
      /\ Len(outbox') <= Len(outbox) + (IF working # <<>> THEN 1 ELSE 0)
  <2>1. CASE outbox' = outbox
    BY <2>1, <1>2
  <2>2. CASE working # <<>> /\ outbox' = Append(outbox, Noise)
    <3>1. Noise \in Clients \cup {Noise}
      OBVIOUS
    <3>2. QED
      BY <2>2, <3>1, <1>2, AppendFacts
  <2>3. QED
    BY <1>1, <2>1, <2>2
<1>4. TypeOK'
  <2>1. <<>> \in Seq(Clients) /\ FALSE \in BOOLEAN
    OBVIOUS
  <2>2. inbox' \in Seq(Clients) /\ working' \in Seq(Clients) /\ alive' \in BOOLEAN
    BY <1>1, <2>1
  <2>3. QED
    BY <1>1, <1>3, <2>2 DEF TransportInv, TypeOK
<1>5. LockInv' /\ DeadInv' /\ CallInv'
  BY <1>1 DEF TransportInv, LockInv, DeadInv, CallInv
<1>6. EarnedInv'
  BY <1>1, <1>3 DEF TransportInv, EarnedInv, AnswersAreEarned
<1>7. QuietInv'
  <2> SUFFICES ASSUME noise = 0 PROVE QuietInv'
    BY <1>1 DEF QuietInv
  <2>1. /\ Len(inbox) \in Nat /\ Len(working) \in Nat
        /\ Len(outbox) \in Nat /\ Len(outbox') \in Nat
        /\ working # <<>> => Len(working) >= 1
    BY <1>2, <1>3, EmptySeq
  <2>2. Messages <= 1 /\ Messages \in Nat
    BY <2>1 DEF TransportInv, QuietInv, Messages
  <2>3. Messages' = Len(outbox') /\ Messages' <= Messages
    BY <1>1, <1>3, <2>1 DEF Messages
  <2>4. Messages' = 1 => Messages = 1
    BY <2>1, <2>2, <2>3
  <2>5. Messages = 1 => /\ lock \in Clients /\ pc[lock] = "reading"
                        /\ \A i \in DOMAIN outbox : outbox[i] \in {lock, Noise}
    BY DEF TransportInv, QuietInv
  <2>6. Messages' <= 1
    BY <2>1, <2>2, <2>3
  <2>7. QED
    BY <1>1, <1>3, <2>4, <2>5, <2>6 DEF QuietInv
<1>8. QED
  BY <1>4, <1>5, <1>6, <1>7 DEF TransportInv

-----------------------------------------------------------------------------
(* Theorems *)

\* The inductive invariant of the transport holds in every reachable state,
\* for any set of requests and any bounds.
THEOREM TransportInvariant == Spec => []TransportInv
<1>1. TransportInv /\ [Next]_vars => TransportInv'
  <2> SUFFICES ASSUME TransportInv, [Next]_vars PROVE TransportInv'
    OBVIOUS
  <2>1. ASSUME NEW c \in Clients, Request(c) PROVE TransportInv'
    BY <2>1, EnteringStep
  <2>2. ASSUME NEW c \in Clients, Rpc(c) PROVE TransportInv'
    <3>1. CASE Acquire(c)
      BY <3>1, EnteringStep
    <3>2. CASE CheckAlive(c)
      BY <3>2, CheckingStep
    <3>3. CASE Write(c)
      <4>1. CASE ~alive /\ Lost(c)
        BY <3>3, <4>1, LosingStep DEF Write
      <4>2. CASE ~(~alive /\ Lost(c))
        BY <3>3, <4>2, WritingStep DEF Write
      <4>3. QED
        BY <4>1, <4>2
    <3>4. CASE ReadLine(c)
      BY <3>4, ReadingStep
    <3>5. CASE ReadEnd(c)
      BY <3>5, LosingStep DEF ReadEnd
    <3>6. QED
      BY <2>2, <3>1, <3>2, <3>3, <3>4, <3>5 DEF Rpc
  <2>3. CASE Serve
    BY <2>3, ServeStep
  <2>4. CASE Reply
    BY <2>4, ReplyStep
  <2>5. CASE PrintNoise
    BY <2>5, NoiseStep
  <2>6. CASE Die
    BY <2>6, DyingStep
  <2>7. CASE UNCHANGED vars
    BY <2>7
    DEF vars, client, server, TransportInv, TypeOK, LockInv, DeadInv, CallInv,
        EarnedInv, AnswersAreEarned, QuietInv, Messages
  <2>8. QED
    BY <2>1, <2>2, <2>3, <2>4, <2>5, <2>6, <2>7 DEF Next
<1>2. QED
  BY TransportInit, <1>1, PTL DEF Spec

\* Every variable of the transport keeps its type, and restarts their bound.
THEOREM TransportTypeCorrect == Spec => []TypeOK
<1>1. TransportInv => TypeOK
  BY DEF TransportInv
<1>2. QED
  BY <1>1, TransportInvariant, PTL

\* A tool call reaches a server once at most, over any number of deaths and
\* restarts, and one that was refused reaches none.
THEOREM NoRepeatedCall == Spec => []CalledAtMostOnce
<1>1. TransportInv => CalledAtMostOnce
  BY DEF TransportInv, CallInv, CalledAtMostOnce
<1>2. QED
  BY <1>1, TransportInvariant, PTL

\* What a client takes for its answer was made by carrying out its request.
THEOREM EarnedAnswers == Spec => []AnswersAreEarned
<1>1. TransportInv => AnswersAreEarned
  BY DEF TransportInv, EarnedInv
<1>2. QED
  BY <1>1, TransportInvariant, PTL

\* While the server prints only answers, no thread inside meets a line meant
\* for another.
THEOREM OwnAnswers == Spec => []OneAtATime
<1>1. TransportInv => OneAtATime
  <2> SUFFICES ASSUME TransportInv, NEW c \in Clients,
                      pc[c] \in {"writing", "reading"}, noise = 0,
                      NEW i \in DOMAIN outbox
               PROVE  outbox[i] \in {c, Noise}
    BY DEF OneAtATime
  <2>1. lock = c
    BY DEF TransportInv, LockInv, Inside
  <2>2. Len(inbox) \in Nat /\ Len(working) \in Nat /\ Len(outbox) \in Nat \ {0}
    BY DEF TransportInv, TypeOK
  <2>3. Messages = 1
    BY <2>2 DEF TransportInv, QuietInv, Messages
  <2>4. QED
    BY <2>1, <2>3 DEF TransportInv, QuietInv
<1>2. QED
  BY <1>1, TransportInvariant, PTL

-----------------------------------------------------------------------------
(* The transport as a remote call *)

\* What was carried out and is on its way back.
Back == {working[i] : i \in DOMAIN working} \cup {outbox[i] : i \in DOMAIN outbox}
Queued(c) == \E i \in DOMAIN inbox : inbox[i] = c
Sends(c) == MaxRestarts + 1 - tries[c]

\* A request is sent once per turn of the loop.  While it is in the input it was
\* carried out once less than it was sent, and its client waits for it or went
\* off with a stray line.
PipeInv(c) ==
  /\ tries[c] >= 1
  /\ verdict[c] = "none" <=> pc[c] # "done"
  /\ effects[c] <= Sends(c) + 1
  /\ pc[c] \in Unsent => c \notin Back /\ ~Queued(c) /\ effects[c] <= Sends(c)
  /\ Queued(c) =>
       /\ c \notin Back /\ effects[c] <= Sends(c)
       /\ pc[c] = "reading" \/ (verdict[c] = "mismatch" /\ noise > 0)
  /\ \A i, j \in DOMAIN inbox : inbox[i] = c /\ inbox[j] = c => i = j

\* Without stray lines, half a line is left of the answer to the one who reads.
TornInv ==
  noise = 0 => \A i \in DOMAIN outbox : outbox[i] = Noise => effects[lock] >= 1

CallsInv == TornInv /\ \A c \in Clients : PipeInv(c)

\* Answers and losses leave a request as it is whose own thread stands still,
\* or has not sent it yet.
LEMMA PipeStays ==
  ASSUME TypeOK, NEW d \in Clients, PipeInv(d),
         inbox' = inbox \/ inbox' = <<>>, Back' \subseteq Back \cup {Noise},
         effects'[d] = effects[d], noise' \in Nat, noise' >= noise,
         tries'[d] = tries[d], verdict'[d] = verdict[d],
         pc'[d] = pc[d] \/ (pc[d] \in Unsent /\ pc'[d] \in Unsent)
  PROVE  PipeInv(d)'
<1>1. d # Noise /\ noise \in Nat
  BY ClientsAssumption DEF Noise, TypeOK
<1>2. d \in Back' => d \in Back
  BY <1>1
<1>3. Queued(d)' => Queued(d)
  BY DEF Queued
<1>4. Sends(d)' = Sends(d)
  BY DEF Sends
<1>5. \A i, j \in DOMAIN inbox' : inbox'[i] = d /\ inbox'[j] = d => i = j
  BY DEF PipeInv
<1>6. pc'[d] = "done" <=> pc[d] = "done"
  BY DEF Unsent
<1>7. pc'[d] \in Unsent => pc[d] \in Unsent
  OBVIOUS
<1>8. pc[d] = "reading" => pc'[d] = "reading"
  BY DEF Unsent
<1>9. QED
  BY <1>1, <1>2, <1>3, <1>4, <1>5, <1>6, <1>7, <1>8 DEF PipeInv

\* A request that ends is not in the input, unless its client took a stray line
\* for its answer.
LEMMA PipeEnds ==
  ASSUME TypeOK, NEW c \in Clients, PipeInv(c),
         inbox' = inbox \/ inbox' = <<>>, Back' \subseteq Back \cup {Noise},
         effects' = effects, noise' = noise,
         tries'[c] = tries[c], verdict'[c] # "none", pc'[c] = "done",
         Queued(c)' => verdict'[c] = "mismatch" /\ noise > 0
  PROVE  PipeInv(c)'
<1>1. c # Noise
  BY ClientsAssumption DEF Noise
<1>2. c \in Back' => c \in Back
  BY <1>1
<1>3. Queued(c)' => Queued(c)
  BY DEF Queued
<1>4. Sends(c)' = Sends(c)
  BY DEF Sends
<1>5. \A i, j \in DOMAIN inbox' : inbox'[i] = c /\ inbox'[j] = c => i = j
  BY DEF PipeInv
<1>6. pc'[c] \notin Unsent
  BY DEF Unsent
<1>7. QED
  BY <1>2, <1>3, <1>4, <1>5, <1>6 DEF PipeInv

\* The reader of half a line keeps its turn, whatever becomes of the line.
LEMMA TornStays ==
  ASSUME TransportInv, TransportInv', TornInv,
         \A d \in Clients : effects'[d] >= effects[d],
         noise' = noise,
         \A i \in DOMAIN outbox' : outbox'[i] = Noise => \E j \in DOMAIN outbox : outbox[j] = Noise,
         lock' = lock \/ lock' = Nobody \/ pc'[lock'] # "reading"
  PROVE  TornInv'
<1> SUFFICES ASSUME noise' = 0, NEW i \in DOMAIN outbox', outbox'[i] = Noise
             PROVE  effects'[lock'] >= 1
  BY DEF TornInv
<1>1. effects[lock] >= 1
  BY DEF TornInv
<1>2. Len(inbox') \in Nat /\ Len(working') \in Nat /\ Len(outbox') \in Nat \ {0}
  <2>1. /\ inbox' \in Seq(Clients) /\ working' \in Seq(Clients)
        /\ outbox' \in Seq(Clients \cup {Noise})
    BY DEF TransportInv, TypeOK
  <2>2. QED
    BY <2>1
<1>3. Messages' = 1
  BY <1>2 DEF TransportInv, QuietInv, Messages
<1>4. lock' \in Clients /\ pc'[lock'] = "reading"
  BY <1>3 DEF TransportInv, QuietInv
<1>5. lock' = lock /\ lock \in Clients
  BY <1>4, ClientsAssumption
<1>6. effects[lock] \in Nat /\ effects'[lock] \in Nat
  BY <1>5 DEF TransportInv, TypeOK
<1>7. QED
  BY <1>1, <1>5, <1>6

LEMMA CallsInit == Init => CallsInv
<1> SUFFICES ASSUME Init PROVE CallsInv
  OBVIOUS
<1>1. DOMAIN inbox = {} /\ DOMAIN working = {} /\ DOMAIN outbox = {}
  BY DEF Init
<1>2. TornInv
  BY <1>1 DEF TornInv
<1>3. ASSUME NEW c \in Clients PROVE PipeInv(c)
  <2>1. /\ pc[c] = "idle" /\ tries[c] = MaxRestarts + 1 /\ verdict[c] = "none"
        /\ effects[c] = 0
    BY DEF Init
  <2>2. c \notin Back /\ ~Queued(c)
    BY <1>1 DEF Back, Queued
  <2>3. Sends(c) = 0
    BY <2>1, BoundsAssumption DEF Sends
  <2>4. QED
    BY <1>1, <2>1, <2>2, <2>3, BoundsAssumption DEF PipeInv, Unsent
<1>4. QED
  BY <1>2, <1>3 DEF CallsInv

\* What a broken connection does to the request and the pipes, as the caller
\* of the transport sees it: the end, its outcome unknown, or another turn.
LEMMA LostRequest ==
  ASSUME TransportInv, NEW c \in Clients, Lost(c)
  PROVE  /\ effects' = effects /\ noise' = noise
         /\ \/ UNCHANGED <<inbox, working, outbox>>
            \/ inbox' = <<>> /\ working' = <<>> /\ outbox' = <<>>
         /\ \/ Finish(c, "unknown")
            \/ /\ tries[c] > 1 /\ tries' = [tries EXCEPT ![c] = @ - 1]
               /\ Goto(c, "checking") /\ UNCHANGED <<verdict, lock>>
               /\ inbox' = <<>> /\ working' = <<>> /\ outbox' = <<>>
<1>1. CASE ~CanRestart
  BY <1>1 DEF Lost, server
<1>2. CASE CanRestart
  BY <1>2 DEF Lost, Respawn, NextTry
<1>3. QED
  BY <1>1, <1>2

\* What the turn of a request amounts to between lock and write.
LEMMA CheckedRequest ==
  ASSUME TransportInv, NEW c \in Clients, CheckAlive(c)
  PROVE  /\ pc[c] = "checking" /\ effects' = effects /\ noise' = noise
         /\ \/ UNCHANGED <<inbox, working, outbox>>
            \/ inbox' = <<>> /\ working' = <<>> /\ outbox' = <<>>
         /\ \/ Goto(c, "writing") /\ UNCHANGED <<tries, verdict, lock>>
            \/ Finish(c, IF tries[c] = MaxRestarts + 1 THEN "refused" ELSE "unknown")
<1>1. CASE alive
  BY <1>1 DEF CheckAlive, server
<1>2. CASE ~alive /\ CanRestart
  BY <1>2 DEF CheckAlive, Respawn
<1>3. CASE ~alive /\ ~CanRestart
  BY <1>3 DEF CheckAlive, server
<1>4. QED
  BY <1>1, <1>2, <1>3

\* Nothing comes back from pipes that are left alone or replaced.
LEMMA PipesAreKept ==
  ASSUME UNCHANGED <<inbox, working, outbox>>
         \/ (inbox' = <<>> /\ working' = <<>> /\ outbox' = <<>>)
  PROVE  /\ inbox' = inbox \/ inbox' = <<>>
         /\ Back' \subseteq Back \cup {Noise}
         /\ \A i \in DOMAIN outbox' :
              outbox'[i] = Noise => \E j \in DOMAIN outbox : outbox[j] = Noise
BY DEF Back

LEMMA EnteringKeepsCalls ==
  ASSUME TransportInv, CallsInv, NEW c \in Clients, Request(c) \/ Acquire(c)
  PROVE  CallsInv'
<1>1. /\ UNCHANGED <<tries, verdict, inbox, working, outbox, noise, effects>>
      /\ \/ pc[c] = "idle" /\ Goto(c, "waiting") /\ lock' = lock
         \/ pc[c] = "waiting" /\ Goto(c, "checking") /\ lock' = c
  BY DEF Request, Acquire, server
<1>2. /\ pc'[c] \in {"waiting", "checking"} /\ pc[c] \in Unsent /\ pc'[c] \in Unsent
      /\ \A d \in Clients \ {c} : pc'[d] = pc[d]
      /\ lock' = lock \/ pc'[lock'] # "reading"
  BY <1>1, GotoFacts DEF TransportInv, Pc, Unsent
<1>3. TransportInv' /\ noise \in Nat
  <2>1. noise \in Nat
    BY DEF TransportInv, TypeOK
  <2>2. QED
    BY <2>1, EnteringStep
<1>4. TornInv'
  <2>1. \A d \in Clients : effects'[d] >= effects[d]
    BY <1>1 DEF TransportInv, TypeOK
  <2>2. QED
    BY <1>1, <1>2, <1>3, <2>1, TornStays, PipesAreKept DEF CallsInv
<1>5. ASSUME NEW d \in Clients PROVE PipeInv(d)'
  <2>1. noise' \in Nat /\ noise' >= noise
    BY <1>1, <1>3
  <2>2. PipeInv(d) /\ TypeOK
    BY DEF CallsInv, TransportInv
  <2>3. inbox' = inbox /\ Back' \subseteq Back \cup {Noise}
    BY <1>1, PipesAreKept
  <2>4. QED
    BY <1>1, <1>2, <2>1, <2>2, <2>3, PipeStays
<1>6. QED
  BY <1>4, <1>5 DEF CallsInv

LEMMA CheckingKeepsCalls ==
  ASSUME TransportInv, CallsInv, NEW c \in Clients, CheckAlive(c)
  PROVE  CallsInv'
<1>1. /\ pc[c] = "checking" /\ effects' = effects /\ noise' = noise
      /\ \/ Goto(c, "writing") /\ UNCHANGED <<tries, verdict, lock>>
         \/ Finish(c, IF tries[c] = MaxRestarts + 1 THEN "refused" ELSE "unknown")
  BY CheckedRequest
<1>2. /\ inbox' = inbox \/ inbox' = <<>>
      /\ Back' \subseteq Back \cup {Noise}
      /\ \A i \in DOMAIN outbox' :
           outbox'[i] = Noise => \E j \in DOMAIN outbox : outbox[j] = Noise
  BY CheckedRequest, PipesAreKept
<1>3. TransportInv' /\ noise \in Nat /\ TypeOK /\ \A d \in Clients : PipeInv(d)
  <2>1. noise \in Nat /\ TypeOK
    BY DEF TransportInv, TypeOK
  <2>2. QED
    BY <2>1, CheckingStep DEF CallsInv
<1>4. /\ tries' = tries
      /\ lock' = lock \/ lock' = Nobody
      /\ \A d \in Clients \ {c} : pc'[d] = pc[d] /\ verdict'[d] = verdict[d]
      /\ \/ pc'[c] = "writing" /\ verdict'[c] = verdict[c]
         \/ pc'[c] = "done" /\ verdict'[c] # "none"
  <2>1. CASE Goto(c, "writing") /\ UNCHANGED <<tries, verdict, lock>>
    BY <2>1, GotoFacts, <1>3 DEF Pc
  <2>2. CASE Finish(c, IF tries[c] = MaxRestarts + 1 THEN "refused" ELSE "unknown")
    <3>1. PICK v \in {"refused", "unknown"} : Finish(c, v)
      BY <2>2
    <3>2. v \in Verdict /\ v # "none"
      BY <3>1 DEF Verdict
    <3>3. tries' = tries
      BY <3>1 DEF Finish
    <3>4. QED
      BY <3>1, <3>2, <3>3, FinishFacts, <1>3
  <2>3. QED
    BY <1>1, <2>1, <2>2
<1>5. TornInv'
  <2>1. \A d \in Clients : effects'[d] >= effects[d]
    BY <1>1 DEF TransportInv, TypeOK
  <2>2. QED
    BY <1>1, <1>2, <1>3, <1>4, <2>1, TornStays DEF CallsInv
<1>6. ASSUME NEW d \in Clients PROVE PipeInv(d)'
  <2>1. noise' \in Nat /\ noise' >= noise
    BY <1>1, <1>3
  <2>2. CASE d # c \/ pc'[c] = "writing"
    <3>1. pc'[d] = pc[d] \/ (pc[d] \in Unsent /\ pc'[d] \in Unsent)
      BY <2>2, <1>1, <1>4 DEF Unsent
    <3>2. verdict'[d] = verdict[d]
      BY <2>2, <1>4
    <3>3. QED
      BY <1>1, <1>2, <1>3, <1>4, <2>1, <3>1, <3>2, PipeStays
  <2>3. CASE d = c /\ pc'[c] = "done"
    <3>1. ~Queued(c)
      BY <1>1, <1>3 DEF PipeInv, Unsent
    <3>2. ~Queued(c)'
      BY <1>2, <3>1 DEF Queued
    <3>3. verdict'[c] # "none"
      BY <1>4, <2>3
    <3>4. QED
      BY <1>1, <1>2, <1>3, <1>4, <2>3, <3>2, <3>3, PipeEnds
  <2>4. QED
    BY <1>4, <2>2, <2>3
<1>7. QED
  BY <1>5, <1>6 DEF CallsInv

\* Half a line on the output is younger than a write: whoever writes without
\* stray lines finds the pipes empty.
LEMMA WritingKeepsCalls ==
  ASSUME TransportInv, CallsInv, NEW c \in Clients, pc[c] = "writing", Goto(c, "reading"),
         inbox' = IF alive THEN Append(inbox, c) ELSE inbox,
         UNCHANGED <<tries, verdict, lock, restarts,
                     alive, working, outbox, noise, effects>>
  PROVE  CallsInv'
<1>1. TransportInv'
  BY WritingStep
<1>2. noise \in Nat /\ TypeOK /\ inbox \in Seq(Clients) /\ \A d \in Clients : PipeInv(d)
  BY BoundsAssumption DEF TransportInv, TypeOK, CallsInv
<1>3. pc'[c] = "reading" /\ \A d \in Clients \ {c} : pc'[d] = pc[d]
  BY <1>2, GotoFacts DEF Pc
<1>4. /\ Back' = Back /\ \A d \in Clients : Sends(d)' = Sends(d)
      /\ DOMAIN inbox \subseteq DOMAIN inbox'
      /\ \A i \in DOMAIN inbox' :
           \/ i \in DOMAIN inbox /\ inbox'[i] = inbox[i]
           \/ i = Len(inbox) + 1 /\ inbox'[i] = c
  <2>1. Back' = Back /\ \A d \in Clients : Sends(d)' = Sends(d)
    BY DEF Back, Sends
  <2>2. CASE alive
    BY <1>2, <2>1, <2>2, AppendFacts
  <2>3. CASE ~alive
    BY <2>1, <2>3
  <2>4. QED
    BY <2>2, <2>3
<1>5. TornInv'
  <2>1. \A d \in Clients : effects'[d] >= effects[d]
    BY DEF TransportInv, TypeOK
  <2>2. QED
    BY <1>1, <2>1, TornStays DEF CallsInv
<1>6. ASSUME NEW d \in Clients PROVE PipeInv(d)'
  <2>1. CASE d # c
    <3>1. Queued(d)' => Queued(d)
      BY <1>4, <2>1 DEF Queued
    <3>2. \A i, j \in DOMAIN inbox' : inbox'[i] = d /\ inbox'[j] = d => i = j
      BY <1>2, <1>4, <2>1 DEF PipeInv
    <3>3. QED
      BY <1>2, <1>3, <1>4, <2>1, <3>1, <3>2 DEF PipeInv
  <2>2. CASE d = c
    <3>1. c \notin Back /\ ~Queued(c) /\ effects[c] <= Sends(c) /\ verdict[c] = "none"
      BY <1>2 DEF PipeInv, Unsent
    <3>2. \A i, j \in DOMAIN inbox' : inbox'[i] = c /\ inbox'[j] = c => i = j
      BY <1>4, <3>1 DEF Queued
    <3>3. pc'[c] \notin Unsent /\ pc'[c] # "done"
      BY <1>3 DEF Unsent
    <3>4. QED
      BY <1>2, <1>3, <1>4, <2>2, <3>1, <3>2, <3>3 DEF PipeInv
  <2>3. QED
    BY <2>1, <2>2
<1>7. QED
  BY <1>5, <1>6 DEF CallsInv

LEMMA LosingKeepsCalls ==
  ASSUME TransportInv, CallsInv, NEW c \in Clients, Lost(c), ~alive,
         pc[c] = "writing" \/ (pc[c] = "reading" /\ outbox = <<>>)
  PROVE  CallsInv'
<1>1. /\ effects' = effects /\ noise' = noise
      /\ \/ Finish(c, "unknown")
         \/ /\ tries[c] > 1 /\ tries' = [tries EXCEPT ![c] = @ - 1]
            /\ Goto(c, "checking") /\ UNCHANGED <<verdict, lock>>
            /\ inbox' = <<>> /\ working' = <<>> /\ outbox' = <<>>
  BY LostRequest
<1>2. /\ inbox' = inbox \/ inbox' = <<>>
      /\ Back' \subseteq Back \cup {Noise}
      /\ \A i \in DOMAIN outbox' :
           outbox'[i] = Noise => \E j \in DOMAIN outbox : outbox[j] = Noise
  BY LostRequest, PipesAreKept
<1>3. TransportInv'
  BY LosingStep
<1>4. /\ noise \in Nat /\ TypeOK /\ \A d \in Clients : PipeInv(d)
      /\ \A d \in Clients : effects[d] \in Nat /\ tries[d] \in Nat
  BY BoundsAssumption DEF TransportInv, TypeOK, CallsInv
<1>5. ~Queued(c)'
  BY <1>2 DEF TransportInv, DeadInv, Queued
<1>6. CASE Finish(c, "unknown")
  <2>1. "unknown" \in Verdict
    BY DEF Verdict
  <2>2. /\ tries' = tries /\ lock' = Nobody /\ pc'[c] = "done" /\ verdict'[c] = "unknown"
        /\ \A d \in Clients \ {c} : pc'[d] = pc[d] /\ verdict'[d] = verdict[d]
    <3>1. tries' = tries
      BY <1>6 DEF Finish
    <3>2. QED
      BY <1>4, <1>6, <2>1, <3>1, FinishFacts
  <2>3. TornInv'
    <3>1. \A d \in Clients : effects'[d] >= effects[d]
      BY <1>1, <1>4
    <3>2. QED
      BY <1>1, <1>2, <1>3, <2>2, <3>1, TornStays DEF CallsInv
  <2>4. ASSUME NEW d \in Clients PROVE PipeInv(d)'
    <3>1. noise' \in Nat /\ noise' >= noise
      BY <1>1, <1>4
    <3>2. CASE d # c
      BY <1>1, <1>2, <1>4, <2>2, <3>1, <3>2, PipeStays
    <3>3. CASE d = c
      BY <1>1, <1>2, <1>4, <1>5, <2>2, <3>3, PipeEnds
    <3>4. QED
      BY <3>2, <3>3
  <2>5. QED
    BY <2>3, <2>4 DEF CallsInv
<1>7. CASE ~Finish(c, "unknown")
  <2>1. /\ tries[c] > 1 /\ tries' = [tries EXCEPT ![c] = @ - 1]
        /\ Goto(c, "checking") /\ UNCHANGED <<verdict, lock>>
        /\ inbox' = <<>> /\ working' = <<>> /\ outbox' = <<>>
    BY <1>1, <1>7
  <2>2. pc'[c] = "checking" /\ \A d \in Clients \ {c} : pc'[d] = pc[d]
    BY <1>4, <2>1, GotoFacts DEF Pc
  <2>3. tries'[c] = tries[c] - 1 /\ \A d \in Clients \ {c} : tries'[d] = tries[d]
    BY <2>1 DEF TransportInv, TypeOK
  <2>4. TornInv'
    BY <2>1 DEF TornInv
  <2>5. ASSUME NEW d \in Clients PROVE PipeInv(d)'
    <3>1. CASE d # c
      <4>1. noise' \in Nat /\ noise' >= noise
        BY <1>1, <1>4
      <4>2. QED
        BY <1>1, <1>2, <1>4, <2>1, <2>2, <2>3, <3>1, <4>1, PipeStays
    <3>2. CASE d = c
      <4>1. c \notin Back' /\ ~Queued(c)'
        BY <1>5, <2>1 DEF Back
      <4>2. /\ effects'[c] <= Sends(c)' /\ effects'[c] <= Sends(c)' + 1 /\ tries'[c] >= 1
        <5>1. effects[c] <= Sends(c) + 1 /\ effects[c] \in Nat /\ tries[c] \in Nat
          BY <1>4 DEF PipeInv
        <5>2. Sends(c)' = Sends(c) + 1 /\ Sends(c) \in Int
          BY <2>3, <5>1, BoundsAssumption DEF Sends
        <5>3. effects'[c] = effects[c] /\ tries'[c] = tries[c] - 1 /\ tries[c] > 1
          BY <1>1, <2>1, <2>3
        <5> HIDE DEF Sends
        <5>4. QED
          BY <5>1, <5>2, <5>3
      <4>3. verdict'[c] = "none" /\ pc'[c] # "done"
        BY <1>4, <2>1, <2>2 DEF PipeInv
      <4>4. QED
        BY <2>1, <3>2, <4>1, <4>2, <4>3 DEF PipeInv
    <3>3. QED
      BY <3>1, <3>2
  <2>6. QED
    BY <2>4, <2>5 DEF CallsInv
<1>8. QED
  BY <1>6, <1>7

\* Who takes a line for its answer has its request out of the input, if the line
\* is the answer, or if there are no stray lines.
LEMMA ReadRequest ==
  ASSUME TransportInv, CallsInv, NEW c \in Clients, ReadLine(c)
  PROVE  /\ Answered(c, Head(outbox)) = "answer" => ~Queued(c) /\ effects[c] >= 1
         /\ noise = 0 => ~Queued(c) /\ effects[c] >= 1
<1>1. outbox \in Seq(Clients \cup {Noise}) /\ outbox # <<>> /\ pc[c] = "reading"
  BY DEF TransportInv, TypeOK, ReadLine
<1>2. lock = c
  BY <1>1 DEF TransportInv, LockInv, Inside
<1>3. 1 \in DOMAIN outbox /\ Head(outbox) = outbox[1] /\ Len(outbox) \in Nat \ {0}
  BY <1>1, TailFacts
<1>4. ASSUME outbox[1] = c PROVE ~Queued(c) /\ effects[c] >= 1
  <2>1. c \in Back
    BY <1>3, <1>4 DEF Back
  <2>2. effects[c] >= 1
    BY <1>3, <1>4, ClientsAssumption DEF TransportInv, EarnedInv, Noise
  <2>3. QED
    BY <2>1, <2>2 DEF CallsInv, PipeInv
<1>5. Answered(c, Head(outbox)) = "answer" => Head(outbox) = c
  BY DEF Answered
<1>6. ASSUME noise = 0 PROVE ~Queued(c) /\ effects[c] >= 1
  <2>1. Len(inbox) \in Nat /\ Len(working) \in Nat
    BY DEF TransportInv, TypeOK
  <2>2. Messages = 1
    BY <1>3, <1>6, <2>1 DEF TransportInv, QuietInv, Messages
  <2>3. Len(inbox) = 0
    BY <1>3, <2>1, <2>2 DEF Messages
  <2>4. ~Queued(c)
    BY <2>3 DEF TransportInv, TypeOK, Queued
  <2>5. outbox[1] \in {c, Noise}
    BY <1>2, <1>3, <1>6, <2>2 DEF TransportInv, QuietInv
  <2>6. outbox[1] = Noise => effects[c] >= 1
    BY <1>2, <1>3, <1>6 DEF CallsInv, TornInv
  <2>7. QED
    BY <1>4, <2>4, <2>5, <2>6
<1>7. QED
  BY <1>3, <1>4, <1>5, <1>6

LEMMA ReadingKeepsCalls ==
  ASSUME TransportInv, CallsInv, NEW c \in Clients, ReadLine(c)
  PROVE  CallsInv'
<1>1. /\ pc[c] = "reading" /\ outbox # <<>> /\ outbox' = Tail(outbox)
      /\ UNCHANGED <<restarts, alive, inbox, working, noise, effects>>
      /\ Finish(c, Answered(c, Head(outbox)))
  BY DEF ReadLine
<1>2. TransportInv'
  BY ReadingStep
<1>3. /\ noise \in Nat /\ TypeOK /\ \A d \in Clients : PipeInv(d)
      /\ outbox \in Seq(Clients \cup {Noise}) /\ \A d \in Clients : effects[d] \in Nat
  BY BoundsAssumption DEF TransportInv, TypeOK, CallsInv
<1>4. Answered(c, Head(outbox)) \in {"answer", "mismatch"}
  BY DEF Answered
<1>5. /\ tries' = tries /\ lock' = Nobody
      /\ pc'[c] = "done" /\ verdict'[c] = Answered(c, Head(outbox))
      /\ \A d \in Clients \ {c} : pc'[d] = pc[d] /\ verdict'[d] = verdict[d]
  <2>1. tries' = tries
    BY <1>1 DEF Finish
  <2>2. Answered(c, Head(outbox)) \in Verdict
    BY <1>4 DEF Verdict
  <2>3. QED
    BY <1>1, <1>3, <2>1, <2>2, FinishFacts
<1>6. \A i \in DOMAIN outbox' : \E j \in DOMAIN outbox : outbox'[i] = outbox[j]
  <2>1. \A i \in DOMAIN Tail(outbox) : i + 1 \in DOMAIN outbox /\ Tail(outbox)[i] = outbox[i + 1]
    BY <1>1, <1>3, TailFacts
  <2>2. QED
    BY <1>1, <2>1
<1>7. Back' \subseteq Back \cup {Noise}
  BY <1>1, <1>6 DEF Back
<1>8. TornInv'
  <2>1. \A d \in Clients : effects'[d] >= effects[d]
    BY <1>1, <1>3
  <2>2. \A i \in DOMAIN outbox' : outbox'[i] = Noise => \E j \in DOMAIN outbox : outbox[j] = Noise
    BY <1>6
  <2>3. QED
    BY <1>1, <1>2, <1>5, <2>1, <2>2, TornStays DEF CallsInv
<1>9. ASSUME NEW d \in Clients PROVE PipeInv(d)'
  <2>1. noise' \in Nat /\ noise' >= noise
    BY <1>1, <1>3
  <2>2. CASE d # c
    BY <1>1, <1>3, <1>5, <1>7, <2>1, <2>2, PipeStays
  <2>3. CASE d = c
    <3>1. Queued(c)' = Queued(c)
      BY <1>1 DEF Queued
    <3>2. Queued(c) => Answered(c, Head(outbox)) = "mismatch" /\ noise > 0
      BY <1>3, <1>4, ReadRequest
    <3>3. verdict'[c] # "none"
      BY <1>4, <1>5
    <3>4. QED
      BY <1>1, <1>3, <1>5, <1>7, <2>3, <3>1, <3>2, <3>3, PipeEnds
  <2>4. QED
    BY <2>2, <2>3
<1>10. QED
  BY <1>8, <1>9 DEF CallsInv

\* The server takes a request from its input: that one is there no more.
LEMMA ServingKeepsCalls ==
  ASSUME TransportInv, CallsInv, Serve
  PROVE  CallsInv'
<1> DEFINE h == Head(inbox)
<1>1. /\ inbox # <<>> /\ inbox' = Tail(inbox) /\ working' = Append(working, h)
      /\ effects' = [effects EXCEPT ![h] = @ + 1]
      /\ UNCHANGED <<pc, tries, verdict, lock, restarts, alive, outbox, noise>>
  BY DEF Serve, client
<1>2. /\ inbox \in Seq(Clients) /\ working \in Seq(Clients) /\ effects \in [Clients -> Nat]
      /\ tries \in [Clients -> Nat] /\ \A d \in Clients : PipeInv(d)
  BY BoundsAssumption DEF TransportInv, TypeOK, CallsInv
<1>3. /\ 1 \in DOMAIN inbox /\ h = inbox[1] /\ h \in Clients
      /\ \A i \in DOMAIN inbox' : i + 1 \in DOMAIN inbox /\ i \in Nat /\ i + 1 # 1
                                /\ inbox'[i] = inbox[i + 1]
  BY <1>1, <1>2, TailFacts
<1>4. /\ \A i \in DOMAIN working' :
           \/ i \in DOMAIN working /\ working'[i] = working[i]
           \/ working'[i] = h
  BY <1>1, <1>2, <1>3, AppendFacts
<1>5. Back' \subseteq Back \cup {h}
  BY <1>1, <1>4 DEF Back
<1>6. /\ effects'[h] = effects[h] + 1 /\ \A d \in Clients \ {h} : effects'[d] = effects[d]
      /\ \A d \in Clients : effects'[d] >= effects[d]
  BY <1>1, <1>2, <1>3
<1>7. \A d \in Clients : Queued(d)' => Queued(d)
  BY <1>3 DEF Queued
<1>8. Queued(h)
  BY <1>3 DEF Queued
<1> HIDE DEF h
<1>9. TornInv'
  <2>1. TransportInv'
    BY ServeStep
  <2>2. QED
    BY <1>1, <1>6, <2>1, TornStays DEF CallsInv
<1>10. ASSUME NEW d \in Clients PROVE PipeInv(d)'
  <2>1. Sends(d)' = Sends(d) /\ Sends(d) \in Int
    BY <1>1, <1>2, BoundsAssumption DEF Sends
  <2>2. \A i, j \in DOMAIN inbox' : inbox'[i] = d /\ inbox'[j] = d => i = j
    <3>1. SUFFICES ASSUME NEW i \in DOMAIN inbox', NEW j \in DOMAIN inbox',
                          inbox'[i] = d, inbox'[j] = d
                   PROVE  i = j
      OBVIOUS
    <3>2. i + 1 = j + 1
      BY <1>2, <1>3, <3>1 DEF PipeInv
    <3>3. QED
      BY <1>3, <3>2
  <2>3. CASE d # h
    <3>1. d \in Back' => d \in Back
      BY <1>5, <2>3
    <3>2. QED
      BY <1>1, <1>2, <1>6, <1>7, <2>1, <2>2, <2>3, <3>1 DEF PipeInv
  <2>4. CASE d = h
    <3>1. ~Queued(d)'
      <4>1. SUFFICES ASSUME NEW i \in DOMAIN inbox', inbox'[i] = d PROVE FALSE
        BY DEF Queued
      <4>2. i + 1 = 1
        BY <1>2, <1>3, <2>4, <4>1 DEF PipeInv
      <4>3. QED
        BY <1>3, <4>2
    <3>2. effects[d] <= Sends(d) /\ pc[d] \notin Unsent
      BY <1>2, <1>8, <2>4 DEF PipeInv
    <3>3. effects'[d] <= Sends(d)' + 1
      BY <1>2, <1>6, <2>1, <2>4, <3>2
    <3>4. QED
      BY <1>1, <1>2, <2>1, <2>2, <3>1, <3>2, <3>3 DEF PipeInv
  <2>5. QED
    BY <2>3, <2>4
<1>11. QED
  BY <1>9, <1>10 DEF CallsInv

\* What the server does besides: it answers, prints, or dies, and takes nothing in.
LEMMA AnsweringKeepsCalls ==
  ASSUME TransportInv, CallsInv, Reply \/ PrintNoise \/ Die
  PROVE  CallsInv'
<1>1. /\ UNCHANGED <<pc, tries, verdict, lock, effects>>
      /\ inbox' = inbox \/ inbox' = <<>>
      /\ \/ noise' = noise
         \/ noise' = noise + 1
  BY DEF Reply, PrintNoise, Die, client
<1>2. /\ noise \in Nat /\ TypeOK /\ \A d \in Clients : PipeInv(d)
      /\ working \in Seq(Clients) /\ outbox \in Seq(Clients \cup {Noise})
      /\ \A d \in Clients : effects[d] \in Nat
  BY BoundsAssumption DEF TransportInv, TypeOK, CallsInv
<1>3. TransportInv'
  BY ReplyStep, NoiseStep, DyingStep
<1>4. ASSUME working # <<>>
      PROVE  /\ 1 \in DOMAIN working /\ Head(working) = working[1] /\ Head(working) \in Clients
             /\ \A i \in DOMAIN Tail(working) :
                  i + 1 \in DOMAIN working /\ Tail(working)[i] = working[i + 1]
  BY <1>2, <1>4, TailFacts
<1>5. ASSUME NEW e \in Clients \cup {Noise}, outbox' = Append(outbox, e)
      PROVE  \A i \in DOMAIN outbox' : outbox'[i] = e \/ \E j \in DOMAIN outbox : outbox'[i] = outbox[j]
  BY <1>2, <1>5, AppendFacts
<1>6. Back' \subseteq Back \cup {Noise}
  <2>1. CASE Reply
    <3>1. working # <<>> /\ working' = Tail(working) /\ outbox' = Append(outbox, Head(working))
      BY <2>1 DEF Reply
    <3>2. \A i \in DOMAIN outbox' :
            outbox'[i] = Head(working) \/ \E j \in DOMAIN outbox : outbox'[i] = outbox[j]
      BY <1>4, <1>5, <3>1
    <3>3. QED
      BY <1>4, <3>1, <3>2 DEF Back
  <2>2. CASE PrintNoise
    <3>1. working' = working /\ outbox' = Append(outbox, Noise)
      BY <2>2 DEF PrintNoise
    <3>2. QED
      BY <1>5, <3>1 DEF Back
  <2>3. CASE Die
    <3>1. working' = <<>> /\ (outbox' = outbox \/ outbox' = Append(outbox, Noise))
      BY <2>3 DEF Die
    <3>2. QED
      BY <1>5, <3>1 DEF Back
  <2>4. QED
    BY <2>1, <2>2, <2>3
<1>7. TornInv'
  <2>1. \A d \in Clients : effects'[d] >= effects[d]
    BY <1>1, <1>2
  <2>2. CASE Reply
    <3>1. working # <<>> /\ noise' = noise /\ outbox' = Append(outbox, Head(working))
      BY <2>2 DEF Reply
    <3>2. \A i \in DOMAIN outbox' : outbox'[i] = Noise => \E j \in DOMAIN outbox : outbox[j] = Noise
      BY <1>4, <1>5, <3>1, ClientsAssumption DEF Noise
    <3>3. QED
      BY <1>1, <1>3, <2>1, <3>1, <3>2, TornStays DEF CallsInv
  <2>3. CASE PrintNoise
    BY <1>2, <2>3 DEF PrintNoise, TornInv
  <2>4. CASE Die /\ outbox' = outbox
    <3>1. noise' = noise
      BY <2>4 DEF Die
    <3>2. QED
      BY <1>1, <1>3, <2>1, <2>4, <3>1, TornStays DEF CallsInv
  <2>5. CASE Die /\ outbox' # outbox
    <3>1. noise' = noise /\ working # <<>>
      BY <2>5 DEF Die
    <3>2. ASSUME noise = 0 PROVE effects[lock] >= 1
      <4>1. Len(inbox) \in Nat /\ Len(working) \in Nat \ {0} /\ Len(outbox) \in Nat
        BY <1>2, <3>1, EmptySeq DEF TransportInv, TypeOK
      <4>2. Messages = 1
        BY <3>2, <4>1 DEF TransportInv, QuietInv, Messages
      <4>3. working[1] = lock
        BY <1>4, <3>1, <3>2, <4>2 DEF TransportInv, QuietInv
      <4>4. effects[working[1]] >= 1
        BY <1>4, <3>1 DEF TransportInv, EarnedInv
      <4>5. QED
        BY <4>3, <4>4
    <3>3. QED
      BY <1>1, <3>1, <3>2 DEF TornInv
  <2>6. QED
    BY <2>2, <2>3, <2>4, <2>5
<1>8. ASSUME NEW d \in Clients PROVE PipeInv(d)'
  <2>1. noise' \in Nat /\ noise' >= noise
    BY <1>1, <1>2
  <2>2. QED
    BY <1>1, <1>2, <1>6, <2>1, PipeStays
<1>9. QED
  BY <1>7, <1>8 DEF CallsInv

LEMMA CallsStep == TransportInv /\ CallsInv /\ [Next]_vars => CallsInv'
<1> SUFFICES ASSUME TransportInv, CallsInv, [Next]_vars PROVE CallsInv'
  OBVIOUS
<1>1. ASSUME NEW c \in Clients, Request(c) \/ Rpc(c) PROVE CallsInv'
  <2>1. CASE Request(c) \/ Acquire(c)
    BY <2>1, EnteringKeepsCalls
  <2>2. CASE CheckAlive(c)
    BY <2>2, CheckingKeepsCalls
  <2>3. CASE Write(c)
    <3>1. CASE ~alive /\ Lost(c)
      BY <2>3, <3>1, LosingKeepsCalls DEF Write
    <3>2. CASE ~(~alive /\ Lost(c))
      BY <2>3, <3>2, WritingKeepsCalls DEF Write
    <3>3. QED
      BY <3>1, <3>2
  <2>4. CASE ReadLine(c)
    BY <2>4, ReadingKeepsCalls
  <2>5. CASE ReadEnd(c)
    BY <2>5, LosingKeepsCalls DEF ReadEnd
  <2>6. QED
    BY <1>1, <2>1, <2>2, <2>3, <2>4, <2>5 DEF Rpc
<1>2. CASE Serve
  BY <1>2, ServingKeepsCalls
<1>3. CASE Reply \/ PrintNoise \/ Die
  BY <1>3, AnsweringKeepsCalls
<1>4. CASE UNCHANGED vars
  <2>1. CallsInv <=> CallsInv'
    BY <1>4
    DEF vars, client, server, CallsInv, TornInv, PipeInv, Back, Queued, Sends
  <2>2. QED
    BY <2>1
<1>5. QED
  BY <1>1, <1>2, <1>3, <1>4 DEF Next

\* A request ends in its turn, with a verdict that is due.
LEMMA FinishConcludes ==
  ASSUME TransportInv, NEW c \in Clients, NEW v, Finish(c, v), pc[c] \in Inside,
         UNCHANGED <<noise, effects>>, v \in Remote!Verdicts(c)
  PROVE  Remote!Next
<1>1. lock = c
  BY DEF TransportInv, LockInv
<1>2. verdict' = [verdict EXCEPT ![c] = v] /\ lock' = Nobody
  BY DEF Finish
<1>3. Remote!Conclude(c)
  BY <1>1, <1>2 DEF Remote!Conclude
<1>4. QED
  BY <1>3 DEF Remote!Next

\* Once a request is given up, its outcome unknown or refused; or the loop turns,
\* which nobody outside can see.
LEMMA LosingMaps ==
  ASSUME TransportInv, NEW c \in Clients, Lost(c), pc[c] \in Inside
  PROVE  [Remote!Next]_(Remote!vars)
<1>1. UNCHANGED <<noise, effects>>
  BY LostRequest
<1>2. CASE Finish(c, "unknown")
  <2>1. "unknown" \in Remote!Verdicts(c)
    BY DEF Remote!Verdicts
  <2>2. QED
    BY <1>1, <1>2, <2>1, FinishConcludes
<1>3. CASE ~Finish(c, "unknown")
  BY <1>1, <1>3, LostRequest DEF Remote!vars
<1>4. QED
  BY <1>2, <1>3

\* Every step of the transport is a step of the remote call, or none.
LEMMA StepIsRemote ==
  TransportInv /\ CallsInv /\ [Next]_vars => [Remote!Next]_(Remote!vars)
<1> SUFFICES ASSUME TransportInv, CallsInv, [Next]_vars
             PROVE  [Remote!Next]_(Remote!vars)
  OBVIOUS
<1>1. ASSUME NEW c \in Clients, Request(c) PROVE UNCHANGED Remote!vars
  BY <1>1 DEF Request, server, Remote!vars
<1>2. ASSUME NEW c \in Clients, Acquire(c) PROVE Remote!Next
  <2>1. pc[c] = "waiting" /\ lock = Nobody /\ lock' = c /\ UNCHANGED <<effects, verdict, noise>>
    BY <1>2 DEF Acquire, server
  <2>2. verdict[c] = "none"
    BY <2>1 DEF CallsInv, PipeInv
  <2>3. Remote!Begin(c)
    BY <2>1, <2>2 DEF Remote!Begin
  <2>4. QED
    BY <2>3 DEF Remote!Next
<1>3. ASSUME NEW c \in Clients, CheckAlive(c) PROVE [Remote!Next]_(Remote!vars)
  <2>1. pc[c] = "checking" /\ effects' = effects /\ noise' = noise
    BY <1>3, CheckedRequest
  <2>2. CASE UNCHANGED <<verdict, lock>>
    BY <2>1, <2>2 DEF Remote!vars
  <2>3. CASE Finish(c, IF tries[c] = MaxRestarts + 1 THEN "refused" ELSE "unknown")
    <3>1. CASE tries[c] = MaxRestarts + 1
      <4>1. effects[c] \in Nat /\ effects[c] <= 0
        BY <2>1, <3>1, BoundsAssumption
        DEF CallsInv, PipeInv, Sends, Unsent, TransportInv, TypeOK
      <4>2. "refused" \in Remote!Verdicts(c)
        BY <4>1 DEF Remote!Verdicts
      <4>3. QED
        BY <2>1, <2>3, <3>1, <4>2, FinishConcludes DEF Inside
    <3>2. CASE tries[c] # MaxRestarts + 1
      <4>1. "unknown" \in Remote!Verdicts(c)
        BY DEF Remote!Verdicts
      <4>2. QED
        BY <2>1, <2>3, <3>2, <4>1, FinishConcludes DEF Inside
    <3>3. QED
      BY <3>1, <3>2
  <2>4. QED
    BY <1>3, <2>2, <2>3, CheckedRequest
<1>4. ASSUME NEW c \in Clients, Write(c) PROVE [Remote!Next]_(Remote!vars)
  <2>1. CASE Lost(c)
    BY <1>4, <2>1, LosingMaps DEF Write, Inside
  <2>2. CASE ~Lost(c)
    BY <1>4, <2>2 DEF Write, Remote!vars
  <2>3. QED
    BY <2>1, <2>2
<1>5. ASSUME NEW c \in Clients, ReadLine(c) PROVE Remote!Next
  <2>1. /\ pc[c] = "reading" /\ UNCHANGED <<noise, effects>>
        /\ Finish(c, Answered(c, Head(outbox)))
    BY <1>5 DEF ReadLine
  <2>2. /\ Answered(c, Head(outbox)) = "answer" => effects[c] >= 1
        /\ noise = 0 => effects[c] >= 1
    BY <1>5, ReadRequest
  <2>3. noise \in Nat /\ effects[c] \in Nat
    BY BoundsAssumption DEF TransportInv, TypeOK
  <2>4. Answered(c, Head(outbox)) \in {"answer", "mismatch"}
    BY DEF Answered
  <2>5. Answered(c, Head(outbox)) \in Remote!Verdicts(c)
    <3>1. effects[c] >= 1 => effects[c] > 0
      BY <2>3
    <3>2. noise = 0 \/ noise > 0
      BY <2>3
    <3>3. QED
      BY <2>2, <2>4, <3>1, <3>2 DEF Remote!Verdicts
  <2>6. QED
    BY <2>1, <2>5, FinishConcludes DEF Inside
<1>6. ASSUME NEW c \in Clients, ReadEnd(c) PROVE [Remote!Next]_(Remote!vars)
  BY <1>6, LosingMaps DEF ReadEnd, Inside
<1>7. CASE Serve
  <2> DEFINE h == Head(inbox)
  <2>1. /\ inbox # <<>> /\ effects' = [effects EXCEPT ![h] = @ + 1]
        /\ UNCHANGED <<lock, verdict, noise>>
    BY <1>7 DEF Serve, client
  <2>2. inbox \in Seq(Clients)
    BY DEF TransportInv, TypeOK
  <2>3. 1 \in DOMAIN inbox /\ h = inbox[1] /\ h \in Clients
    BY <2>1, <2>2, TailFacts
  <2> HIDE DEF h
  <2>4. Queued(h) /\ PipeInv(h) /\ effects[h] \in Nat /\ tries[h] \in Nat
    BY <2>3, BoundsAssumption DEF Queued, CallsInv, TransportInv, TypeOK
  <2>5. lock = h \/ (verdict[h] = "mismatch" /\ noise > 0)
    <3>1. pc[h] = "reading" => lock = h
      BY <2>3 DEF TransportInv, LockInv, Inside
    <3>2. QED
      BY <2>4, <3>1 DEF PipeInv
  <2>6. h \in Calls => effects[h] < 1
    BY <2>3, <2>4 DEF TransportInv, CallInv
  <2>7. effects[h] < MaxRestarts + 1
    <3>1. effects[h] <= MaxRestarts + 1 - tries[h] /\ tries[h] >= 1
      BY <2>4 DEF PipeInv, Sends
    <3>2. QED
      BY <2>4, <3>1, BoundsAssumption
  <2>8. Remote!CarryOut(h)
    BY <2>1, <2>5, <2>6, <2>7 DEF Remote!CarryOut
  <2>9. QED
    BY <2>3, <2>8 DEF Remote!Next
<1>8. CASE PrintNoise
  <2>1. UNCHANGED <<lock, verdict, effects>> /\ noise' = noise + 1
    BY <1>8 DEF PrintNoise, client
  <2>2. (noise' > 0) = TRUE
    BY <2>1, BoundsAssumption DEF TransportInv, TypeOK
  <2>3. Remote!Stray
    BY <2>1, <2>2 DEF Remote!Stray
  <2>4. QED
    BY <2>3 DEF Remote!Next
<1>9. CASE Reply \/ Die
  BY <1>9 DEF Reply, Die, client, Remote!vars
<1>10. CASE UNCHANGED vars
  BY <1>10 DEF vars, client, server, Remote!vars
<1>11. QED
  BY <1>1, <1>2, <1>3, <1>4, <1>5, <1>6, <1>7, <1>8, <1>9, <1>10 DEF Next, Rpc

\* The transport implements the remote call, for any requests, deaths, restarts
\* and stray lines: requests are carried out in turn, a tool call once at most,
\* and no verdict but a mismatch with a stray line leaves one to be carried out.
THEOREM TransportIsRemoteCall == Spec => ImplementsRemoteCall
<1>1. Init => Remote!Init
  <2>1. ASSUME Init PROVE (noise > 0) = FALSE
    BY <2>1 DEF Init
  <2>2. QED
    BY <2>1 DEF Init, Remote!Init
<1>2. TransportInv /\ CallsInv /\ [Next]_vars => [Remote!Next]_(Remote!vars)
  BY StepIsRemote
<1>3. QED
  BY CallsInit, TransportInvariant, CallsStep, <1>1, <1>2, PTL
  DEF Spec, ImplementsRemoteCall, Remote!Spec
=============================================================================
