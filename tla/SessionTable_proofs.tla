-------------------------- MODULE SessionTable_proofs --------------------------
(***************************************************************************)
(* Proofs about the table of sessions, for any sessions, principals, plans *)
(* and workers, any size of the table, with and without a store.           *)
(***************************************************************************)
EXTENDS SessionTable, SequenceTheorems, TLAPS

Serving == {"restore", "adding", "evicting", "receive", "record"}
Carrying == {"adding", "evicting", "receive", "record", "told"}
Inserting == {"adding", "evicting"}
Ending == {"popping", "removing"}

\* An id is in the table at one place.
OnceInv == \A i, j \in DOMAIN table : table[i] = table[j] => i = j

\* What table, owners and store say of one session agrees, although each of
\* them may have lost it.
AgreeInv ==
  \A s \in Ids :
    /\ channels[s] # None => owners[s] = channels[s].by
    /\ data[s] # None /\ owners[s] # None => owners[s] = data[s].by
    /\ Stored /\ acked[s] # None /\ channels[s] # None => channels[s] = acked[s]
    /\ ~Stored => data[s] = None /\ disk[s] = None

\* A session being opened is known to the worker that opens it only.
OpenInv ==
  \A v, w \in Workers :
    v # w /\ Busy(v) /\ Busy(w) /\ work[v].kind = "open" => work[v].id # work[w].id

\* The locks that worker w has.
LockPart(w) ==
  Busy(w) =>
    /\ work[w].kind = "open" => work[w].pc \in Inserting
    /\ work[w].kind # "open" /\ work[w].pc # "locking" => locks[work[w].id] = w
    /\ work[w].pc = "evicting" =>
         mutex = w /\ work[w].victim \in Ids /\ channels[work[w].victim] = None

\* Whom worker w serves: what it has looked up may be gone by now, and is not
\* replaced by another principal's.
OwnerPart(w) ==
  work[w] # None =>
    /\ work[w].pc \in Serving =>
         /\ owners[work[w].id] \in {None, work[w].by}
         /\ data[work[w].id] # None => data[work[w].id].by = work[w].by
    /\ work[w].pc \in Ending /\ data[work[w].id] # None =>
         data[work[w].id].by = work[w].by
    /\ work[w].pc \in Carrying =>
         work[w].channel # None /\ work[w].channel.by = work[w].by
    /\ work[w].pc \in {"owner", "telling"} =>
         work[w].channel # None /\ owners[work[w].id] \in {None, work[w].channel.by}

\* The plan worker w has in hand: an acknowledged one, or one for a session
\* without; and what its request is, where only one kind comes.
PlanPart(w) ==
  work[w] # None =>
    /\ work[w].pc \in {"owner", "receive", "record"} =>
         channels[work[w].id] \in {None, work[w].channel}
    /\ work[w].pc \in {"owner", "adding", "evicting", "receive", "telling"}
         /\ Stored /\ acked[work[w].id] # None =>
         work[w].channel = acked[work[w].id]
    /\ work[w].pc = "record" =>
         /\ Stored /\ acked[work[w].id] = None /\ work[w].channel.plan \in Plans
         /\ work[w].kind = "prompt"
    /\ work[w].pc = "removing" => Stored
    /\ work[w].pc \in Ending => work[w].kind = "delete"
    /\ work[w].pc \in {"peek", "telling"} => work[w].kind = "status"

WorkerInv(w) == LockPart(w) /\ OwnerPart(w) /\ PlanPart(w)

SessionInv ==
  /\ TypeOK /\ OnceInv /\ AgreeInv /\ AckedIsDurable /\ OpenInv
  /\ \A w \in Workers : WorkerInv(w)

-----------------------------------------------------------------------------
(***************************************************************************)
(* The table as a sequence.                                                *)
(***************************************************************************)

LEMMA HeadLeaves ==
  ASSUME NEW q \in Seq(Ids), q # <<>>, \A i, j \in DOMAIN q : q[i] = q[j] => i = j
  PROVE  /\ Tail(q) \in Seq(Ids) /\ Len(Tail(q)) = Len(q) - 1 /\ Head(q) \in Ids
         /\ \A i, j \in DOMAIN Tail(q) : Tail(q)[i] = Tail(q)[j] => i = j
         /\ ToSet(Tail(q)) = ToSet(q) \ {Head(q)}
<1>1. /\ Tail(q) \in Seq(Ids) /\ Len(Tail(q)) = Len(q) - 1 /\ Head(q) = q[1]
      /\ Len(q) \in Nat \ {0} /\ DOMAIN q = 1 .. Len(q)
      /\ DOMAIN Tail(q) = 1 .. (Len(q) - 1)
      /\ \A i \in 1 .. (Len(q) - 1) : Tail(q)[i] = q[i + 1]
  OBVIOUS
<1>2. q[1] \in Ids
  BY <1>1
<1>3. \A i, j \in DOMAIN Tail(q) : Tail(q)[i] = Tail(q)[j] => i = j
  BY <1>1
<1>4. ToSet(Tail(q)) = {q[i] : i \in 2 .. Len(q)}
  <2> DEFINE t == Tail(q)
  <2>1. ASSUME NEW i \in 2 .. Len(q)
        PROVE  \E k \in DOMAIN t : t[k] = q[i]
    <3>1. i - 1 \in 1 .. (Len(q) - 1) /\ (i - 1) + 1 = i
      BY <1>1
    <3>2. QED
      BY <1>1, <3>1
  <2>2. ASSUME NEW k \in DOMAIN t
        PROVE  \E i \in 2 .. Len(q) : t[k] = q[i]
    <3>1. k + 1 \in 2 .. Len(q)
      BY <1>1
    <3>2. QED
      BY <1>1, <3>1
  <2> HIDE DEF t
  <2>3. ToSet(t) = {q[i] : i \in 2 .. Len(q)}
    BY <2>1, <2>2 DEF ToSet
  <2>4. QED
    BY <2>3 DEF t
<1>5. ToSet(q) \ {q[1]} = {q[i] : i \in 2 .. Len(q)}
  BY <1>1 DEF ToSet
<1>6. QED
  BY <1>1, <1>2, <1>3, <1>4, <1>5

LEMMA LastComes ==
  ASSUME NEW q \in Seq(Ids), NEW s \in Ids, s \notin ToSet(q),
         \A i, j \in DOMAIN q : q[i] = q[j] => i = j
  PROVE  /\ Append(q, s) \in Seq(Ids) /\ Len(Append(q, s)) = Len(q) + 1
         /\ \A i, j \in DOMAIN Append(q, s) : Append(q, s)[i] = Append(q, s)[j] => i = j
         /\ ToSet(Append(q, s)) = ToSet(q) \cup {s}
<1>1. /\ Append(q, s) \in Seq(Ids) /\ Len(Append(q, s)) = Len(q) + 1
      /\ Len(q) \in Nat /\ DOMAIN q = 1 .. Len(q)
      /\ DOMAIN Append(q, s) = 1 .. (Len(q) + 1)
      /\ \A i \in 1 .. Len(q) : Append(q, s)[i] = q[i]
      /\ Append(q, s)[Len(q) + 1] = s
  OBVIOUS
<1>2. \A i \in 1 .. Len(q) : q[i] # s
  BY <1>1 DEF ToSet
<1>3. \A i, j \in DOMAIN Append(q, s) : Append(q, s)[i] = Append(q, s)[j] => i = j
  BY <1>1, <1>2
<1>4. ToSet(Append(q, s)) = ToSet(q) \cup {s}
  BY <1>1 DEF ToSet
<1>5. QED
  BY <1>1, <1>3, <1>4

LEMMA OneLeaves ==
  ASSUME NEW q \in Seq(Ids), NEW n \in DOMAIN q,
         \A i, j \in DOMAIN q : q[i] = q[j] => i = j
  PROVE  /\ RemoveAt(q, n) \in Seq(Ids) /\ Len(RemoveAt(q, n)) = Len(q) - 1
         /\ \A i, j \in DOMAIN RemoveAt(q, n) :
              RemoveAt(q, n)[i] = RemoveAt(q, n)[j] => i = j
         /\ ToSet(RemoveAt(q, n)) = ToSet(q) \ {q[n]}
<1> DEFINE r == RemoveAt(q, n)
<1>1. Len(q) \in Nat /\ DOMAIN q = 1 .. Len(q) /\ n \in 1 .. Len(q)
  OBVIOUS
<1>2. /\ r \in Seq(Ids) /\ Len(r) = Len(q) - 1 /\ DOMAIN r = 1 .. (Len(q) - 1)
      /\ \A i \in 1 .. (Len(q) - 1) : r[i] = IF i < n THEN q[i] ELSE q[i + 1]
  <2> DEFINE a == SubSeq(q, 1, n - 1)
             b == SubSeq(q, n + 1, Len(q))
  <2>1. a \in Seq(Ids) /\ Len(a) = n - 1 /\ \A i \in 1 .. (n - 1) : a[i] = q[i]
    <3>1. /\ a \in Seq(Ids) /\ Len(a) = (IF 1 <= n - 1 THEN (n - 1) - 1 + 1 ELSE 0)
          /\ \A i \in 1 .. ((n - 1) - 1 + 1) : a[i] = q[1 + i - 1]
      BY <1>1, SubSeqProperties
    <3>2. QED
      BY <1>1, <3>1
  <2>2. b \in Seq(Ids) /\ Len(b) = Len(q) - n
        /\ \A i \in 1 .. (Len(q) - n) : b[i] = q[n + i]
    <3>1. /\ b \in Seq(Ids)
          /\ Len(b) = (IF n + 1 <= Len(q) THEN Len(q) - (n + 1) + 1 ELSE 0)
          /\ \A i \in 1 .. (Len(q) - (n + 1) + 1) : b[i] = q[(n + 1) + i - 1]
      <4>1. \A i \in (n + 1) .. Len(q) : q[i] \in Ids
        BY <1>1
      <4>2. n + 1 \in Int /\ Len(q) \in Int
        BY <1>1
      <4>3. QED
        BY <4>1, <4>2, SubSeqProperties
    <3>2. Len(b) = Len(q) - n
      BY <1>1, <3>1
    <3>3. ASSUME NEW i \in 1 .. (Len(q) - n)
          PROVE  b[i] = q[n + i]
      <4>1. i \in 1 .. (Len(q) - (n + 1) + 1) /\ (n + 1) + i - 1 = n + i
        BY <1>1
      <4>2. QED
        BY <3>1, <4>1
    <3>4. QED
      BY <3>1, <3>2, <3>3
  <2>3. r = a \o b
    BY DEF RemoveAt
  <2> HIDE DEF a, b, r
  <2>4. /\ r \in Seq(Ids) /\ Len(r) = Len(a) + Len(b)
        /\ \A i \in 1 .. (Len(a) + Len(b)) :
             r[i] = IF i <= Len(a) THEN a[i] ELSE b[i - Len(a)]
    <3>1. a \in Seq(Ids) /\ b \in Seq(Ids)
      BY <2>1, <2>2
    <3>2. /\ a \o b \in Seq(Ids) /\ Len(a \o b) = Len(a) + Len(b)
          /\ \A i \in 1 .. (Len(a) + Len(b)) :
               (a \o b)[i] = IF i <= Len(a) THEN a[i] ELSE b[i - Len(a)]
      BY <3>1, ConcatProperties
    <3>3. QED
      BY <2>3, <3>2
  <2>5. Len(r) = Len(q) - 1 /\ DOMAIN r = 1 .. (Len(q) - 1)
    BY <1>1, <2>1, <2>2, <2>4
  <2>6. ASSUME NEW i \in 1 .. (Len(q) - 1)
        PROVE  r[i] = IF i < n THEN q[i] ELSE q[i + 1]
    <3>1. CASE i < n
      BY <1>1, <2>1, <2>2, <2>4, <3>1
    <3>2. CASE ~(i < n)
      <4>1. i - (n - 1) \in 1 .. (Len(q) - n) /\ n + (i - (n - 1)) = i + 1
        BY <1>1, <3>2
      <4>2. r[i] = b[i - (n - 1)]
        BY <1>1, <2>1, <2>2, <2>4, <3>2
      <4>3. QED
        BY <2>2, <3>2, <4>1, <4>2
    <3>3. QED
      BY <3>1, <3>2
  <2>7. QED
    BY <2>4, <2>5, <2>6
<1> HIDE DEF r
<1>3. \A i, j \in DOMAIN r : r[i] = r[j] => i = j
  <2> DEFINE place(i) == IF i < n THEN i ELSE i + 1
  <2>1. \A i \in DOMAIN r : place(i) \in DOMAIN q /\ r[i] = q[place(i)]
    BY <1>1, <1>2
  <2>2. \A i, j \in DOMAIN r : place(i) = place(j) => i = j
    BY <1>1, <1>2
  <2> HIDE DEF place
  <2>3. QED
    BY <2>1, <2>2
<1>4. ToSet(r) = ToSet(q) \ {q[n]}
  <2>1. ASSUME NEW i \in 1 .. Len(q), i # n
        PROVE  \E k \in DOMAIN r : r[k] = q[i]
    <3>1. CASE i < n
      BY <1>1, <1>2, <3>1
    <3>2. CASE i > n
      <4>1. i - 1 \in 1 .. (Len(q) - 1) /\ ~(i - 1 < n) /\ (i - 1) + 1 = i
        BY <1>1, <3>2
      <4>2. QED
        BY <1>2, <4>1
    <3>3. QED
      BY <1>1, <2>1, <3>1, <3>2
  <2>2. ASSUME NEW k \in DOMAIN r
        PROVE  \E i \in 1 .. Len(q) : i # n /\ r[k] = q[i]
    <3>1. CASE k < n
      BY <1>1, <1>2, <3>1
    <3>2. CASE ~(k < n)
      <4>1. k + 1 \in 1 .. Len(q) /\ k + 1 # n
        BY <1>1, <1>2, <3>2
      <4>2. QED
        BY <1>2, <3>2, <4>1
    <3>3. QED
      BY <3>1, <3>2
  <2>3. QED
    BY <1>1, <2>1, <2>2 DEF ToSet
<1>5. QED
  BY <1>2, <1>3, <1>4 DEF r

\* What Drop does to the table.
LEMMA DropFacts ==
  ASSUME TypeOK, OnceInv, NEW s \in Ids, Drop(s)
  PROVE  /\ table' \in Seq(Ids) /\ Len(table') <= MaxSessions /\ OnceInv'
         /\ channels' \in [Ids -> Channel \cup {None}]
         /\ owners' \in [Ids -> Principals \cup {None}]
         /\ \A t \in Ids : channels'[t] # None <=> t \in ToSet(table')
         /\ \A t \in Ids : channels'[t] = IF t = s THEN None ELSE channels[t]
         /\ \A t \in Ids : owners'[t] = IF t = s THEN None ELSE owners[t]
<1>1. /\ channels' \in [Ids -> Channel \cup {None}]
      /\ owners' \in [Ids -> Principals \cup {None}]
      /\ \A t \in Ids : channels'[t] = IF t = s THEN None ELSE channels[t]
      /\ \A t \in Ids : owners'[t] = IF t = s THEN None ELSE owners[t]
  BY DEF Drop, TypeOK
<1>2. CASE channels[s] = None
  <2>1. table' = table
    BY <1>2 DEF Drop, Without
  <2>2. QED
    BY <1>1, <1>2, <2>1 DEF TypeOK, OnceInv
<1>3. CASE channels[s] # None
  <2>1. PICK n \in DOMAIN table : table[n] = s /\ table' = RemoveAt(table, n)
    <3>1. \E i \in DOMAIN table : table[i] = s
      BY <1>3 DEF TypeOK, ToSet
    <3>2. QED
      BY <1>3, <3>1 DEF Drop, Without
  <2>2. /\ table' \in Seq(Ids) /\ Len(table') = Len(table) - 1
        /\ \A i, j \in DOMAIN table' : table'[i] = table'[j] => i = j
        /\ ToSet(table') = ToSet(table) \ {s}
    BY <2>1, OneLeaves DEF TypeOK, OnceInv
  <2>3. Len(table') <= MaxSessions
    BY <2>2, BoundsAssumption DEF TypeOK
  <2>4. QED
    BY <1>1, <2>2, <2>3 DEF TypeOK, OnceInv
<1>4. QED
  BY <1>2, <1>3

-----------------------------------------------------------------------------
(***************************************************************************)
(* Initially nothing is held.                                              *)
(***************************************************************************)

LEMMA SessionInit == Init => SessionInv
<1> SUFFICES ASSUME Init PROVE SessionInv
  OBVIOUS
<1>1. table = <<>> /\ DOMAIN table = {} /\ ToSet(table) = {} /\ Len(table) = 0
  BY DEF Init, ToSet
<1>2. TypeOK
  BY <1>1, BoundsAssumption DEF Init, TypeOK, Nothing
<1>3. OnceInv
  BY <1>1 DEF OnceInv
<1>4. AgreeInv /\ AckedIsDurable
  BY DEF Init, AgreeInv, AckedIsDurable, Nothing
<1>5. OpenInv /\ \A w \in Workers : WorkerInv(w)
  BY DEF Init, OpenInv, WorkerInv, LockPart, OwnerPart, PlanPart, Busy
<1>6. QED
  BY <1>2, <1>3, <1>4, <1>5 DEF SessionInv

-----------------------------------------------------------------------------
(***************************************************************************)
(* What a step of one worker leaves alone.                                 *)
(***************************************************************************)

Past(w) == Busy(w) /\ work[w].pc # "locking"

\* Two workers past the lock are not at the same session.
LEMMA Alone ==
  ASSUME SessionInv, NEW v \in Workers, NEW w \in Workers, v # w, Past(v), Past(w)
  PROVE  work[v].id # work[w].id
<1>1. LockPart(v) /\ LockPart(w)
  BY DEF SessionInv, WorkerInv
<1>2. CASE work[v].kind = "open" \/ work[w].kind = "open"
  BY <1>2 DEF SessionInv, OpenInv, Past
<1>3. CASE work[v].kind # "open" /\ work[w].kind # "open"
  BY <1>1, <1>3 DEF LockPart, Past
<1>4. QED
  BY <1>2, <1>3

\* A step of w leaves every other worker its invariant, if it does nothing to
\* the sessions these are at but evict them.
OnlyEvicts(s) ==
  /\ channels'[s] \in {None, channels[s]} /\ owners'[s] \in {None, owners[s]}
  /\ data'[s] = data[s] /\ acked'[s] = acked[s]

LEMMA OthersStay ==
  ASSUME SessionInv, NEW w \in Workers,
         \A v \in Workers \ {w} : work'[v] = work[v],
         \A v \in Workers \ {w} : \A s \in Ids : locks[s] = v => locks'[s] = v,
         \A v \in Workers \ {w} : Past(v) => OnlyEvicts(work[v].id),
         \A v \in Workers \ {w} : At(v, "evicting") =>
           mutex' = v /\ \A s \in Ids : channels[s] = None => channels'[s] = None
  PROVE  \A v \in Workers \ {w} : WorkerInv(v)'
<1> SUFFICES ASSUME NEW v \in Workers \ {w} PROVE WorkerInv(v)'
  OBVIOUS
<1>1. WorkerInv(v)
  BY DEF SessionInv
<1>2. CASE work[v] = None
  BY <1>2 DEF WorkerInv, LockPart, OwnerPart, PlanPart, Busy
<1>3. CASE work[v] # None
  <2>1. work[v].id \in Ids /\ work[v] \in Work
    BY <1>3 DEF SessionInv, TypeOK, Work
  <2>2. LockPart(v)'
    BY <1>1, <1>3, <2>1 DEF WorkerInv, LockPart, Busy, At
  <2>3. OwnerPart(v)'
    <3>1. CASE Past(v)
      BY <1>1, <1>3, <2>1, <3>1 DEF WorkerInv, OwnerPart, OnlyEvicts
    <3>2. CASE ~Past(v)
      BY <1>1, <1>3, <2>1, <3>2
      DEF WorkerInv, OwnerPart, Past, Busy, Pc, Serving, Carrying, Ending
    <3>3. QED
      BY <3>1, <3>2
  <2>4. PlanPart(v)'
    <3>1. CASE Past(v)
      BY <1>1, <1>3, <2>1, <3>1 DEF WorkerInv, PlanPart, OnlyEvicts
    <3>2. CASE ~Past(v)
      BY <1>1, <1>3, <2>1, <3>2 DEF WorkerInv, PlanPart, Past, Busy, Pc
    <3>3. QED
      BY <3>1, <3>2
  <2>5. QED
    BY <2>2, <2>3, <2>4 DEF WorkerInv
<1>4. QED
  BY <1>2, <1>3

\* Where a step takes a worker.
LEMMA Moved ==
  ASSUME TypeOK, NEW w \in Workers, work[w] # None, NEW pc \in Pc \cup Replies,
         Goto(w, pc)
  PROVE  /\ work' \in [Workers -> Work \cup {None}]
         /\ work'[w] # None /\ work'[w].pc = pc
         /\ work'[w].kind = work[w].kind /\ work'[w].id = work[w].id
         /\ work'[w].by = work[w].by /\ work'[w].victim = work[w].victim
         /\ work'[w].channel = work[w].channel
         /\ \A v \in Workers \ {w} : work'[v] = work[v]
<1>1. work[w] \in Work /\ work[w].id \in Ids
  BY DEF TypeOK, Work
<1>2. [work[w] EXCEPT !.pc = pc] \in Work
  BY <1>1 DEF Work
<1>3. work' = [work EXCEPT ![w] = [work[w] EXCEPT !.pc = pc]]
  BY DEF Goto
<1>4. work'[w] = [work[w] EXCEPT !.pc = pc] /\ work'[w] # None
  BY <1>2, <1>3, NoneAssumption DEF TypeOK
<1>5. QED
  BY <1>1, <1>2, <1>3, <1>4 DEF TypeOK, Work

\* A worker that answers leaves its lock, and nothing else.
LEMMA Answered ==
  ASSUME TypeOK, NEW w \in Workers, work[w] # None, NEW reply \in Replies,
         Answer(w, reply)
  PROVE  /\ work' \in [Workers -> Work \cup {None}]
         /\ work'[w] # None /\ work'[w].pc = reply
         /\ work'[w].kind = work[w].kind /\ work'[w].id = work[w].id
         /\ work'[w].by = work[w].by /\ work'[w].channel = work[w].channel
         /\ \A v \in Workers \ {w} : work'[v] = work[v]
         /\ locks' \in [Ids -> Workers \cup {None}]
         /\ \A v \in Workers \ {w} : \A s \in Ids : locks[s] = v => locks'[s] = v
         /\ ~Busy(w)' /\ LockPart(w)' /\ PlanPart(w)'
         /\ (reply # "told" => OwnerPart(w)')
<1>1. Goto(w, reply) /\ locks' = [s \in Ids |-> IF locks[s] = w THEN None ELSE locks[s]]
  BY DEF Answer
<1>2. /\ work' \in [Workers -> Work \cup {None}]
      /\ work'[w] # None /\ work'[w].pc = reply
      /\ work'[w].kind = work[w].kind /\ work'[w].id = work[w].id
      /\ work'[w].by = work[w].by /\ work'[w].channel = work[w].channel
      /\ \A v \in Workers \ {w} : work'[v] = work[v]
  BY <1>1, Moved
<1>3. reply \notin Pc
  BY DEF Replies, Pc
<1>4. ~Busy(w)' /\ LockPart(w)'
  BY <1>2, <1>3 DEF Busy, LockPart
<1>5. PlanPart(w)' /\ (reply # "told" => OwnerPart(w)')
  BY <1>2 DEF PlanPart, OwnerPart, Replies, Serving, Carrying, Ending
<1>6. /\ locks' \in [Ids -> Workers \cup {None}]
      /\ \A v \in Workers \ {w} : \A s \in Ids : locks[s] = v => locks'[s] = v
  BY <1>1 DEF TypeOK
<1>7. QED
  BY <1>2, <1>4, <1>5, <1>6

\* The sessions being opened stay apart while nobody takes another one.
LEMMA OpenStays ==
  ASSUME SessionInv, NEW w \in Workers,
         \A v \in Workers \ {w} : work'[v] = work[v],
         Busy(w)' => Busy(w) /\ work'[w].id = work[w].id /\ work'[w].kind = work[w].kind
  PROVE  OpenInv'
<1>1. \A v \in Workers : Busy(v)' =>
        Busy(v) /\ work'[v].id = work[v].id /\ work'[v].kind = work[v].kind
  BY DEF Busy
<1>2. QED
  BY <1>1 DEF SessionInv, OpenInv

\* A step that looks and decides.
LEMMA QuietStep ==
  ASSUME SessionInv, NEW w \in Workers,
         UNCHANGED <<memory, store, mutex, acked, bounds>>,
         work' \in [Workers -> Work \cup {None}],
         locks' \in [Ids -> Workers \cup {None}],
         \A v \in Workers \ {w} : work'[v] = work[v],
         \A v \in Workers \ {w} : \A s \in Ids : locks[s] = v => locks'[s] = v,
         Busy(w)' => Busy(w) /\ work'[w].id = work[w].id /\ work'[w].kind = work[w].kind,
         WorkerInv(w)'
  PROVE  SessionInv'
<1>1. TypeOK'
  BY DEF SessionInv, TypeOK, memory, store, bounds
<1>2. OnceInv' /\ AgreeInv' /\ AckedIsDurable'
  BY DEF SessionInv, OnceInv, AgreeInv, AckedIsDurable, memory, store
<1>3. OpenInv'
  BY OpenStays
<1>4. \A v \in Workers \ {w} : WorkerInv(v)'
  <2>1. \A v \in Workers \ {w} : Past(v) => OnlyEvicts(work[v].id)
    BY DEF OnlyEvicts, memory, store
  <2>2. \A v \in Workers \ {w} : At(v, "evicting") =>
          mutex' = v /\ \A s \in Ids : channels[s] = None => channels'[s] = None
    BY DEF SessionInv, WorkerInv, LockPart, At, Busy, Pc, memory
  <2>3. QED
    BY <2>1, <2>2, OthersStay
<1>5. QED
  BY <1>1, <1>2, <1>3, <1>4 DEF SessionInv

LEMMA LockTaken ==
  ASSUME SessionInv, NEW w \in Workers, TakeLock(w)
  PROVE  SessionInv'
<1>1. TypeOK /\ WorkerInv(w) /\ work[w] # None /\ work[w] \in Work
  BY DEF SessionInv, TakeLock, At, TypeOK
<1>2. work[w].pc = "locking" /\ work[w].kind # "open" /\ work[w].id \in Ids
  BY <1>1 DEF TakeLock, At, WorkerInv, LockPart, Busy, Pc, Inserting, Work
<1>3. PICK pc \in {"whose", "peek", "lookup"} :
        Goto(w, pc) /\ (pc = "peek" => work[w].kind = "status")
  BY <1>2 DEF TakeLock
<1>4. /\ work' \in [Workers -> Work \cup {None}] /\ work'[w] # None /\ work'[w].pc = pc
      /\ work'[w].kind = work[w].kind /\ work'[w].id = work[w].id
      /\ \A v \in Workers \ {w} : work'[v] = work[v]
  BY <1>1, <1>3, Moved DEF Pc
<1>5. /\ locks' \in [Ids -> Workers \cup {None}] /\ locks'[work[w].id] = w
      /\ \A v \in Workers \ {w} : \A s \in Ids : locks[s] = v => locks'[s] = v
  BY <1>1, <1>2, NoneAssumption DEF TakeLock, TypeOK
<1>6. WorkerInv(w)'
  <2>1. LockPart(w)'
    BY <1>2, <1>4, <1>5 DEF LockPart
  <2>2. OwnerPart(w)'
    BY <1>4 DEF OwnerPart, Serving, Carrying, Ending
  <2>3. PlanPart(w)'
    BY <1>3, <1>4 DEF PlanPart, Ending
  <2>4. QED
    BY <2>1, <2>2, <2>3 DEF WorkerInv
<1>7. QED
  BY <1>1, <1>2, <1>4, <1>5, <1>6, QuietStep DEF TakeLock, Busy, Pc

\* What holds of a worker at work that is past the lock.
LEMMA AtFacts ==
  ASSUME SessionInv, NEW w \in Workers, NEW pc \in Pc, At(w, pc)
  PROVE  /\ TypeOK /\ LockPart(w) /\ OwnerPart(w) /\ PlanPart(w)
         /\ work[w] # None /\ work[w] \in Work /\ work[w].pc = pc /\ Busy(w)
         /\ work[w].id \in Ids /\ work[w].by \in Principals
         /\ work[w].channel \in Channel \cup {None}
         /\ (pc # "locking" => Past(w))
         /\ (pc \notin Inserting => work[w].kind # "open")
         /\ (pc \notin Inserting \cup {"locking"} => locks[work[w].id] = w)
BY DEF SessionInv, TypeOK, WorkerInv, At, Busy, Past, Work, LockPart

\* A worker that refuses leaves everything as it was.
LEMMA Refused ==
  ASSUME SessionInv, NEW w \in Workers, work[w] # None,
         UNCHANGED <<memory, store, mutex, acked, bounds>>,
         NEW reply \in Replies \ {"told"}, Answer(w, reply)
  PROVE  SessionInv'
<1>1. TypeOK
  BY DEF SessionInv
<1>2. WorkerInv(w)' /\ ~Busy(w)'
  BY <1>1, Answered DEF WorkerInv
<1>3. QED
  BY <1>1, <1>2, Answered, QuietStep

\* A worker that goes on to pc, keeping its lock.
LEMMA GoesOn ==
  ASSUME SessionInv, NEW w \in Workers, Past(w), work[w].kind # "open",
         UNCHANGED <<memory, store, mutex, acked, bounds, locks>>,
         NEW pc \in Pc \ {"locking", "evicting"}, Goto(w, pc),
         OwnerPart(w)', PlanPart(w)'
  PROVE  SessionInv'
<1>1. TypeOK /\ LockPart(w) /\ work[w] # None
  BY DEF SessionInv, WorkerInv, Past, Busy
<1>2. /\ work' \in [Workers -> Work \cup {None}] /\ work'[w] # None /\ work'[w].pc = pc
      /\ work'[w].kind = work[w].kind /\ work'[w].id = work[w].id
      /\ \A v \in Workers \ {w} : work'[v] = work[v]
  BY <1>1, Moved
<1>3. LockPart(w)'
  BY <1>1, <1>2 DEF LockPart, Past
<1>4. QED
  BY <1>1, <1>2, <1>3, QuietStep DEF WorkerInv, TypeOK, Past

\* Where a step takes a worker with a channel it has found or made.
Takes(w, pc, c) ==
  work' = [work EXCEPT ![w] = [work[w] EXCEPT !.pc = pc, !.channel = c]]

LEMMA Carried ==
  ASSUME TypeOK, NEW w \in Workers, work[w] # None,
         NEW pc \in Pc \cup Replies, NEW c \in Channel \cup {None}, Takes(w, pc, c)
  PROVE  /\ work' \in [Workers -> Work \cup {None}]
         /\ work'[w] # None /\ work'[w].pc = pc /\ work'[w].channel = c
         /\ work'[w].kind = work[w].kind /\ work'[w].id = work[w].id
         /\ work'[w].by = work[w].by
         /\ \A v \in Workers \ {w} : work'[v] = work[v]
<1> DEFINE r == [work[w] EXCEPT !.pc = pc, !.channel = c]
<1>1. work[w] \in Work
  BY DEF TypeOK
<1>2. r \in Work /\ r # None
  <2>1. r \in Work
    BY <1>1 DEF Work
  <2>2. QED
    BY <2>1, NoneAssumption
<1>3. /\ r.pc = pc /\ r.channel = c /\ r.kind = work[w].kind /\ r.id = work[w].id
      /\ r.by = work[w].by
  BY <1>1 DEF Work
<1>4. work' = [work EXCEPT ![w] = r]
  BY DEF Takes
<1> HIDE DEF r
<1>5. work'[w] = r /\ \A v \in Workers \ {w} : work'[v] = work[v]
  BY <1>4 DEF TypeOK
<1>6. work' \in [Workers -> Work \cup {None}]
  BY <1>2, <1>4 DEF TypeOK
<1>7. QED
  BY <1>2, <1>3, <1>5, <1>6

-----------------------------------------------------------------------------
(***************************************************************************)
(* Looking a session up.                                                   *)
(***************************************************************************)

LEMMA LookedUp ==
  ASSUME SessionInv, NEW w \in Workers, Lookup(w)
  PROVE  SessionInv'
<1>1. At(w, "lookup") /\ UNCHANGED <<memory, store, locks, mutex, acked, bounds>>
  BY DEF Lookup
<1>2. /\ TypeOK /\ LockPart(w) /\ work[w] # None /\ work[w].id \in Ids /\ Past(w)
      /\ work[w].kind # "open"
  BY <1>1, AtFacts DEF Pc, Inserting
<1>3. PICK c \in Channel \cup {None}, pc \in {"whose", "owner"} :
        /\ c = channels[work[w].id] /\ (pc = "owner" => c # None)
        /\ work' = [work EXCEPT ![w].channel = c, ![w].pc = pc]
  BY <1>2 DEF TypeOK, Lookup
<1>5. /\ work' \in [Workers -> Work \cup {None}]
      /\ work'[w] # None /\ work'[w].pc = pc /\ work'[w].channel = c
      /\ work'[w].kind = work[w].kind /\ work'[w].id = work[w].id
      /\ work'[w].by = work[w].by
      /\ \A v \in Workers \ {w} : work'[v] = work[v]
  <2>1. pc \in Pc \cup Replies
    BY <1>3 DEF Pc
  <2>2. Takes(w, pc, c)
    BY <1>2, <1>3 DEF Takes, TypeOK, Work
  <2>3. QED
    BY <1>2, <2>1, <2>2, Carried
<1>6. LockPart(w)'
  BY <1>1, <1>2, <1>3, <1>5 DEF LockPart, Past, Busy
<1>7. pc = "owner" =>
        /\ c # None /\ owners[work[w].id] = c.by
        /\ Stored /\ acked[work[w].id] # None => c = acked[work[w].id]
  BY <1>2, <1>3 DEF SessionInv, AgreeInv
<1>8. OwnerPart(w)' /\ PlanPart(w)'
  BY <1>1, <1>3, <1>5, <1>7
  DEF OwnerPart, PlanPart, Serving, Carrying, Ending, memory, store
<1>9. QED
  BY <1>1, <1>2, <1>5, <1>6, <1>8, QuietStep DEF WorkerInv, TypeOK, Past

LEMMA OwnerChecked ==
  ASSUME SessionInv, NEW w \in Workers, CheckOwner(w)
  PROVE  SessionInv'
<1>1. At(w, "owner") /\ UNCHANGED <<memory, store, mutex, acked, bounds>>
  BY DEF CheckOwner
<1>2. /\ TypeOK /\ OwnerPart(w) /\ PlanPart(w) /\ work[w] # None /\ work[w].id \in Ids
      /\ Past(w) /\ work[w].kind # "open" /\ work[w].pc = "owner"
      /\ work[w].by \in Principals
  BY <1>1, AtFacts DEF Pc, Inserting
<1>3. CASE owners[work[w].id] = work[w].by
  <2>1. Goto(w, "receive") /\ UNCHANGED locks
    BY <1>3 DEF CheckOwner
  <2>2. /\ work'[w] # None /\ work'[w].pc = "receive" /\ work'[w].id = work[w].id
        /\ work'[w].by = work[w].by /\ work'[w].channel = work[w].channel
    BY <1>2, <2>1, Moved DEF Pc
  <2>3. work[w].channel # None /\ work[w].channel.by = work[w].by
    BY <1>2, <1>3, NoneAssumption DEF OwnerPart
  <2>4. data[work[w].id] # None => data[work[w].id].by = work[w].by
    BY <1>2, <1>3, NoneAssumption DEF SessionInv, AgreeInv
  <2>5. OwnerPart(w)'
    BY <1>1, <1>3, <2>2, <2>3, <2>4 DEF OwnerPart, Serving, Carrying, Ending, memory, store
  <2>6. PlanPart(w)'
    BY <1>1, <1>2, <2>2 DEF PlanPart, Ending, memory, store
  <2>7. QED
    BY <1>1, <1>2, <2>1, <2>5, <2>6, GoesOn DEF Pc
<1>4. CASE owners[work[w].id] # work[w].by
  BY <1>1, <1>2, <1>4, Refused DEF CheckOwner, Replies
<1>5. QED
  BY <1>3, <1>4

LEMMA Peeked ==
  ASSUME SessionInv, NEW w \in Workers, Peek(w)
  PROVE  SessionInv'
<1>1. At(w, "peek") /\ UNCHANGED <<memory, store, mutex, acked, bounds>>
  BY DEF Peek
<1>2. /\ TypeOK /\ LockPart(w) /\ work[w] # None /\ work[w].id \in Ids /\ Past(w)
      /\ work[w].kind # "open"
  BY <1>1, AtFacts DEF Pc, Inserting
<1> PICK c \in Channel \cup {None} : c = channels[work[w].id]
  BY <1>2 DEF TypeOK
<1>3. CASE c = None
  BY <1>1, <1>2, <1>3, Refused DEF Peek, Replies
<1>4. CASE c # None
  <2>1. work' = [work EXCEPT ![w].channel = c, ![w].pc = "telling"] /\ UNCHANGED locks
    BY <1>4 DEF Peek
  <2>2. /\ work' \in [Workers -> Work \cup {None}]
        /\ work'[w] # None /\ work'[w].pc = "telling" /\ work'[w].channel = c
        /\ work'[w].kind = work[w].kind /\ work'[w].id = work[w].id
        /\ \A v \in Workers \ {w} : work'[v] = work[v]
    <3>1. "telling" \in Pc \cup Replies
      BY DEF Pc
    <3>2. Takes(w, "telling", c)
      BY <1>2, <2>1 DEF Takes, TypeOK, Work
    <3>3. QED
      BY <1>2, <3>1, <3>2, Carried
  <2>3. LockPart(w)'
    BY <1>1, <1>2, <2>1, <2>2 DEF LockPart, Past, Busy
  <2>4. /\ owners[work[w].id] = c.by /\ work[w].kind = "status"
        /\ Stored /\ acked[work[w].id] # None => c = acked[work[w].id]
    BY <1>1, <1>2, <1>4 DEF SessionInv, AgreeInv, WorkerInv, PlanPart, At
  <2>5. OwnerPart(w)' /\ PlanPart(w)'
    BY <1>1, <1>4, <2>2, <2>4 DEF OwnerPart, PlanPart, Serving, Carrying, Ending, memory
  <2>6. QED
    BY <1>1, <1>2, <2>1, <2>2, <2>3, <2>5, QuietStep DEF WorkerInv, TypeOK, Past
<1>5. QED
  BY <1>3, <1>4

LEMMA Informed ==
  ASSUME SessionInv, NEW w \in Workers, Tell(w)
  PROVE  SessionInv'
<1>1. At(w, "telling") /\ UNCHANGED <<memory, store, mutex, acked, bounds>>
  BY DEF Tell
<1>2. /\ TypeOK /\ OwnerPart(w) /\ work[w] # None /\ work[w].pc = "telling"
      /\ work[w].by \in Principals
  BY <1>1, AtFacts DEF Pc, Inserting
<1>3. CASE owners[work[w].id] = work[w].by
  <2>1. Answer(w, "told")
    BY <1>3 DEF Tell
  <2>2. /\ work' \in [Workers -> Work \cup {None}]
        /\ work'[w] # None /\ work'[w].pc = "told"
        /\ work'[w].by = work[w].by /\ work'[w].channel = work[w].channel
        /\ \A v \in Workers \ {w} : work'[v] = work[v]
        /\ locks' \in [Ids -> Workers \cup {None}]
        /\ \A v \in Workers \ {w} : \A s \in Ids : locks[s] = v => locks'[s] = v
        /\ ~Busy(w)' /\ LockPart(w)' /\ PlanPart(w)'
    BY <1>2, <2>1, Answered DEF Replies
  <2>3. work[w].channel # None /\ work[w].channel.by = work[w].by
    BY <1>2, <1>3, NoneAssumption DEF OwnerPart
  <2>4. OwnerPart(w)'
    BY <2>2, <2>3 DEF OwnerPart, Serving, Carrying, Ending
  <2>5. QED
    BY <1>1, <2>2, <2>4, QuietStep DEF WorkerInv
<1>4. CASE owners[work[w].id] # work[w].by
  BY <1>1, <1>2, <1>4, Refused DEF Tell, Replies
<1>5. QED
  BY <1>3, <1>4

\* A session is entered by its owner, or by whoever comes first.
LEMMA Entered ==
  ASSUME SessionInv, NEW w \in Workers, Past(w), work[w].kind # "open",
         UNCHANGED <<memory, store, mutex, acked, bounds>>,
         NEW owner, AsOwner(w, owner, "restore"),
         owner \in {None, work[w].by} =>
           /\ owners[work[w].id] \in {None, work[w].by}
           /\ data[work[w].id] # None => data[work[w].id].by = work[w].by
  PROVE  SessionInv'
<1>1. TypeOK /\ work[w] # None
  BY DEF SessionInv, Past, Busy
<1>2. CASE UNCHANGED locks /\ owner \in {None, work[w].by} /\ Goto(w, "restore")
  <2>1. /\ work'[w] # None /\ work'[w].pc = "restore" /\ work'[w].id = work[w].id
        /\ work'[w].by = work[w].by
    BY <1>1, <1>2, Moved DEF Pc
  <2>2. OwnerPart(w)' /\ PlanPart(w)'
    BY <1>2, <2>1 DEF OwnerPart, PlanPart, Serving, Carrying, Ending, memory, store
  <2>3. QED
    BY <1>2, <2>2, GoesOn DEF Pc
<1>3. CASE /\ work[w].kind = "delete" /\ owner = work[w].by
           /\ UNCHANGED locks /\ Goto(w, "popping")
  <2>1. /\ work'[w].pc = "popping" /\ work'[w].kind = "delete"
        /\ work'[w].id = work[w].id /\ work'[w].by = work[w].by
    BY <1>1, <1>3, Moved DEF Pc
  <2>2. OwnerPart(w)' /\ PlanPart(w)'
    BY <1>3, <2>1 DEF store, OwnerPart, PlanPart, Serving, Carrying, Ending
  <2>3. QED
    BY <1>3, <2>2, GoesOn DEF Pc
<1>4. CASE Answer(w, "forbidden") \/ Answer(w, "absent")
  BY <1>1, <1>4, Refused DEF Replies
<1>5. QED
  BY <1>2, <1>3, <1>4 DEF AsOwner

LEMMA OwnerSought ==
  ASSUME SessionInv, NEW w \in Workers, Whose(w)
  PROVE  SessionInv'
<1>1. At(w, "whose") /\ UNCHANGED <<memory, store, mutex, acked, bounds>>
  BY DEF Whose
<1>2. /\ TypeOK /\ work[w] # None /\ work[w].id \in Ids /\ Past(w)
      /\ work[w].kind # "open" /\ work[w].by \in Principals
  BY <1>1, AtFacts DEF Pc, Inserting
<1>3. CASE owners[work[w].id] # None
  <2>1. Goto(w, "index") /\ UNCHANGED locks
    BY <1>3 DEF Whose
  <2>2. work'[w].pc = "index"
    BY <1>2, <2>1, Moved DEF Pc
  <2>3. OwnerPart(w)' /\ PlanPart(w)'
    BY <2>2 DEF OwnerPart, PlanPart, Serving, Carrying, Ending
  <2>4. QED
    BY <1>1, <1>2, <2>1, <2>3, GoesOn DEF Pc
<1>4. CASE owners[work[w].id] = None
  <2>1. AsOwner(w, OwnerInStore(work[w].id), "restore")
    BY <1>4 DEF Whose
  <2>2. OwnerInStore(work[w].id) \in {None, work[w].by} =>
          (data[work[w].id] # None => data[work[w].id].by = work[w].by)
    <3>1. data[work[w].id] # None =>
            /\ Stored /\ OwnerInStore(work[w].id) = data[work[w].id].by
            /\ data[work[w].id].by \in Principals
      BY <1>2, StoredAssumption DEF SessionInv, AgreeInv, OwnerInStore, TypeOK, Entry
    <3>2. QED
      BY <3>1, NoneAssumption
  <2>3. QED
    BY <1>1, <1>2, <1>4, <2>1, <2>2, Entered
<1>5. QED
  BY <1>3, <1>4

LEMMA OwnerFound ==
  ASSUME SessionInv, NEW w \in Workers, Index(w)
  PROVE  SessionInv'
<1>1. At(w, "index") /\ UNCHANGED <<memory, store, mutex, acked, bounds>>
  BY DEF Index
<1>2. /\ TypeOK /\ work[w] # None /\ work[w].id \in Ids /\ Past(w)
      /\ work[w].kind # "open"
  BY <1>1, AtFacts DEF Pc, Inserting
<1>3. CASE owners[work[w].id] = None
  BY <1>1, <1>2, <1>3, Refused DEF Index, Replies
<1>4. CASE owners[work[w].id] # None
  <2>1. AsOwner(w, owners[work[w].id], "restore")
    BY <1>4 DEF Index
  <2>2. data[work[w].id] # None => data[work[w].id].by = owners[work[w].id]
    BY <1>2, <1>4 DEF SessionInv, AgreeInv
  <2>3. QED
    BY <1>1, <1>2, <1>4, <2>1, <2>2, Entered
<1>5. QED
  BY <1>3, <1>4

LEMMA PromptTakenBefore ==
  ASSUME SessionInv, NEW w \in Workers, PromptAgain(w)
  PROVE  SessionInv'
BY Refused DEF PromptAgain, Replies, At

\* A channel is made anew for the owner, with the plan the store has if any.
LEMMA ChannelMade ==
  ASSUME SessionInv, NEW w \in Workers, Restore(w)
  PROVE  SessionInv'
<1> DEFINE s == work[w].id
<1>1. At(w, "restore") /\ UNCHANGED <<memory, store, mutex, acked, bounds>>
  BY DEF Restore
<1>2. /\ TypeOK /\ LockPart(w) /\ OwnerPart(w) /\ work[w] # None /\ s \in Ids
      /\ Past(w) /\ work[w].kind # "open" /\ work[w].by \in Principals
      /\ work[w].pc = "restore"
  BY <1>1, AtFacts DEF Pc, Inserting
<1>3. ASSUME NEW c \in Channel, c.by = work[w].by, Takes(w, "adding", c), UNCHANGED locks,
             Stored /\ acked[s] # None => c = acked[s]
      PROVE  SessionInv'
  <2>1. /\ work' \in [Workers -> Work \cup {None}]
        /\ work'[w] # None /\ work'[w].pc = "adding" /\ work'[w].channel = c
        /\ work'[w].kind = work[w].kind /\ work'[w].id = s /\ work'[w].by = work[w].by
        /\ \A v \in Workers \ {w} : work'[v] = work[v]
    <3>1. "adding" \in Pc \cup Replies /\ c \in Channel \cup {None}
      BY DEF Pc
    <3>2. QED
      BY <1>2, <1>3, <3>1, Carried
  <2>2. LockPart(w)'
    BY <1>2, <1>3, <2>1 DEF LockPart, Past, Busy, Inserting
  <2>3. c # None
    BY NoneAssumption
  <2>4. OwnerPart(w)'
    BY <1>1, <1>2, <1>3, <2>1, <2>3 DEF OwnerPart, Serving, Carrying, Ending, memory, store
  <2>5. PlanPart(w)'
    BY <1>1, <1>3, <2>1 DEF PlanPart, Ending
  <2>6. QED
    BY <1>1, <1>2, <1>3, <2>1, <2>2, <2>4, <2>5, QuietStep DEF WorkerInv, TypeOK, Past
<1>4. CASE OwnerInStore(s) = None
  <2>1. data[s] = None
    <3>1. data[s] # None => Stored /\ data[s].by \in Principals
      BY <1>2, StoredAssumption DEF SessionInv, AgreeInv, TypeOK, Entry
    <3>2. QED
      BY <1>4, <3>1, NoneAssumption DEF OwnerInStore
  <2>2. Stored => acked[s] = None
    BY <1>2, <2>1 DEF SessionInv, AckedIsDurable
  <2>3. PICK c \in Channel : c = [by |-> work[w].by, plan |-> Fresh]
    BY <1>2 DEF Channel
  <2>4. Takes(w, "adding", c) /\ UNCHANGED locks
    BY <1>2, <1>4, <2>3 DEF Restore, Takes, TypeOK, Work
  <2>5. QED
    BY <1>3, <2>2, <2>3, <2>4
<1>5. CASE OwnerInStore(s) # None
  <2>1. data[s] # None /\ data[s] \in Entry
    BY <1>2, <1>5 DEF OwnerInStore, TypeOK
  <2>2. PICK plan \in Plans \cup {Dead} :
          IF plan # Dead /\ Restorable(s, plan)
            THEN /\ work' = [work EXCEPT ![w].pc = "adding",
                               ![w].channel = [by |-> data[s].by, plan |-> plan]]
                 /\ UNCHANGED locks
            ELSE Answer(w, "unrestorable")
    BY <1>5 DEF Restore
  <2>3. CASE plan # Dead /\ Restorable(s, plan)
    <3>1. PICK c \in Channel : c = [by |-> data[s].by, plan |-> plan]
      BY <2>1, <2>3 DEF Channel, Entry
    <3>2. c = data[s] /\ c.by = work[w].by
      BY <1>2, <2>1, <2>3, <3>1 DEF Restorable, Entry, OwnerPart, Serving
    <3>3. Takes(w, "adding", c) /\ UNCHANGED locks
      BY <1>2, <2>2, <2>3, <3>1 DEF Takes, TypeOK, Work
    <3>4. Stored /\ acked[s] # None => c = acked[s]
      BY <1>2, <3>2 DEF SessionInv, AckedIsDurable
    <3>5. QED
      BY <1>3, <3>2, <3>3, <3>4
  <2>4. CASE ~(plan # Dead /\ Restorable(s, plan))
    BY <1>1, <1>2, <2>2, <2>4, Refused DEF Replies
  <2>5. QED
    BY <2>3, <2>4
<1>6. QED
  BY <1>4, <1>5

-----------------------------------------------------------------------------
(***************************************************************************)
(* Changing the table.                                                     *)
(***************************************************************************)

LEMMA StepOf ==
  ASSUME SessionInv, NEW w \in Workers,
         TypeOK', OnceInv', AgreeInv', AckedIsDurable', OpenInv', WorkerInv(w)',
         \A v \in Workers \ {w} : work'[v] = work[v],
         \A v \in Workers \ {w} : \A s \in Ids : locks[s] = v => locks'[s] = v,
         \A v \in Workers \ {w} : Past(v) => OnlyEvicts(work[v].id),
         \A v \in Workers \ {w} : At(v, "evicting") =>
           mutex' = v /\ \A s \in Ids : channels[s] = None => channels'[s] = None
  PROVE  SessionInv'
<1>1. \A v \in Workers \ {w} : WorkerInv(v)'
  BY OthersStay
<1>2. QED
  BY <1>1 DEF SessionInv

\* While w may take the table's lock, nobody else is evicting.
LEMMA NobodyEvicts ==
  ASSUME SessionInv, NEW w \in Workers, mutex \in {None, w}
  PROVE  \A v \in Workers \ {w} : ~At(v, "evicting")
BY NoneAssumption DEF SessionInv, WorkerInv, LockPart, At, Busy, Pc

LEMMA Evicted ==
  ASSUME SessionInv, NEW w \in Workers, Evict(w)
  PROVE  SessionInv'
<1> DEFINE h == Head(table)
           r == [work[w] EXCEPT !.pc = "evicting", !.victim = h]
<1>1. /\ At(w, "adding") /\ mutex \in {None, w} /\ mutex' = w
      /\ table' = Tail(table) /\ channels' = [channels EXCEPT ![h] = None]
      /\ UNCHANGED <<owners, store, locks, acked, bounds>>
  BY DEF Evict
<1>2. /\ TypeOK /\ LockPart(w) /\ OwnerPart(w) /\ PlanPart(w) /\ work[w] # None
      /\ work[w].id \in Ids /\ Past(w) /\ work[w] \in Work /\ work[w].pc = "adding"
      /\ Busy(w)
  BY <1>1, AtFacts DEF Pc, Inserting
<1>3. table \in Seq(Ids) /\ table # <<>>
  BY <1>2, BoundsAssumption DEF Evict, Full, TypeOK
<1>4. /\ Tail(table) \in Seq(Ids) /\ Len(Tail(table)) = Len(table) - 1 /\ h \in Ids
      /\ \A i, j \in DOMAIN Tail(table) : Tail(table)[i] = Tail(table)[j] => i = j
      /\ ToSet(Tail(table)) = ToSet(table) \ {h}
  BY <1>3, HeadLeaves DEF SessionInv, OnceInv
<1> HIDE DEF h
<1>5. /\ r \in Work /\ r # None /\ r.pc = "evicting" /\ r.victim = h
      /\ r.kind = work[w].kind /\ r.id = work[w].id /\ r.by = work[w].by
      /\ r.channel = work[w].channel
  <2>1. r \in Work
    BY <1>2, <1>4 DEF Work, Pc
  <2>2. r # None
    BY <2>1, NoneAssumption
  <2>3. QED
    BY <1>2, <2>1, <2>2 DEF Work
<1>6. work' = [work EXCEPT ![w] = r]
  BY <1>2 DEF Evict, h, TypeOK, Work
<1> HIDE DEF r
<1>7. work'[w] = r /\ \A v \in Workers \ {w} : work'[v] = work[v]
  BY <1>2, <1>6 DEF TypeOK
<1>8. /\ \A s \in Ids : channels'[s] = IF s = h THEN None ELSE channels[s]
      /\ channels' \in [Ids -> Channel \cup {None}]
  BY <1>1, <1>2 DEF TypeOK
<1>9. TypeOK'
  <2>1. Len(table') <= MaxSessions
    BY <1>1, <1>2, <1>3, <1>4, BoundsAssumption DEF TypeOK
  <2>2. \A s \in Ids : channels'[s] # None <=> s \in ToSet(table')
    BY <1>1, <1>2, <1>4, <1>8 DEF TypeOK
  <2>3. work' \in [Workers -> Work \cup {None}]
    BY <1>2, <1>5, <1>6 DEF TypeOK
  <2>4. QED
    BY <1>1, <1>2, <1>4, <1>8, <2>1, <2>2, <2>3 DEF TypeOK, store, bounds
<1>10. OnceInv' /\ AckedIsDurable'
  BY <1>1, <1>4 DEF OnceInv, SessionInv, AckedIsDurable, store
<1>11. AgreeInv'
  BY <1>1, <1>8 DEF SessionInv, AgreeInv, store
<1>12. OpenInv'
  BY <1>2, <1>5, <1>7, OpenStays
<1>13. WorkerInv(w)'
  <2>1. LockPart(w)'
    BY <1>1, <1>2, <1>4, <1>5, <1>7, <1>8 DEF LockPart, Inserting
  <2>2. OwnerPart(w)'
    BY <1>1, <1>2, <1>5, <1>7 DEF OwnerPart, Serving, Carrying, Ending, store
  <2>3. PlanPart(w)'
    BY <1>1, <1>2, <1>5, <1>7 DEF PlanPart, Ending
  <2>4. QED
    BY <2>1, <2>2, <2>3 DEF WorkerInv
<1>14. \A v \in Workers \ {w} : Past(v) => OnlyEvicts(work[v].id)
  BY <1>1, <1>2, <1>8 DEF OnlyEvicts, Past, Busy, TypeOK, Work, store
<1>15. \A v \in Workers \ {w} : ~At(v, "evicting")
  BY <1>1, NobodyEvicts
<1>16. QED
  BY <1>1, <1>7, <1>9, <1>10, <1>11, <1>12, <1>13, <1>14, <1>15, StepOf

LEMMA OwnerEvicted ==
  ASSUME SessionInv, NEW w \in Workers, EvictOwner(w)
  PROVE  SessionInv'
<1> DEFINE h == work[w].victim
           r == [work[w] EXCEPT !.pc = "adding", !.victim = None]
<1>1. /\ At(w, "evicting") /\ owners' = [owners EXCEPT ![h] = None]
      /\ UNCHANGED <<table, channels, store, locks, mutex, acked, bounds>>
  BY DEF EvictOwner
<1>2. /\ TypeOK /\ LockPart(w) /\ OwnerPart(w) /\ PlanPart(w) /\ work[w] # None
      /\ work[w].id \in Ids /\ Past(w) /\ work[w] \in Work /\ work[w].pc = "evicting"
      /\ Busy(w)
  BY <1>1, AtFacts DEF Pc, Inserting
<1>3. h \in Ids /\ channels[h] = None /\ mutex = w
  BY <1>2 DEF LockPart
<1>4. /\ r \in Work /\ r # None /\ r.pc = "adding"
      /\ r.kind = work[w].kind /\ r.id = work[w].id /\ r.by = work[w].by
      /\ r.channel = work[w].channel
  <2>1. r \in Work
    BY <1>2 DEF Work, Pc
  <2>2. r # None
    BY <2>1, NoneAssumption
  <2>3. QED
    BY <1>2, <2>1, <2>2 DEF Work
<1>5. work' = [work EXCEPT ![w] = r]
  BY <1>2 DEF EvictOwner, TypeOK, Work
<1> HIDE DEF h, r
<1>6. work'[w] = r /\ \A v \in Workers \ {w} : work'[v] = work[v]
  BY <1>2, <1>5 DEF TypeOK
<1>7. /\ \A s \in Ids : owners'[s] = IF s = h THEN None ELSE owners[s]
      /\ owners' \in [Ids -> Principals \cup {None}]
  BY <1>1, <1>2 DEF TypeOK
<1>8. TypeOK'
  <2>1. work' \in [Workers -> Work \cup {None}]
    BY <1>2, <1>4, <1>5 DEF TypeOK
  <2>2. QED
    BY <1>1, <1>2, <1>7, <2>1 DEF TypeOK, store, bounds
<1>9. OnceInv' /\ AckedIsDurable'
  BY <1>1 DEF OnceInv, SessionInv, AckedIsDurable, store
<1>10. AgreeInv'
  BY <1>1, <1>3, <1>7 DEF SessionInv, AgreeInv, store
<1>11. OpenInv'
  BY <1>2, <1>4, <1>6, OpenStays
<1>12. WorkerInv(w)'
  <2>1. LockPart(w)'
    BY <1>1, <1>2, <1>4, <1>6 DEF LockPart, Inserting
  <2>2. OwnerPart(w)'
    BY <1>1, <1>2, <1>4, <1>6, <1>7 DEF OwnerPart, Serving, Carrying, Ending, store
  <2>3. PlanPart(w)'
    BY <1>1, <1>2, <1>4, <1>6 DEF PlanPart, Ending
  <2>4. QED
    BY <2>1, <2>2, <2>3 DEF WorkerInv
<1>13. \A v \in Workers \ {w} : Past(v) => OnlyEvicts(work[v].id)
  BY <1>1, <1>2, <1>7 DEF OnlyEvicts, Past, Busy, TypeOK, Work, store
<1>14. \A v \in Workers \ {w} : ~At(v, "evicting")
  BY <1>3, NobodyEvicts
<1>15. QED
  BY <1>1, <1>6, <1>8, <1>9, <1>10, <1>11, <1>12, <1>13, <1>14, StepOf

\* What a step of w does to the session it is at is nobody else's business.
LEMMA AtItsOwn ==
  ASSUME SessionInv, NEW w \in Workers, Past(w),
         \A s \in Ids \ {work[w].id} : OnlyEvicts(s)
  PROVE  \A v \in Workers \ {w} : Past(v) => OnlyEvicts(work[v].id)
BY Alone DEF SessionInv, TypeOK, Past, Busy, Work

LEMMA Inserted ==
  ASSUME SessionInv, NEW w \in Workers, Insert(w)
  PROVE  SessionInv'
<1> DEFINE s == work[w].id
<1>1. /\ At(w, "adding") /\ mutex \in {None, w} /\ mutex' = None
      /\ table' = (IF channels[s] = None THEN Append(table, s) ELSE table)
      /\ channels' = [channels EXCEPT ![s] = work[w].channel]
      /\ owners' = [owners EXCEPT ![s] = work[w].by]
      /\ UNCHANGED <<store, acked, bounds>>
  BY DEF Insert
<1>2. /\ TypeOK /\ LockPart(w) /\ OwnerPart(w) /\ PlanPart(w) /\ work[w] # None
      /\ s \in Ids /\ Past(w) /\ work[w].pc = "adding" /\ work[w].by \in Principals
      /\ work[w].channel \in Channel \cup {None} /\ Busy(w)
  BY <1>1, AtFacts DEF Pc, Inserting
<1>3. /\ work[w].channel # None /\ work[w].channel \in Channel
      /\ work[w].channel.by = work[w].by
      /\ (data[s] # None => data[s].by = work[w].by)
      /\ (Stored /\ acked[s] # None => work[w].channel = acked[s])
  BY <1>2 DEF OwnerPart, PlanPart, Serving, Carrying, Ending
<1>4. /\ channels' \in [Ids -> Channel \cup {None}]
      /\ owners' \in [Ids -> Principals \cup {None}]
      /\ \A t \in Ids : channels'[t] = IF t = s THEN work[w].channel ELSE channels[t]
      /\ \A t \in Ids : owners'[t] = IF t = s THEN work[w].by ELSE owners[t]
  BY <1>1, <1>2, <1>3 DEF TypeOK
<1>5. /\ table' \in Seq(Ids) /\ Len(table') <= MaxSessions /\ OnceInv'
      /\ \A t \in Ids : channels'[t] # None <=> t \in ToSet(table')
  <2>1. CASE channels[s] # None
    BY <1>1, <1>2, <1>3, <1>4, <2>1 DEF TypeOK, SessionInv, OnceInv
  <2>2. CASE channels[s] = None
    <3>1. s \notin ToSet(table) /\ table' = Append(table, s)
      BY <1>1, <1>2, <2>2 DEF TypeOK
    <3>2. /\ table' \in Seq(Ids) /\ Len(table') = Len(table) + 1
          /\ \A i, j \in DOMAIN table' : table'[i] = table'[j] => i = j
          /\ ToSet(table') = ToSet(table) \cup {s}
      BY <1>2, <3>1, LastComes DEF TypeOK, SessionInv, OnceInv
    <3>3. Len(table) < MaxSessions
      BY <1>2, <2>2, BoundsAssumption DEF Insert, Full, TypeOK
    <3>4. Len(table') <= MaxSessions
      BY <1>2, <3>2, <3>3, BoundsAssumption DEF TypeOK
    <3>5. QED
      BY <1>2, <1>3, <1>4, <3>2, <3>4 DEF TypeOK, OnceInv
  <2>3. QED
    BY <2>1, <2>2
<1>6. /\ work' \in [Workers -> Work \cup {None}]
      /\ locks' \in [Ids -> Workers \cup {None}]
      /\ \A v \in Workers \ {w} : work'[v] = work[v]
      /\ \A v \in Workers \ {w} : \A t \in Ids : locks[t] = v => locks'[t] = v
      /\ (Busy(w)' => work'[w].id = s /\ work'[w].kind = work[w].kind)
      /\ WorkerInv(w)'
  <2>1. CASE work[w].kind = "open"
    <3>1. Answer(w, "opened")
      BY <2>1 DEF Insert
    <3>2. QED
      BY <1>2, <3>1, Answered DEF WorkerInv, Replies
  <2>2. CASE work[w].kind # "open"
    <3>1. Goto(w, "receive") /\ UNCHANGED locks
      BY <2>2 DEF Insert
    <3>2. /\ work' \in [Workers -> Work \cup {None}]
          /\ work'[w] # None /\ work'[w].pc = "receive"
          /\ work'[w].kind = work[w].kind /\ work'[w].id = s
          /\ work'[w].by = work[w].by /\ work'[w].channel = work[w].channel
          /\ \A v \in Workers \ {w} : work'[v] = work[v]
      BY <1>2, <3>1, Moved DEF Pc
    <3>3. LockPart(w)'
      BY <1>2, <2>2, <3>1, <3>2 DEF LockPart
    <3>4. OwnerPart(w)'
      BY <1>1, <1>2, <1>3, <1>4, <3>2 DEF OwnerPart, Serving, Carrying, Ending, store
    <3>5. PlanPart(w)'
      BY <1>1, <1>2, <1>3, <1>4, <3>2 DEF PlanPart, Ending
    <3>6. QED
      BY <1>2, <3>1, <3>2, <3>3, <3>4, <3>5 DEF WorkerInv, TypeOK
  <2>3. QED
    BY <2>1, <2>2
<1>7. TypeOK'
  BY <1>1, <1>2, <1>4, <1>5, <1>6 DEF TypeOK, store, bounds
<1>8. AckedIsDurable'
  BY <1>1 DEF SessionInv, AckedIsDurable, store
<1>9. AgreeInv'
  BY <1>1, <1>2, <1>3, <1>4 DEF SessionInv, AgreeInv, store
<1>10. OpenInv'
  BY <1>2, <1>6, OpenStays
<1>11. \A v \in Workers \ {w} : Past(v) => OnlyEvicts(work[v].id)
  <2>1. \A t \in Ids \ {s} : OnlyEvicts(t)
    BY <1>1, <1>4 DEF OnlyEvicts, store
  <2>2. QED
    BY <1>2, <2>1, AtItsOwn
<1>12. \A v \in Workers \ {w} : ~At(v, "evicting")
  BY <1>1, NobodyEvicts
<1>13. QED
  BY <1>5, <1>6, <1>7, <1>8, <1>9, <1>10, <1>11, <1>12, StepOf

-----------------------------------------------------------------------------
(***************************************************************************)
(* Receiving.                                                              *)
(***************************************************************************)

\* A channel that receives changes in place, and its session is without an
\* acknowledged plan if it takes the prompt.
LEMMA Receiving ==
  ASSUME SessionInv, NEW w \in Workers, At(w, "receive"), Receives(w),
         NEW plan \in Plans \cup {Fresh, Dead}, Becomes(w, plan)
  PROVE  LET c == [work[w].channel EXCEPT !.plan = plan] IN
         /\ c \in Channel /\ c # None /\ c.by = work[w].by /\ c.plan = plan
         /\ (Stored => acked[work[w].id] = None)
         /\ channels' \in [Ids -> Channel \cup {None}]
         /\ channels'[work[w].id] \in {None, c}
         /\ \A t \in Ids : channels'[t] # None <=> channels[t] # None
         /\ \A t \in Ids \ {work[w].id} : channels'[t] = channels[t]
         /\ owners[work[w].id] \in {None, work[w].by}
         /\ (channels'[work[w].id] # None => owners[work[w].id] = work[w].by)
<1> DEFINE s == work[w].id
           c == [work[w].channel EXCEPT !.plan = plan]
<1>1. /\ TypeOK /\ OwnerPart(w) /\ PlanPart(w) /\ work[w] # None /\ s \in Ids
      /\ work[w].pc = "receive" /\ work[w].channel \in Channel \cup {None}
  BY AtFacts DEF Pc, Inserting
<1>2. /\ work[w].channel \in Channel /\ work[w].channel.by = work[w].by
      /\ owners[s] \in {None, work[w].by}
      /\ channels[s] \in {None, work[w].channel}
  BY <1>1 DEF OwnerPart, PlanPart, Serving, Carrying, Ending
<1>3. c \in Channel /\ c.by = work[w].by /\ c.plan = plan
  BY <1>2 DEF Channel
<1>4. c # None
  BY <1>3, NoneAssumption
<1>5. Stored => acked[s] = None
  <2>1. SUFFICES ASSUME Stored, acked[s] # None PROVE FALSE
    OBVIOUS
  <2>2. work[w].channel = acked[s] /\ acked[s] \in Entry
    BY <1>1, <2>1 DEF PlanPart, TypeOK
  <2>3. QED
    BY <2>2, PlansAssumption DEF Receives, Entry
<1>6. channels' = [channels EXCEPT ![s] = IF @ = None THEN None ELSE c]
  BY DEF Becomes
<1> HIDE DEF c
<1>7. /\ channels' \in [Ids -> Channel \cup {None}]
      /\ \A t \in Ids : channels'[t] = IF t = s /\ channels[s] # None THEN c ELSE channels[t]
  BY <1>1, <1>3, <1>6 DEF TypeOK
<1>8. channels'[s] # None => owners[s] = work[w].by
  BY <1>1, <1>2, <1>7 DEF SessionInv, AgreeInv
<1>9. QED
  BY <1>1, <1>2, <1>3, <1>4, <1>5, <1>7, <1>8 DEF c

LEMMA PromptTurnedDown ==
  ASSUME SessionInv, NEW w \in Workers, PromptRefused(w)
  PROVE  SessionInv'
<1> DEFINE s == work[w].id
<1>1. /\ At(w, "receive") /\ Receives(w) /\ Becomes(w, Dead) /\ Answer(w, "error")
      /\ UNCHANGED <<table, owners, store, mutex, acked, bounds>>
  BY DEF PromptRefused
<1>2. /\ TypeOK /\ work[w] # None /\ s \in Ids /\ Past(w)
  BY <1>1, AtFacts DEF Pc, Inserting
<1>3. PICK c \in Channel :
        /\ c.by = work[w].by
        /\ (Stored => acked[s] = None)
        /\ channels' \in [Ids -> Channel \cup {None}]
        /\ channels'[s] \in {None, c}
        /\ \A t \in Ids : channels'[t] # None <=> channels[t] # None
        /\ \A t \in Ids \ {s} : channels'[t] = channels[t]
        /\ (channels'[s] # None => owners[s] = work[w].by)
  BY <1>1, Receiving
<1>4. /\ work' \in [Workers -> Work \cup {None}]
      /\ locks' \in [Ids -> Workers \cup {None}]
      /\ \A v \in Workers \ {w} : work'[v] = work[v]
      /\ \A v \in Workers \ {w} : \A t \in Ids : locks[t] = v => locks'[t] = v
      /\ ~Busy(w)' /\ WorkerInv(w)'
  BY <1>1, <1>2, Answered DEF WorkerInv, Replies
<1>5. TypeOK'
  BY <1>1, <1>2, <1>3, <1>4 DEF TypeOK, store, bounds
<1>6. OnceInv' /\ AckedIsDurable'
  BY <1>1 DEF SessionInv, OnceInv, AckedIsDurable, store
<1>7. AgreeInv'
  BY <1>1, <1>2, <1>3 DEF SessionInv, AgreeInv, store
<1>8. OpenInv'
  BY <1>4, OpenStays
<1>9. \A v \in Workers \ {w} : Past(v) => OnlyEvicts(work[v].id)
  <2>1. \A t \in Ids \ {s} : OnlyEvicts(t)
    BY <1>1, <1>3 DEF OnlyEvicts, store
  <2>2. QED
    BY <1>2, <2>1, AtItsOwn
<1>10. \A v \in Workers \ {w} : At(v, "evicting") =>
         mutex' = v /\ \A t \in Ids : channels[t] = None => channels'[t] = None
  BY <1>1, <1>3 DEF SessionInv, WorkerInv, LockPart, At, Busy, Pc
<1>11. QED
  BY <1>4, <1>5, <1>6, <1>7, <1>8, <1>9, <1>10, StepOf

\* With a store the plan is taken on to be recorded, else it is the channel's.
LEMMA PromptTaken ==
  ASSUME SessionInv, NEW w \in Workers, PromptAccepted(w)
  PROVE  SessionInv'
<1> DEFINE s == work[w].id
<1>1. PICK plan \in Plans :
        /\ At(w, "receive") /\ work[w].kind = "prompt" /\ Receives(w)
        /\ Becomes(w, plan)
        /\ UNCHANGED <<table, owners, store, mutex, bounds>>
        /\ Stored =>
             /\ work' = [work EXCEPT ![w].pc = "record", ![w].channel.plan = plan]
             /\ UNCHANGED <<locks, acked>>
        /\ ~Stored =>
             /\ Answer(w, "accepted")
             /\ acked' = [acked EXCEPT ![s] = [by |-> work[w].by, plan |-> plan]]
  BY DEF PromptAccepted
<1>2. /\ TypeOK /\ LockPart(w) /\ OwnerPart(w) /\ work[w] # None /\ s \in Ids /\ Past(w)
      /\ work[w].pc = "receive" /\ work[w].by \in Principals /\ work[w].kind # "open"
  BY <1>1, AtFacts DEF Pc, Inserting
<1> DEFINE d == [work[w].channel EXCEPT !.plan = plan]
<1>3. PICK c \in Channel :
        /\ c = d /\ c # None /\ c.by = work[w].by /\ c.plan = plan
        /\ (Stored => acked[s] = None)
        /\ channels' \in [Ids -> Channel \cup {None}]
        /\ channels'[s] \in {None, c}
        /\ \A t \in Ids : channels'[t] # None <=> channels[t] # None
        /\ \A t \in Ids \ {s} : channels'[t] = channels[t]
        /\ (channels'[s] # None => owners[s] = work[w].by)
  <2>1. /\ d \in Channel /\ d # None /\ d.by = work[w].by /\ d.plan = plan
        /\ (Stored => acked[s] = None)
        /\ channels' \in [Ids -> Channel \cup {None}]
        /\ channels'[s] \in {None, d}
        /\ \A t \in Ids : channels'[t] # None <=> channels[t] # None
        /\ \A t \in Ids \ {s} : channels'[t] = channels[t]
        /\ (channels'[s] # None => owners[s] = work[w].by)
    BY <1>1, Receiving
  <2> HIDE DEF d
  <2>2. QED
    BY <2>1
<1>4. /\ work' \in [Workers -> Work \cup {None}]
      /\ locks' \in [Ids -> Workers \cup {None}]
      /\ \A v \in Workers \ {w} : work'[v] = work[v]
      /\ \A v \in Workers \ {w} : \A t \in Ids : locks[t] = v => locks'[t] = v
      /\ Busy(w)' => Busy(w) /\ work'[w].id = s /\ work'[w].kind = work[w].kind
      /\ WorkerInv(w)'
  <2>1. CASE Stored
    <3>1. Takes(w, "record", d)
      <4>1. work[w] \in Work
        BY <1>2 DEF TypeOK
      <4>2. QED
        BY <1>1, <1>2, <2>1, <4>1 DEF Takes, TypeOK, Work
    <3> HIDE DEF d
    <3>2. /\ work' \in [Workers -> Work \cup {None}]
          /\ work'[w] # None /\ work'[w].pc = "record" /\ work'[w].channel = c
          /\ work'[w].kind = work[w].kind /\ work'[w].id = s /\ work'[w].by = work[w].by
          /\ \A v \in Workers \ {w} : work'[v] = work[v]
      <4>1. "record" \in Pc \cup Replies /\ c \in Channel \cup {None}
        BY DEF Pc
      <4>2. Takes(w, "record", c)
        BY <1>3, <3>1
      <4>3. QED
        BY <1>2, <4>1, <4>2, Carried
    <3>3. LockPart(w)'
      BY <1>1, <1>2, <2>1, <3>2 DEF LockPart, Past, Busy
    <3>4. OwnerPart(w)'
      BY <1>1, <1>2, <1>3, <3>2 DEF OwnerPart, Serving, Carrying, Ending, store
    <3>5. PlanPart(w)'
      BY <1>1, <1>2, <1>3, <2>1, <3>2 DEF PlanPart, Ending
    <3>6. QED
      BY <1>1, <1>2, <2>1, <3>2, <3>3, <3>4, <3>5 DEF WorkerInv, TypeOK, Past
  <2>2. CASE ~Stored
    BY <1>1, <1>2, <2>2, Answered DEF WorkerInv, Replies
  <2>3. QED
    BY <2>1, <2>2
<1> HIDE DEF d
<1>5. /\ acked' \in [Ids -> Entry \cup {None}]
      /\ (Stored => acked' = acked)
      /\ \A t \in Ids \ {s} : acked'[t] = acked[t]
  <2>1. [by |-> work[w].by, plan |-> plan] \in Entry
    BY <1>2 DEF Entry
  <2>2. QED
    BY <1>1, <1>2, <2>1, StoredAssumption DEF TypeOK
<1>6. TypeOK'
  BY <1>1, <1>2, <1>3, <1>4, <1>5 DEF TypeOK, store, bounds
<1>7. OnceInv' /\ AckedIsDurable'
  BY <1>1, <1>5 DEF SessionInv, OnceInv, AckedIsDurable, store
<1>8. AgreeInv'
  BY <1>1, <1>2, <1>3, <1>5 DEF SessionInv, AgreeInv, store
<1>9. OpenInv'
  BY <1>4, OpenStays
<1>10. \A v \in Workers \ {w} : Past(v) => OnlyEvicts(work[v].id)
  <2>1. \A t \in Ids \ {s} : OnlyEvicts(t)
    BY <1>1, <1>3, <1>5 DEF OnlyEvicts, store
  <2>2. QED
    BY <1>2, <2>1, AtItsOwn
<1>11. \A v \in Workers \ {w} : At(v, "evicting") =>
         mutex' = v /\ \A t \in Ids : channels[t] = None => channels'[t] = None
  BY <1>1, <1>3 DEF SessionInv, WorkerInv, LockPart, At, Busy, Pc
<1>12. QED
  BY <1>4, <1>6, <1>7, <1>8, <1>9, <1>10, <1>11, StepOf

\* What publishing an entry of one session does to the others.
LEMMA Published ==
  ASSUME SessionInv, NEW s \in Ids, NEW e \in Entry \cup {None}, NEW outcome \in Commits,
         Publish([data EXCEPT ![s] = e], outcome)
  PROVE  /\ data' \in [Ids -> Entry \cup {None}] /\ disk' \in [Ids -> Entry \cup {None}]
         /\ \A t \in Ids \ {s} : data'[t] = data[t]
         /\ \A t \in Ids \ {s} : disk'[t] \in {disk[t], data[t]}
         /\ outcome = "ok" => data'[s] = e /\ disk'[s] = e
         /\ outcome # "ok" => data' = data
         /\ outcome = "unwritten" => disk' = disk
BY DEF Publish, SessionInv, TypeOK, Commits

LEMMA Recorded ==
  ASSUME SessionInv, NEW w \in Workers, Record(w)
  PROVE  SessionInv'
<1> DEFINE s == work[w].id
<1>1. PICK outcome \in Commits :
        /\ At(w, "record") /\ UNCHANGED <<mutex, bounds>>
        /\ Publish([data EXCEPT ![s] = [by |-> work[w].by,
                                        plan |-> work[w].channel.plan]], outcome)
        /\ outcome = "ok" =>
             /\ Answer(w, "accepted") /\ UNCHANGED memory
             /\ acked' = [acked EXCEPT ![s] = [by |-> work[w].by,
                                               plan |-> work[w].channel.plan]]
        /\ outcome # "ok" =>
             mutex = None /\ Drop(s) /\ Answer(w, "unrecorded") /\ UNCHANGED acked
  BY DEF Record
<1>2. /\ TypeOK /\ OwnerPart(w) /\ PlanPart(w) /\ work[w] # None /\ s \in Ids /\ Past(w)
      /\ work[w].pc = "record" /\ work[w].by \in Principals
      /\ work[w].channel \in Channel \cup {None}
  BY <1>1, AtFacts DEF Pc, Inserting
<1>3. /\ work[w].channel \in Channel /\ work[w].channel.by = work[w].by
      /\ work[w].channel.plan \in Plans /\ Stored /\ acked[s] = None
      /\ channels[s] \in {None, work[w].channel}
      /\ owners[s] \in {None, work[w].by}
  BY <1>2 DEF OwnerPart, PlanPart, Serving, Carrying, Ending
<1>4. PICK e \in Entry \cup {None} :
        /\ e = [by |-> work[w].by, plan |-> work[w].channel.plan]
        /\ e = work[w].channel /\ e.by = work[w].by /\ e \in Entry
  BY <1>2, <1>3 DEF Entry, Channel
<1>5. /\ data' \in [Ids -> Entry \cup {None}] /\ disk' \in [Ids -> Entry \cup {None}]
      /\ \A t \in Ids \ {s} : data'[t] = data[t]
      /\ \A t \in Ids \ {s} : disk'[t] \in {disk[t], data[t]}
      /\ outcome = "ok" => data'[s] = e /\ disk'[s] = e
      /\ outcome # "ok" => data' = data
  <2>1. Publish([data EXCEPT ![s] = e], outcome)
    BY <1>1, <1>4
  <2>2. QED
    BY <1>2, <2>1, Published
<1>6. PICK reply \in Replies \ {"told"} : Answer(w, reply)
  BY <1>1 DEF Replies
<1>7. /\ work' \in [Workers -> Work \cup {None}]
      /\ locks' \in [Ids -> Workers \cup {None}]
      /\ \A v \in Workers \ {w} : work'[v] = work[v]
      /\ \A v \in Workers \ {w} : \A t \in Ids : locks[t] = v => locks'[t] = v
      /\ ~Busy(w)' /\ WorkerInv(w)'
  BY <1>2, <1>6, Answered DEF WorkerInv
<1>8. /\ acked' \in [Ids -> Entry \cup {None}]
      /\ \A t \in Ids \ {s} : acked'[t] = acked[t]
      /\ acked'[s] = IF outcome = "ok" THEN e ELSE None
  BY <1>1, <1>2, <1>3, <1>4 DEF TypeOK
<1>9. /\ table' \in Seq(Ids) /\ Len(table') <= MaxSessions /\ OnceInv'
      /\ channels' \in [Ids -> Channel \cup {None}]
      /\ owners' \in [Ids -> Principals \cup {None}]
      /\ \A t \in Ids : channels'[t] # None <=> t \in ToSet(table')
      /\ \A t \in Ids \ {s} : channels'[t] = channels[t] /\ owners'[t] = owners[t]
      /\ channels'[s] \in {None, channels[s]} /\ owners'[s] \in {None, owners[s]}
      /\ channels'[s] # None => owners'[s] = owners[s]
  <2>1. CASE outcome = "ok"
    BY <1>1, <1>2, <2>1 DEF memory, TypeOK, SessionInv, OnceInv
  <2>2. CASE outcome # "ok"
    BY <1>1, <1>2, <2>2, DropFacts DEF SessionInv
  <2>3. QED
    BY <2>1, <2>2
<1>10. TypeOK'
  BY <1>1, <1>2, <1>5, <1>7, <1>8, <1>9 DEF TypeOK, bounds
<1>11. AckedIsDurable'
  BY <1>2, <1>4, <1>5, <1>8 DEF SessionInv, AckedIsDurable
<1>12. AgreeInv'
  <2>1. \A t \in Ids \ {s} :
          /\ channels'[t] = channels[t] /\ owners'[t] = owners[t]
          /\ data'[t] = data[t] /\ acked'[t] = acked[t]
    BY <1>5, <1>8, <1>9
  <2>2. channels'[s] # None =>
          channels'[s] = work[w].channel /\ owners'[s] = work[w].by
    BY <1>2, <1>3, <1>9 DEF SessionInv, AgreeInv
  <2>3. data'[s] # None /\ owners'[s] # None => owners'[s] = data'[s].by
    BY <1>2, <1>3, <1>4, <1>5, <1>9 DEF SessionInv, AgreeInv
  <2>4. QED
    BY <1>2, <1>3, <1>4, <1>8, <2>1, <2>2, <2>3 DEF SessionInv, AgreeInv
<1>13. OpenInv'
  BY <1>7, OpenStays
<1>14. \A v \in Workers \ {w} : Past(v) => OnlyEvicts(work[v].id)
  <2>1. \A t \in Ids \ {s} : OnlyEvicts(t)
    BY <1>5, <1>8, <1>9 DEF OnlyEvicts
  <2>2. QED
    BY <1>2, <2>1, AtItsOwn
<1>15. \A v \in Workers \ {w} : At(v, "evicting") =>
         mutex' = v /\ \A t \in Ids : channels[t] = None => channels'[t] = None
  <2>1. \A v \in Workers \ {w} : At(v, "evicting") => mutex = v
    BY DEF SessionInv, WorkerInv, LockPart, At, Busy, Pc
  <2>2. \A t \in Ids : channels[t] = None => channels'[t] = None
    BY <1>2, <1>9
  <2>3. QED
    BY <1>1, <2>1, <2>2
<1>16. QED
  BY <1>7, <1>9, <1>10, <1>11, <1>12, <1>13, <1>14, <1>15, StepOf

LEMMA Called ==
  ASSUME SessionInv, NEW w \in Workers, Call(w)
  PROVE  SessionInv'
<1> DEFINE s == work[w].id
<1>1. /\ At(w, "receive") /\ UNCHANGED <<memory, mutex, acked, bounds>>
      /\ data' = data /\ disk' \in {disk, data} /\ (~Stored => disk' = disk)
  BY DEF Call, Publish, store
<1>2. PICK reply \in Replies \ {"told"} : Answer(w, reply)
  BY DEF Call, Replies
<1>3. TypeOK /\ work[w] # None
  BY <1>1, AtFacts DEF Pc
<1>4. /\ work' \in [Workers -> Work \cup {None}]
      /\ locks' \in [Ids -> Workers \cup {None}]
      /\ \A v \in Workers \ {w} : work'[v] = work[v]
      /\ \A v \in Workers \ {w} : \A t \in Ids : locks[t] = v => locks'[t] = v
      /\ ~Busy(w)' /\ WorkerInv(w)'
  BY <1>2, <1>3, Answered DEF WorkerInv
<1>5. TypeOK' /\ OnceInv'
  BY <1>1, <1>3, <1>4 DEF SessionInv, TypeOK, OnceInv, memory, bounds
<1>6. AgreeInv' /\ AckedIsDurable'
  BY <1>1 DEF SessionInv, AgreeInv, AckedIsDurable, memory
<1>7. OpenInv'
  BY <1>4, OpenStays
<1>8. \A v \in Workers \ {w} : Past(v) => OnlyEvicts(work[v].id)
  BY <1>1 DEF OnlyEvicts, memory
<1>9. \A v \in Workers \ {w} : At(v, "evicting") =>
        mutex' = v /\ \A t \in Ids : channels[t] = None => channels'[t] = None
  BY <1>1 DEF SessionInv, WorkerInv, LockPart, At, Busy, Pc, memory
<1>10. QED
  BY <1>4, <1>5, <1>6, <1>7, <1>8, <1>9, StepOf

-----------------------------------------------------------------------------
(***************************************************************************)
(* Deletion, and the end of the process.                                   *)
(***************************************************************************)

LEMMA Popped ==
  ASSUME SessionInv, NEW w \in Workers, Pop(w)
  PROVE  SessionInv'
<1> DEFINE s == work[w].id
<1>1. /\ At(w, "popping") /\ mutex = None /\ Drop(s)
      /\ UNCHANGED <<store, mutex, bounds>>
  BY DEF Pop
<1>2. /\ TypeOK /\ LockPart(w) /\ work[w] # None /\ s \in Ids /\ Past(w)
      /\ work[w].kind # "open" /\ Busy(w)
  BY <1>1, AtFacts DEF Pc, Inserting
<1>3. /\ table' \in Seq(Ids) /\ Len(table') <= MaxSessions /\ OnceInv'
      /\ channels' \in [Ids -> Channel \cup {None}]
      /\ owners' \in [Ids -> Principals \cup {None}]
      /\ \A t \in Ids : channels'[t] # None <=> t \in ToSet(table')
      /\ \A t \in Ids : channels'[t] = IF t = s THEN None ELSE channels[t]
      /\ \A t \in Ids : owners'[t] = IF t = s THEN None ELSE owners[t]
  BY <1>1, <1>2, DropFacts DEF SessionInv
<1>4. /\ work' \in [Workers -> Work \cup {None}]
      /\ locks' \in [Ids -> Workers \cup {None}]
      /\ \A v \in Workers \ {w} : work'[v] = work[v]
      /\ \A v \in Workers \ {w} : \A t \in Ids : locks[t] = v => locks'[t] = v
      /\ Busy(w)' => Busy(w) /\ work'[w].id = s /\ work'[w].kind = work[w].kind
      /\ WorkerInv(w)'
  <2>1. CASE Stored
    <3>1. Goto(w, "removing") /\ UNCHANGED locks
      BY <2>1 DEF Pop
    <3>2. /\ work' \in [Workers -> Work \cup {None}]
          /\ work'[w] # None /\ work'[w].pc = "removing"
          /\ work'[w].kind = work[w].kind /\ work'[w].id = s
          /\ work'[w].by = work[w].by
          /\ \A v \in Workers \ {w} : work'[v] = work[v]
      BY <1>2, <3>1, Moved DEF Pc
    <3>3. LockPart(w)'
      BY <1>2, <3>1, <3>2 DEF LockPart, Past
    <3>4. OwnerPart(w)' /\ PlanPart(w)'
      BY <1>1, <1>2, <2>1, <3>2
      DEF SessionInv, WorkerInv, At, store, OwnerPart, PlanPart, Serving, Carrying, Ending
    <3>5. QED
      BY <1>2, <3>1, <3>2, <3>3, <3>4 DEF WorkerInv, TypeOK
  <2>2. CASE ~Stored
    <3>1. PICK reply \in {"deleted", "absent"} : Answer(w, reply)
      BY <2>2 DEF Pop
    <3>2. QED
      BY <1>2, <3>1, Answered DEF WorkerInv, Replies
  <2>3. QED
    BY <2>1, <2>2
<1>5. /\ acked' \in [Ids -> Entry \cup {None}]
      /\ \A t \in Ids \ {s} : acked'[t] = acked[t]
      /\ (Stored => acked' = acked)
  BY <1>2, StoredAssumption DEF Pop, TypeOK
<1>6. TypeOK'
  BY <1>1, <1>2, <1>3, <1>4, <1>5 DEF TypeOK, store, bounds
<1>7. AckedIsDurable'
  BY <1>1, <1>5 DEF SessionInv, AckedIsDurable, store
<1>8. AgreeInv'
  BY <1>1, <1>3, <1>5 DEF SessionInv, AgreeInv, store
<1>9. OpenInv'
  BY <1>4, OpenStays
<1>10. \A v \in Workers \ {w} : Past(v) => OnlyEvicts(work[v].id)
  <2>1. \A t \in Ids \ {s} : OnlyEvicts(t)
    BY <1>1, <1>3, <1>5 DEF OnlyEvicts, store
  <2>2. QED
    BY <1>2, <2>1, AtItsOwn
<1>11. \A v \in Workers \ {w} : ~At(v, "evicting")
  BY <1>1, NobodyEvicts
<1>12. QED
  BY <1>3, <1>4, <1>6, <1>7, <1>8, <1>9, <1>10, <1>11, StepOf

LEMMA Removed ==
  ASSUME SessionInv, NEW w \in Workers, RemoveStored(w)
  PROVE  SessionInv'
<1> DEFINE s == work[w].id
<1>1. At(w, "removing") /\ UNCHANGED <<memory, mutex, bounds>>
  BY DEF RemoveStored
<1>2. /\ TypeOK /\ PlanPart(w) /\ work[w] # None /\ s \in Ids /\ Past(w)
      /\ work[w].pc = "removing"
  BY <1>1, AtFacts DEF Pc, Inserting
<1>3. PICK reply \in Replies \ {"told"} : Answer(w, reply)
  BY DEF RemoveStored, Replies
<1>4. Stored
  BY <1>2 DEF PlanPart
<1>5. /\ data' \in [Ids -> Entry \cup {None}] /\ disk' \in [Ids -> Entry \cup {None}]
      /\ acked' \in [Ids -> Entry \cup {None}]
      /\ \A t \in Ids \ {s} : data'[t] = data[t] /\ acked'[t] = acked[t]
      /\ \A t \in Ids \ {s} : disk'[t] \in {disk[t], data[t]}
      /\ data'[s] \in {None, data[s]} /\ acked'[s] \in {None, acked[s]}
      /\ acked'[s] # None => data'[s] = data[s] /\ disk'[s] = disk[s]
  <2>1. CASE data[s] = None /\ UNCHANGED <<store, acked>>
    BY <1>2, <2>1 DEF TypeOK, store
  <2>2. ASSUME NEW outcome \in Commits, Publish([data EXCEPT ![s] = None], outcome),
               acked' = [acked EXCEPT ![s] = IF outcome = "unwritten" THEN @ ELSE None]
        PROVE  <1>5!:
    <3>1. /\ data' \in [Ids -> Entry \cup {None}] /\ disk' \in [Ids -> Entry \cup {None}]
          /\ \A t \in Ids \ {s} : data'[t] = data[t]
          /\ \A t \in Ids \ {s} : disk'[t] \in {disk[t], data[t]}
          /\ data'[s] \in {None, data[s]}
          /\ outcome = "unwritten" => data' = data /\ disk' = disk
      BY <1>2, <2>2, Published
    <3>2. /\ acked' \in [Ids -> Entry \cup {None}]
          /\ \A t \in Ids \ {s} : acked'[t] = acked[t]
          /\ acked'[s] \in {None, acked[s]}
          /\ outcome # "unwritten" => acked'[s] = None
      BY <1>2, <2>2 DEF TypeOK
    <3>3. QED
      BY <3>1, <3>2
  <2>3. QED
    BY <2>1, <2>2 DEF RemoveStored
<1>6. /\ work' \in [Workers -> Work \cup {None}]
      /\ locks' \in [Ids -> Workers \cup {None}]
      /\ \A v \in Workers \ {w} : work'[v] = work[v]
      /\ \A v \in Workers \ {w} : \A t \in Ids : locks[t] = v => locks'[t] = v
      /\ ~Busy(w)' /\ WorkerInv(w)'
  BY <1>2, <1>3, Answered DEF WorkerInv
<1>7. TypeOK' /\ OnceInv'
  BY <1>1, <1>2, <1>5, <1>6 DEF SessionInv, TypeOK, OnceInv, memory, bounds
<1>8. AckedIsDurable'
  BY <1>2, <1>5 DEF SessionInv, AckedIsDurable
<1>9. AgreeInv'
  BY <1>1, <1>2, <1>4, <1>5 DEF SessionInv, AgreeInv, memory
<1>10. OpenInv'
  BY <1>6, OpenStays
<1>11. \A v \in Workers \ {w} : Past(v) => OnlyEvicts(work[v].id)
  <2>1. \A t \in Ids \ {s} : OnlyEvicts(t)
    BY <1>1, <1>5 DEF OnlyEvicts, memory
  <2>2. QED
    BY <1>2, <2>1, AtItsOwn
<1>12. \A v \in Workers \ {w} : At(v, "evicting") =>
         mutex' = v /\ \A t \in Ids : channels[t] = None => channels'[t] = None
  BY <1>1 DEF SessionInv, WorkerInv, LockPart, At, Busy, Pc, memory
<1>13. QED
  BY <1>6, <1>7, <1>8, <1>9, <1>10, <1>11, <1>12, StepOf

\* A request comes to an idle worker.
LEMMA Arrived ==
  ASSUME SessionInv, NEW w \in Workers, NEW r \in Work, Arrives(w, r),
         r.pc \in {"locking", "adding"},
         \A v \in Workers \ {w} : Busy(v) =>
           /\ work[v].kind = "open" => work[v].id # r.id
           /\ r.kind = "open" => work[v].id # r.id,
         r.pc = "locking" => r.kind # "open",
         r.pc = "adding" =>
           /\ r.kind = "open" /\ Unused(r.id)
           /\ r.channel # None /\ r.channel.by = r.by
           /\ Stored => acked[r.id] = None
  PROVE  SessionInv'
<1>1. /\ ~Busy(w) /\ requests < MaxRequests /\ requests' = requests + 1
      /\ work' = [work EXCEPT ![w] = r]
      /\ UNCHANGED <<memory, store, locks, mutex, acked, crashes>>
  BY DEF Arrives
<1>2. /\ work' \in [Workers -> Work \cup {None}] /\ work'[w] = r /\ r # None
      /\ \A v \in Workers \ {w} : work'[v] = work[v]
  BY <1>1, NoneAssumption DEF SessionInv, TypeOK
<1>3. requests' \in 0 .. MaxRequests
  BY <1>1, BoundsAssumption DEF SessionInv, TypeOK
<1>4. TypeOK'
  BY <1>1, <1>2, <1>3 DEF SessionInv, TypeOK, memory, store
<1>5. OnceInv' /\ AgreeInv' /\ AckedIsDurable'
  BY <1>1 DEF SessionInv, OnceInv, AgreeInv, AckedIsDurable, memory, store
<1>6. OpenInv'
  <2>1. \A v \in Workers \ {w} : Busy(v)' => Busy(v) /\ work'[v] = work[v]
    BY <1>2 DEF Busy
  <2>2. QED
    BY <1>2, <2>1 DEF SessionInv, OpenInv
<1>7. WorkerInv(w)'
  <2>1. LockPart(w)'
    BY <1>2 DEF LockPart, Inserting
  <2>2. OwnerPart(w)'
    BY <1>1, <1>2 DEF OwnerPart, Serving, Carrying, Ending, Unused, memory, store
  <2>3. PlanPart(w)'
    BY <1>1, <1>2 DEF PlanPart, Ending
  <2>4. QED
    BY <2>1, <2>2, <2>3 DEF WorkerInv
<1>8. \A v \in Workers \ {w} : Past(v) => OnlyEvicts(work[v].id)
  BY <1>1 DEF OnlyEvicts, memory, store
<1>9. \A v \in Workers \ {w} : At(v, "evicting") =>
        mutex' = v /\ \A t \in Ids : channels[t] = None => channels'[t] = None
  BY <1>1 DEF SessionInv, WorkerInv, LockPart, At, Busy, Pc, memory
<1>10. QED
  BY <1>1, <1>2, <1>4, <1>5, <1>6, <1>7, <1>8, <1>9, StepOf

LEMMA Opened ==
  ASSUME SessionInv, NEW w \in Workers, NEW s \in Ids, NEW p \in Principals, Open(w, s, p)
  PROVE  SessionInv'
<1>1. PICK c \in Channel : c = [by |-> p, plan |-> Fresh]
  BY DEF Channel
<1>2. PICK r \in Work :
        r = [pc |-> "adding", kind |-> "open", id |-> s, by |-> p,
             victim |-> None, channel |-> c]
  BY DEF Work, Pc
<1>3. Unused(s) /\ ~Handling(s) /\ Arrives(w, r)
  BY <1>1, <1>2 DEF Open
<1>4. Stored => acked[s] = None
  BY <1>3 DEF SessionInv, AckedIsDurable, Unused
<1>5. \A v \in Workers : Busy(v) => work[v].id # s
  BY <1>3 DEF Handling, Busy
<1>6. c # None /\ c.by = p
  BY <1>1, NoneAssumption
<1>7. QED
  BY <1>2, <1>3, <1>4, <1>5, <1>6, Arrived

LEMMA Messaged ==
  ASSUME SessionInv, NEW w \in Workers, NEW s \in Ids, NEW p \in Principals,
         NEW kind \in {"prompt", "call", "delete", "status"}, Message(w, kind, s, p)
  PROVE  SessionInv'
<1>1. PICK r \in Work :
        r = [pc |-> "locking", kind |-> kind, id |-> s, by |-> p,
             victim |-> None, channel |-> None]
  BY DEF Work, Pc
<1>2. /\ Arrives(w, r)
      /\ \A v \in Workers : Busy(v) /\ work[v].kind = "open" => work[v].id # s
  BY <1>1 DEF Message
<1>3. QED
  BY <1>1, <1>2, Arrived

\* A crash leaves the disk, and with a store nothing acknowledged is lost.
LEMMA Crashed ==
  ASSUME SessionInv, Crash
  PROVE  SessionInv'
<1>1. /\ table' = <<>> /\ DOMAIN table' = {} /\ ToSet(table') = {} /\ Len(table') = 0
      /\ crashes < MaxCrashes /\ crashes' = crashes + 1
      /\ channels' = Nothing /\ owners' = Nothing /\ data' = disk
      /\ locks' = Nothing /\ mutex' = None /\ work' = [w \in Workers |-> None]
      /\ acked' = (IF Stored THEN acked ELSE Nothing)
      /\ UNCHANGED <<disk, requests>>
  BY DEF Crash, ToSet
<1>2. TypeOK'
  BY <1>1, BoundsAssumption DEF SessionInv, TypeOK, Nothing
<1>3. OnceInv'
  BY <1>1 DEF OnceInv
<1>4. AgreeInv' /\ AckedIsDurable'
  BY <1>1 DEF SessionInv, AgreeInv, AckedIsDurable, Nothing
<1>5. OpenInv' /\ \A w \in Workers : WorkerInv(w)'
  BY <1>1 DEF OpenInv, WorkerInv, LockPart, OwnerPart, PlanPart, Busy
<1>6. QED
  BY <1>2, <1>3, <1>4, <1>5 DEF SessionInv

LEMMA SessionNext == SessionInv /\ [Next]_vars => SessionInv'
<1> SUFFICES ASSUME SessionInv, [Next]_vars PROVE SessionInv'
  OBVIOUS
<1>1. ASSUME NEW w \in Workers, Handles(w)
      PROVE  SessionInv'
  BY <1>1, LockTaken, LookedUp, OwnerChecked, OwnerSought, OwnerFound, ChannelMade,
     Evicted, OwnerEvicted, Inserted, PromptTakenBefore, PromptTurnedDown, PromptTaken,
     Recorded, Called, Popped, Removed, Peeked, Informed
  DEF Handles
<1>2. ASSUME NEW w \in Workers, NEW s \in Ids, NEW p \in Principals,
             \/ Open(w, s, p)
             \/ \E kind \in {"prompt", "call", "delete", "status"} : Message(w, kind, s, p)
      PROVE  SessionInv'
  BY <1>2, Opened, Messaged
<1>3. CASE Crash
  BY <1>3, Crashed
<1>4. CASE UNCHANGED vars
  <2>1. TypeOK' /\ OnceInv' /\ AgreeInv' /\ AckedIsDurable'
    BY <1>4 DEF SessionInv, TypeOK, OnceInv, AgreeInv, AckedIsDurable,
                vars, memory, store, bounds
  <2>2. OpenInv' /\ \A w \in Workers : WorkerInv(w)'
    BY <1>4 DEF SessionInv, OpenInv, WorkerInv, LockPart, OwnerPart, PlanPart, Busy,
                vars, memory, store
  <2>3. QED
    BY <2>1, <2>2 DEF SessionInv
<1>5. QED
  BY <1>1, <1>2, <1>3, <1>4 DEF Next

-----------------------------------------------------------------------------
(***************************************************************************)
(* What the daemon promises, for any number of sessions, callers, threads, *)
(* requests and crashes.                                                   *)
(***************************************************************************)

\* The session table is in order in every reachable state: what the table,
\* the store and every request in flight say of a session agrees.
THEOREM SessionTableInvariant == Spec => []SessionInv
<1>1. Init => SessionInv
  BY SessionInit
<1>2. SessionInv /\ [Next]_vars => SessionInv'
  BY SessionNext
<1>3. QED
  BY <1>1, <1>2, PTL DEF Spec

\* The table keeps its bound and its ids, whoever evicts, adds or deletes.
THEOREM SessionTypes == Spec => []TypeOK
<1>1. SessionInv => TypeOK
  BY DEF SessionInv
<1>2. QED
  BY <1>1, SessionTableInvariant, PTL

\* No interleaving of evictions, deletions and restarts serves a principal by
\* the plan of another, or tells it of another's session (http_server.py).
THEOREM OwnersOnly == Spec => []OnlyTheOwner
<1>1. SessionInv => OnlyTheOwner
  BY DEF SessionInv, WorkerInv, OwnerPart, Carrying, OnlyTheOwner
<1>2. QED
  BY <1>1, SessionTableInvariant, PTL

\* An accepted plan is in the store and on the disk until its owner deletes
\* it, through every failed write and crash (session_store.py).
THEOREM DurableAcknowledgement == Spec => []AckedIsDurable
<1>1. SessionInv => AckedIsDurable
  BY DEF SessionInv
<1>2. QED
  BY <1>1, SessionTableInvariant, PTL

\* Only a call is served, and only a prompt is accepted.
LEMMA Verdicts ==
  ASSUME SessionInv, NEW v \in Workers, Handles(v)
  PROVE  /\ \A w \in Workers \ {v} : work'[w] = work[w]
         /\ work'[v].pc \in {"served", "accepted"} =>
              PromptAccepted(v) \/ Record(v) \/ Call(v)
<1>1. TypeOK
  BY DEF SessionInv
<1>2. ASSUME NEW pc \in (Pc \cup Replies) \ {"served", "accepted"}, work[v] # None,
             Goto(v, pc)
      PROVE  /\ \A w \in Workers \ {v} : work'[w] = work[w]
             /\ work'[v].pc \notin {"served", "accepted"}
  BY <1>1, <1>2, Moved
<1>3. CASE TakeLock(v) \/ PromptAgain(v) \/ PromptRefused(v) \/ Tell(v) \/ Pop(v)
           \/ RemoveStored(v)
  <2>1. work[v] # None
    BY <1>3 DEF TakeLock, PromptAgain, PromptRefused, Tell, Pop, RemoveStored, At
  <2>2. \E pc \in {"whose", "peek", "lookup", "error", "told", "absent", "removing",
                   "deleted", "dropped"} : Goto(v, pc)
    BY <1>3 DEF TakeLock, PromptAgain, PromptRefused, Tell, Pop, RemoveStored, Answer
  <2>3. QED
    BY <1>2, <2>1, <2>2 DEF Pc, Replies
<1>4. CASE CheckOwner(v) \/ Whose(v) \/ Index(v)
  <2>1. work[v] # None
    BY <1>4 DEF CheckOwner, Whose, Index, At
  <2>2. \E pc \in {"receive", "forbidden", "index", "dropped", "restore", "popping",
                   "absent"} : Goto(v, pc)
    BY <1>4 DEF CheckOwner, Whose, Index, AsOwner, Answer
  <2>3. QED
    BY <1>2, <2>1, <2>2 DEF Pc, Replies
<1>5. CASE Lookup(v) \/ Peek(v) \/ Restore(v) \/ Evict(v) \/ EvictOwner(v) \/ Insert(v)
  <2>1. work[v] # None /\ work[v] \in Work
    BY <1>1, <1>5 DEF Lookup, Peek, Restore, Evict, EvictOwner, Insert, At, TypeOK
  <2>2. CASE Lookup(v)
    BY <1>1, <2>1, <2>2 DEF Lookup, TypeOK, Work
  <2>3. CASE Peek(v)
    <3>1. CASE Answer(v, "absent")
      BY <1>2, <2>1, <3>1 DEF Answer, Replies
    <3>2. CASE ~Answer(v, "absent")
      BY <1>1, <2>1, <2>3, <3>2 DEF Peek, TypeOK, Work
    <3>3. QED
      BY <3>1, <3>2
  <2>4. CASE Restore(v)
    <3>1. CASE Answer(v, "unrestorable")
      BY <1>2, <2>1, <3>1 DEF Answer, Replies
    <3>2. CASE ~Answer(v, "unrestorable")
      <4>1. PICK c : work' = [work EXCEPT ![v].pc = "adding", ![v].channel = c]
        BY <2>4, <3>2 DEF Restore
      <4>2. QED
        BY <1>1, <2>1, <4>1 DEF TypeOK, Work
    <3>3. QED
      BY <3>1, <3>2
  <2>5. CASE Evict(v)
    BY <1>1, <2>1, <2>5 DEF Evict, TypeOK, Work
  <2>6. CASE EvictOwner(v)
    BY <1>1, <2>1, <2>6 DEF EvictOwner, TypeOK, Work
  <2>7. CASE Insert(v)
    <3>1. \E pc \in {"opened", "receive"} : Goto(v, pc)
      BY <2>7 DEF Insert, Answer
    <3>2. QED
      BY <1>2, <2>1, <3>1 DEF Pc, Replies
  <2>8. QED
    BY <1>5, <2>2, <2>3, <2>4, <2>5, <2>6, <2>7
<1>6. CASE PromptAccepted(v) \/ Record(v) \/ Call(v)
  <2>1. work[v] # None /\ work[v] \in Work
    BY <1>1, <1>6 DEF PromptAccepted, Record, Call, At, TypeOK
  <2>2. \A w \in Workers \ {v} : work'[w] = work[w]
    BY <1>1, <1>6 DEF PromptAccepted, Record, Call, Answer, Goto, TypeOK
  <2>3. QED
    BY <1>6, <2>2
<1>7. QED
  BY <1>3, <1>4, <1>5, <1>6 DEF Handles

\* A session goes on under the plan its owner was told of, for its owner, and
\* takes no second one: through evictions, restores, deletions and crashes,
\* with every planner that may plan differently the next time.
THEOREM PlanKept == Spec => PlanOnce
<1> DEFINE Kept(w) ==
             LET s == work[w].id IN
             /\ Stored /\ Ends(w, "served") /\ acked[s] # None =>
                  acked[s] = [by |-> work[w].by, plan |-> work[w].channel.plan]
             /\ Stored /\ Ends(w, "accepted") => acked[s] = None
<1>1. SessionInv /\ [Next]_vars => [\A w \in Workers : Kept(w)]_vars
  <2> SUFFICES ASSUME SessionInv, Next, NEW w \in Workers, Stored,
                      NEW reply \in {"served", "accepted"}, Ends(w, reply)
               PROVE  IF reply = "served"
                        THEN acked[work[w].id] # None =>
                               acked[work[w].id] =
                                 [by |-> work[w].by, plan |-> work[w].channel.plan]
                        ELSE acked[work[w].id] = None
    OBVIOUS
  <2>1. TypeOK /\ work'[w] # None /\ work'[w].pc = reply /\ ~At(w, reply)
    BY DEF SessionInv, Ends
  <2>2. PICK v \in Workers :
          \/ Handles(v)
          \/ \E s \in Ids, p \in Principals :
               \/ Open(v, s, p)
               \/ \E kind \in {"prompt", "call", "delete", "status"} : Message(v, kind, s, p)
    BY <2>1 DEF Next, Crash
  <2>3. work'[w] # work[w]
    BY <2>1 DEF At
  <2>4. Handles(v)
    <3>1. ASSUME NEW s \in Ids, NEW p \in Principals,
                 \/ Open(v, s, p)
                 \/ \E kind \in {"prompt", "call", "delete", "status"} : Message(v, kind, s, p)
          PROVE  FALSE
      <4>1. ASSUME NEW r, Arrives(v, r)
            PROVE  work' = [work EXCEPT ![v] = r]
        BY <4>1 DEF Arrives
      <4>2. PICK r : work' = [work EXCEPT ![v] = r] /\ r.pc \in {"adding", "locking"}
        <5>1. CASE Open(v, s, p)
          <6> DEFINE q == [pc |-> "adding", kind |-> "open", id |-> s, by |-> p,
                           victim |-> None, channel |-> [by |-> p, plan |-> Fresh]]
          <6>1. Arrives(v, q) /\ q.pc = "adding"
            BY <5>1 DEF Open
          <6> HIDE DEF q
          <6>2. QED
            BY <4>1, <6>1
        <5>2. ASSUME NEW kind \in {"prompt", "call", "delete", "status"},
                     Message(v, kind, s, p)
              PROVE  \E r : work' = [work EXCEPT ![v] = r]
                           /\ r.pc \in {"adding", "locking"}
          <6> DEFINE q == [pc |-> "locking", kind |-> kind, id |-> s, by |-> p,
                           victim |-> None, channel |-> None]
          <6>1. Arrives(v, q) /\ q.pc = "locking"
            BY <5>2 DEF Message
          <6> HIDE DEF q
          <6>2. QED
            BY <4>1, <6>1
        <5>3. QED
          BY <3>1, <5>1, <5>2
      <4>3. QED
        BY <2>1, <2>3, <4>2 DEF TypeOK
    <3>2. QED
      BY <2>2, <3>1
  <2>5. v = w /\ (PromptAccepted(w) \/ Record(w) \/ Call(w))
    BY <2>1, <2>3, <2>4, Verdicts
  <2>6. PlanPart(w) /\ OwnerPart(w) /\ work[w] # None /\ work[w].id \in Ids
        /\ work[w] \in Work
    BY <2>1, <2>5 DEF SessionInv, WorkerInv, PromptAccepted, Record, Call, At, TypeOK, Work
  <2>7. CASE PromptAccepted(w)
    BY <2>1, <2>6, <2>7 DEF PromptAccepted, TypeOK, Work
  <2>8. CASE Record(w)
    <3>1. acked[work[w].id] = None
      BY <2>6, <2>8 DEF Record, At, PlanPart
    <3>2. QED
      BY <3>1
  <2>9. CASE Call(w)
    <3>1. PICK answer \in {"served", "error"} : Answer(w, answer)
      BY <2>9 DEF Call
    <3>2. work'[w].pc = answer
      BY <2>1, <2>6, <3>1, Answered DEF Replies
    <3>3. reply = "served"
      BY <2>1, <3>1, <3>2
    <3>4. acked[work[w].id] # None =>
            /\ work[w].channel = acked[work[w].id] /\ acked[work[w].id] \in Entry
            /\ work[w].channel.by = work[w].by
      BY <2>1, <2>6, <2>9 DEF Call, At, PlanPart, OwnerPart, Carrying, TypeOK
    <3>5. QED
      BY <3>3, <3>4 DEF Entry
  <2>10. QED
    BY <2>5, <2>7, <2>8, <2>9
<1>2. QED
  BY <1>1, SessionTableInvariant, PTL DEF Spec, PlanOnce

-----------------------------------------------------------------------------
(***************************************************************************)
(* A session as a register: every request is answered in one step that     *)
(* does to the acknowledged plan what the register does to its entry.      *)
(***************************************************************************)

Known == [w \in Workers |-> Seen(w)]

\* What a client sees is settled by its own worker.
LEMMA OneIsSeen ==
  ASSUME TypeOK, NEW w \in Workers, \A v \in Workers \ {w} : work'[v] = work[v]
  PROVE  Known' = [Known EXCEPT ![w] = Seen(w)']
<1>1. \A v \in Workers \ {w} : Seen(v)' = Seen(v)
  BY DEF Seen
<1>2. QED
  BY <1>1 DEF Known

\* A request that goes on is still pending to its client.
LEMMA StaysPending ==
  ASSUME TypeOK, NEW w \in Workers, Busy(w), Busy(w)', acked' = acked,
         \A v \in Workers \ {w} : work'[v] = work[v],
         work'[w].kind = work[w].kind, work'[w].id = work[w].id,
         work'[w].by = work[w].by
  PROVE  UNCHANGED Register!vars
<1>1. \A pc \in Pc : pc \notin Shows
  BY DEF Pc, Shows
<1>2. Seen(w)' = Seen(w)
  BY <1>1 DEF Seen, Busy
<1>3. Known' = Known
  BY <1>2, OneIsSeen DEF Known
<1>4. QED
  BY <1>3 DEF Register!vars, Known

\* A request that is answered has its reply, and is shown what it was served by.
LEMMA Replied ==
  ASSUME TypeOK, NEW w \in Workers, Busy(w), NEW reply \in Replies, Answer(w, reply)
  PROVE  /\ Register!Pending(w) /\ ~Register!Pending(w)'
         /\ Known[w].kind = work[w].kind /\ Known[w].id = work[w].id
         /\ Known[w].by = work[w].by
         /\ Register!Reply(w, work[w].kind, reply,
                           IF reply \in Shows THEN work[w].channel ELSE None)
<1> DEFINE shown == IF reply \in Shows THEN work[w].channel ELSE None
<1>1. /\ work[w] # None /\ reply \notin Pc /\ work[w].pc \in Pc /\ work[w].pc \notin Shows
  BY DEF Busy, Replies, Pc, Shows
<1>2. /\ work'[w] # None /\ work'[w].pc = reply
      /\ work'[w].kind = work[w].kind /\ work'[w].id = work[w].id
      /\ work'[w].by = work[w].by /\ work'[w].channel = work[w].channel
      /\ \A v \in Workers \ {w} : work'[v] = work[v]
  BY <1>1, Answered
<1>3. Known[w] = [kind |-> work[w].kind, id |-> work[w].id, by |-> work[w].by,
                  reply |-> "pending", shown |-> None]
  BY <1>1 DEF Known, Seen
<1>4. Seen(w)' = [kind |-> work[w].kind, id |-> work[w].id, by |-> work[w].by,
                  reply |-> reply, shown |-> shown]
  BY <1>1, <1>2 DEF Seen
<1> HIDE DEF shown
<1>5. Known' = [Known EXCEPT ![w] = Seen(w)']
  BY <1>2, OneIsSeen
<1>6. Seen(w)' = [kind |-> work[w].kind, id |-> Known[w].id, by |-> Known[w].by,
                  reply |-> reply, shown |-> shown]
  BY <1>3, <1>4
<1>7. Register!Pending(w)
  BY <1>3 DEF Register!Pending, Known
<1>8. Register!Reply(w, work[w].kind, reply, shown)
  BY <1>3, <1>5, <1>6 DEF Register!Reply, Known
<1>9. ~Register!Pending(w)'
  <2>1. reply # "pending"
    BY DEF Replies
  <2>2. QED
    BY <1>4, <2>1 DEF Register!Pending
<1>10. QED
  BY <1>3, <1>7, <1>8, <1>9 DEF shown

Follows == Register!Next \/ UNCHANGED Register!vars

\* The answers of the register are steps of it.
LEMMA AnswerFollows ==
  ASSUME NEW w \in Workers, Register!Pending(w), ~Register!Pending(w)',
         \/ Register!Accept(w) \/ Register!Show(w)
         \/ Register!Delete(w) \/ Register!Refuse(w)
  PROVE  Follows
BY DEF Follows, Register!Next, Register!Answer

LEMMA OnTheWay ==
  ASSUME TypeOK, NEW w \in Workers, Busy(w), acked' = acked,
         NEW pc \in Pc, Goto(w, pc)
  PROVE  Follows
<1>1. work[w] # None
  BY DEF Busy
<1>2. /\ work'[w] # None /\ work'[w].pc = pc
      /\ work'[w].kind = work[w].kind /\ work'[w].id = work[w].id
      /\ work'[w].by = work[w].by
      /\ \A v \in Workers \ {w} : work'[v] = work[v]
  BY <1>1, Moved
<1>3. QED
  BY <1>2, StaysPending DEF Busy, Follows

LEMMA OnTheWayWith ==
  ASSUME TypeOK, NEW w \in Workers, Busy(w), acked' = acked,
         NEW pc \in Pc, NEW c \in Channel \cup {None}, Takes(w, pc, c)
  PROVE  Follows
<1>1. work[w] # None
  BY DEF Busy
<1>2. /\ work'[w] # None /\ work'[w].pc = pc
      /\ work'[w].kind = work[w].kind /\ work'[w].id = work[w].id
      /\ work'[w].by = work[w].by
      /\ \A v \in Workers \ {w} : work'[v] = work[v]
  BY <1>1, Carried
<1>3. QED
  BY <1>2, StaysPending DEF Busy, Follows

LEMMA TurnedAway ==
  ASSUME TypeOK, NEW w \in Workers, Busy(w), acked' = acked,
         NEW reply \in {"error", "forbidden", "absent", "unrestorable", "unrecorded",
                        "dropped"},
         Answer(w, reply)
  PROVE  Follows
<1>1. reply \in Replies /\ reply \notin Shows /\ reply \in Register!Refusals
  BY DEF Replies, Shows, Register!Refusals
<1>2. /\ Register!Pending(w) /\ ~Register!Pending(w)' /\ Known[w].kind = work[w].kind
      /\ Register!Reply(w, work[w].kind, reply, None)
  BY <1>1, Replied
<1>3. Register!Refuse(w)
  BY <1>1, <1>2 DEF Register!Refuse, Known
<1>4. QED
  BY <1>2, <1>3, AnswerFollows

\* Looking a session up, and making room for it, tells its client nothing.
LEMMA SearchMaps ==
  ASSUME SessionInv, NEW w \in Workers,
         \/ TakeLock(w) \/ Lookup(w) \/ CheckOwner(w) \/ Peek(w)
         \/ Whose(w) \/ Index(w) \/ Restore(w)
  PROVE  Follows
<1>1. PICK pc \in {"locking", "lookup", "owner", "peek", "whose", "index", "restore"} :
        At(w, pc)
  BY DEF TakeLock, Lookup, CheckOwner, Peek, Whose, Index, Restore
<1>2. /\ TypeOK /\ Busy(w) /\ work[w] # None /\ work[w] \in Work
      /\ work[w].id \in Ids /\ work[w].by \in Principals /\ acked' = acked
      /\ channels[work[w].id] \in Channel \cup {None}
  BY <1>1, AtFacts DEF Pc, TypeOK, TakeLock, Lookup, CheckOwner, Peek, Whose, Index,
                       Restore
<1>3. ASSUME NEW q \in {"whose", "peek", "lookup", "receive", "index", "restore", "popping"},
             Goto(w, q)
      PROVE  Follows
  BY <1>2, <1>3, OnTheWay DEF Pc
<1>4. ASSUME NEW q \in {"forbidden", "absent", "dropped", "unrestorable"}, Answer(w, q)
      PROVE  Follows
  BY <1>2, <1>4, TurnedAway
<1>5. ASSUME NEW q \in {"whose", "owner", "telling", "adding"},
             NEW c \in Channel \cup {None}, Takes(w, q, c)
      PROVE  Follows
  BY <1>2, <1>5, OnTheWayWith DEF Pc
<1>6. CASE TakeLock(w) \/ CheckOwner(w)
  BY <1>3, <1>4, <1>6 DEF TakeLock, CheckOwner
<1>7. CASE Whose(w) \/ Index(w)
  BY <1>3, <1>4, <1>7 DEF Whose, Index, AsOwner
<1>8. CASE Lookup(w)
  <2>1. PICK q \in {"whose", "owner"} :
          work' = [work EXCEPT ![w].channel = channels[work[w].id], ![w].pc = q]
    BY <1>8 DEF Lookup
  <2>2. Takes(w, q, channels[work[w].id])
    BY <1>2, <2>1 DEF Takes, TypeOK, Work
  <2>3. QED
    BY <1>2, <1>5, <2>2
<1>9. CASE Peek(w)
  <2>1. CASE channels[work[w].id] = None
    BY <1>4, <1>9, <2>1 DEF Peek
  <2>2. CASE channels[work[w].id] # None
    <3>1. work' = [work EXCEPT ![w].channel = channels[work[w].id], ![w].pc = "telling"]
      BY <1>9, <2>2 DEF Peek
    <3>2. Takes(w, "telling", channels[work[w].id])
      BY <1>2, <3>1 DEF Takes, TypeOK, Work
    <3>3. QED
      BY <1>2, <1>5, <3>2
  <2>3. QED
    BY <2>1, <2>2
<1>10. CASE Restore(w)
  <2>1. CASE Answer(w, "unrestorable")
    BY <1>4, <2>1
  <2>2. CASE ~Answer(w, "unrestorable")
    <3>1. PICK c \in Channel :
            work' = [work EXCEPT ![w].pc = "adding", ![w].channel = c]
      <4>1. CASE OwnerInStore(work[w].id) = None
        <5>1. [by |-> work[w].by, plan |-> Fresh] \in Channel
          BY <1>2 DEF Channel
        <5>2. QED
          BY <1>10, <2>2, <4>1, <5>1 DEF Restore
      <4>2. CASE OwnerInStore(work[w].id) # None
        <5>1. data[work[w].id] # None /\ data[work[w].id].by \in Principals
          BY <1>2, <4>2 DEF OwnerInStore, TypeOK, Entry
        <5>2. PICK plan \in Plans :
                work' = [work EXCEPT ![w].pc = "adding",
                           ![w].channel = [by |-> data[work[w].id].by, plan |-> plan]]
          BY <1>10, <2>2, <4>2 DEF Restore
        <5>3. [by |-> data[work[w].id].by, plan |-> plan] \in Channel
          BY <5>1 DEF Channel
        <5>4. QED
          BY <5>2, <5>3
      <4>3. QED
        BY <4>1, <4>2
    <3>2. Takes(w, "adding", c)
      BY <1>2, <3>1 DEF Takes, TypeOK, Work
    <3>3. QED
      BY <1>5, <3>2
  <2>3. QED
    BY <2>1, <2>2
<1>11. QED
  BY <1>6, <1>7, <1>8, <1>9, <1>10

LEMMA RoomMaps ==
  ASSUME SessionInv, NEW w \in Workers, Evict(w) \/ EvictOwner(w) \/ Insert(w)
  PROVE  Follows
<1>1. PICK pc \in {"adding", "evicting"} : At(w, pc)
  BY DEF Evict, EvictOwner, Insert
<1>2. TypeOK /\ Busy(w) /\ work[w] # None /\ work[w] \in Work /\ acked' = acked
  BY <1>1, AtFacts DEF Pc, Evict, EvictOwner, Insert
<1>3. ASSUME NEW q \in {"adding", "evicting"}, NEW d \in Ids \cup {None},
             work' = [work EXCEPT ![w].pc = q, ![w].victim = d]
      PROVE  Follows
  <2>1. PICK r : r = [work[w] EXCEPT !.pc = q, !.victim = d]
    OBVIOUS
  <2>2. r \in Work
    BY <1>2, <2>1 DEF Work, Pc
  <2>3. /\ r # None /\ r.pc = q /\ r.kind = work[w].kind /\ r.id = work[w].id
        /\ r.by = work[w].by
    BY <1>2, <2>1, <2>2, NoneAssumption DEF Work
  <2>4. work' = [work EXCEPT ![w] = r]
    BY <1>2, <1>3, <2>1 DEF TypeOK, Work
  <2>5. work'[w] = r /\ \A v \in Workers \ {w} : work'[v] = work[v]
    BY <2>4 DEF SessionInv, TypeOK
  <2>6. QED
    BY <1>2, <2>3, <2>5, StaysPending DEF Busy, Pc, Follows
<1>4. CASE Evict(w) \/ EvictOwner(w)
  <2>1. CASE Evict(w)
    <3>1. table \in Seq(Ids) /\ table # <<>>
      BY <1>2, <2>1, BoundsAssumption DEF Evict, Full, TypeOK
    <3>2. Head(table) \in Ids
      BY <3>1
    <3>3. QED
      BY <1>3, <2>1, <3>2 DEF Evict
  <2>2. CASE EvictOwner(w)
    BY <1>3, <2>2 DEF EvictOwner
  <2>3. QED
    BY <1>4, <2>1, <2>2
<1>5. CASE Insert(w)
  <2>1. CASE Goto(w, "receive") /\ work[w].kind # "open"
    BY <1>2, <2>1, OnTheWay DEF Pc
  <2>2. CASE Answer(w, "opened") /\ work[w].kind = "open"
    <3>1. /\ Register!Pending(w) /\ ~Register!Pending(w)'
          /\ Register!Reply(w, "open", "opened", None)
      BY <1>2, <2>2, Replied DEF Replies, Shows
    <3>2. Register!Refuse(w)
      BY <1>2, <3>1 DEF Register!Refuse
    <3>3. QED
      BY <3>1, <3>2, AnswerFollows
  <2>3. QED
    BY <1>5, <2>1, <2>2 DEF Insert
<1>6. QED
  BY <1>4, <1>5

\* A prompt that is recorded is written to a register without an entry.
LEMMA PromptMaps ==
  ASSUME SessionInv, Stored, NEW w \in Workers,
         \/ PromptAgain(w) \/ PromptRefused(w) \/ PromptAccepted(w) \/ Record(w)
  PROVE  Follows
<1>1. PICK pc \in {"receive", "record"} : At(w, pc)
  BY DEF PromptAgain, PromptRefused, PromptAccepted, Record
<1>2. /\ TypeOK /\ OwnerPart(w) /\ PlanPart(w) /\ Busy(w) /\ work[w] # None
      /\ work[w] \in Work /\ work[w].pc = pc /\ work[w].id \in Ids
      /\ work[w].channel \in Channel
  BY <1>1, AtFacts DEF Pc, OwnerPart, Carrying
<1>3. CASE PromptAgain(w) \/ PromptRefused(w)
  BY <1>2, <1>3, TurnedAway DEF PromptAgain, PromptRefused
<1>4. CASE PromptAccepted(w)
  <2>1. PICK plan \in Plans :
          /\ work' = [work EXCEPT ![w].pc = "record", ![w].channel.plan = plan]
          /\ acked' = acked
    BY <1>4 DEF PromptAccepted
  <2>2. PICK c \in Channel : c = [work[w].channel EXCEPT !.plan = plan]
    BY <1>2 DEF Channel
  <2>3. Takes(w, "record", c)
    BY <1>2, <2>1, <2>2 DEF Takes, TypeOK, Work
  <2>4. QED
    BY <1>2, <2>1, <2>3, OnTheWayWith DEF Pc
<1>5. CASE Record(w)
  <2>1. CASE Answer(w, "unrecorded") /\ UNCHANGED acked
    BY <1>2, <2>1, TurnedAway
  <2>2. CASE ~(Answer(w, "unrecorded") /\ UNCHANGED acked)
    <3>1. PICK e : e = [by |-> work[w].by, plan |-> work[w].channel.plan]
      OBVIOUS
    <3>2. Answer(w, "accepted") /\ acked' = [acked EXCEPT ![work[w].id] = e]
      BY <1>5, <2>2, <3>1 DEF Record
    <3>3. /\ work[w].kind = "prompt" /\ acked[work[w].id] = None
          /\ work[w].channel.plan \in Plans /\ work[w].channel.by = work[w].by
      BY <1>2, <1>5 DEF Record, At, PlanPart, OwnerPart, Carrying
    <3>4. work[w].channel = e
      BY <1>2, <3>1, <3>3 DEF Channel
    <3>5. /\ Register!Pending(w) /\ ~Register!Pending(w)'
          /\ Known[w].id = work[w].id /\ Known[w].by = work[w].by
          /\ Register!Reply(w, "prompt", "accepted", e)
      BY <1>2, <3>2, <3>3, <3>4, Replied DEF Replies, Shows
    <3>6. Register!Accept(w)
      BY <3>1, <3>2, <3>3, <3>5 DEF Register!Accept, Known
    <3>7. QED
      BY <3>5, <3>6, AnswerFollows
  <2>3. QED
    BY <2>1, <2>2
<1>6. QED
  BY <1>3, <1>4, <1>5

\* What serves a call, and what a status tells, is what is registered.
LEMMA ShowMaps ==
  ASSUME SessionInv, Stored, NEW w \in Workers, Call(w) \/ Tell(w)
  PROVE  Follows
<1>1. PICK pc \in {"receive", "telling"} : At(w, pc)
  BY DEF Call, Tell
<1>2. /\ TypeOK /\ OwnerPart(w) /\ PlanPart(w) /\ Busy(w) /\ work[w] # None
      /\ work[w] \in Work /\ work[w].pc = pc /\ work[w].id \in Ids
      /\ work[w].by \in Principals
      /\ work[w].channel \in Channel /\ acked' = acked
  BY <1>1, AtFacts DEF Pc, OwnerPart, Carrying, Call, Tell
<1>3. CASE Answer(w, "error") \/ Answer(w, "absent")
  BY <1>2, <1>3, TurnedAway
<1>4. ASSUME work[w].channel.by = work[w].by,
             NEW reply \in {"served", "told"}, Answer(w, reply),
             \/ reply = "served" /\ work[w].kind = "call" /\ work[w].channel.plan \in Plans
             \/ reply = "told" /\ work[w].kind = "status"
      PROVE  Follows
  <2> DEFINE e == work[w].channel
             plan == e.plan
  <2>1. plan \in Plans \cup {Fresh, Dead} /\ e = [by |-> work[w].by, plan |-> plan]
    BY <1>2, <1>4 DEF Channel
  <2>2. acked[work[w].id] \in {None, e}
    BY <1>1, <1>2, <2>1 DEF PlanPart
  <2>3. /\ Register!Pending(w) /\ ~Register!Pending(w)'
        /\ Known[w].id = work[w].id /\ Known[w].by = work[w].by
        /\ Register!Reply(w, work[w].kind, reply, e)
    BY <1>2, <1>4, Replied DEF Replies, Shows
  <2>4. reply = "served" => plan \in Plans
    BY <1>4
  <2> HIDE DEF e, plan
  <2>5. Register!Show(w)
    BY <1>2, <1>4, <2>1, <2>2, <2>3, <2>4 DEF Register!Show, Known
  <2>6. QED
    BY <2>3, <2>5, AnswerFollows
<1>5. CASE Call(w)
  <2>1. CASE Answer(w, "served") /\ work[w].channel.plan \in Plans
    <3>1. work[w].kind = "call" /\ work[w].channel.by = work[w].by
      BY <1>2, <1>5 DEF Call, At, OwnerPart, Carrying
    <3>2. QED
      BY <1>4, <2>1, <3>1
  <2>2. QED
    BY <1>3, <1>5, <2>1 DEF Call
<1>6. CASE Tell(w)
  <2>1. CASE owners[work[w].id] = work[w].by
    <3>1. Answer(w, "told")
      BY <1>6, <2>1 DEF Tell
    <3>2. work[w].kind = "status" /\ work[w].channel.by = work[w].by
      BY <1>2, <1>6, <2>1, NoneAssumption DEF Tell, At, OwnerPart, PlanPart
    <3>3. QED
      BY <1>4, <3>1, <3>2
  <2>2. QED
    BY <1>3, <1>6, <2>1 DEF Tell
<1>7. QED
  BY <1>5, <1>6

\* A deletion empties the register for its owner, or leaves it as it is.
LEMMA DeletionMaps ==
  ASSUME SessionInv, Stored, NEW w \in Workers, Pop(w) \/ RemoveStored(w)
  PROVE  Follows
<1> DEFINE s == work[w].id
<1>1. PICK pc \in Ending : At(w, pc)
  BY DEF Pop, RemoveStored, Ending
<1>2. /\ TypeOK /\ OwnerPart(w) /\ PlanPart(w) /\ Busy(w) /\ work[w] # None
      /\ work[w] \in Work /\ work[w].pc = pc /\ s \in Ids /\ work[w].kind = "delete"
  BY <1>1, AtFacts DEF Pc, Ending, PlanPart
<1>3. CASE Pop(w)
  BY <1>2, <1>3, OnTheWay DEF Pop, Pc
<1>4. ASSUME NEW reply \in {"deleted", "dropped"}, Answer(w, reply),
             acked' = [acked EXCEPT ![s] = None]
      PROVE  Follows
  <2>1. acked[s] # None => acked[s].by = work[w].by
    BY <1>1, <1>2 DEF SessionInv, AckedIsDurable, OwnerPart
  <2>2. /\ Register!Pending(w) /\ ~Register!Pending(w)'
        /\ Known[w].id = s /\ Known[w].by = work[w].by
        /\ Register!Reply(w, "delete", reply, None)
    BY <1>2, <1>4, Replied DEF Replies, Shows
  <2>3. Register!Delete(w)
    BY <1>4, <2>1, <2>2 DEF Register!Delete, Known
  <2>4. QED
    BY <2>2, <2>3, AnswerFollows
<1>5. CASE RemoveStored(w)
  <2>1. CASE data[s] = None /\ Answer(w, "deleted") /\ UNCHANGED acked
    <3>1. acked' = [acked EXCEPT ![s] = None]
      BY <1>2, <2>1 DEF SessionInv, AckedIsDurable, TypeOK
    <3>2. QED
      BY <1>4, <2>1, <3>1
  <2>2. ASSUME NEW outcome \in Commits,
               Answer(w, IF outcome = "ok" THEN "deleted" ELSE "dropped"),
               acked' = [acked EXCEPT ![s] = IF outcome = "unwritten" THEN @ ELSE None]
        PROVE  Follows
    <3>1. CASE outcome = "unwritten"
      <4>1. acked' = acked /\ Answer(w, "dropped")
        BY <1>2, <2>2, <3>1 DEF TypeOK
      <4>2. QED
        BY <1>2, <4>1, TurnedAway
    <3>2. CASE outcome # "unwritten"
      BY <1>4, <2>2, <3>2
    <3>3. QED
      BY <3>1, <3>2
  <2>3. QED
    BY <1>5, <2>1, <2>2 DEF RemoveStored
<1>6. QED
  BY <1>3, <1>5

\* A request that comes is pending to its client.
LEMMA ArrivalMaps ==
  ASSUME SessionInv, NEW w \in Workers, NEW r \in Work, Arrives(w, r), r.pc \in Pc
  PROVE  Follows
<1>1. /\ TypeOK /\ ~Busy(w) /\ work' = [work EXCEPT ![w] = r] /\ acked' = acked
  BY DEF Arrives, SessionInv
<1>2. r # None /\ r.pc \notin Shows
  BY NoneAssumption DEF Pc, Shows
<1>3. work'[w] = r /\ \A v \in Workers \ {w} : work'[v] = work[v]
  BY <1>1 DEF TypeOK
<1>4. Seen(w)' = [kind |-> r.kind, id |-> r.id, by |-> r.by, reply |-> "pending",
                  shown |-> None]
  BY <1>2, <1>3 DEF Seen
<1>5. Known' = [Known EXCEPT ![w] = Seen(w)']
  BY <1>1, <1>3, OneIsSeen
<1>6. ~Register!Pending(w)
  <2>1. work[w] # None => work[w].pc \in Replies
    BY <1>1 DEF TypeOK, Work, Busy
  <2>2. Seen(w).reply # "pending"
    BY <2>1 DEF Seen, Replies, Pc
  <2>3. QED
    BY <2>2 DEF Register!Pending
<1>7. Seen(w)' \in Register!Requests
  BY <1>4 DEF Work, Register!Requests, Register!Kinds
<1>8. Register!Arrive(w)
  <2>1. Known'[w] = Seen(w)'
    BY DEF Known
  <2>2. QED
    BY <1>1, <1>5, <1>6, <1>7, <2>1 DEF Register!Arrive, Known
<1>9. QED
  BY <1>8 DEF Follows, Register!Next

LEMMA CrashMaps ==
  ASSUME SessionInv, Stored, Crash
  PROVE  Follows
<1>1. work' = [w \in Workers |-> None] /\ acked' = acked
  BY DEF Crash
<1>2. Known' = [w \in Workers |-> Register!Idle]
  BY <1>1 DEF Known, Seen, Register!Idle
<1>3. Register!Crash
  BY <1>1, <1>2 DEF Register!Crash, Known
<1>4. QED
  BY <1>3 DEF Follows, Register!Next

LEMMA StepIsRegister ==
  ASSUME SessionInv, Stored, [Next]_vars
  PROVE  [Register!Next]_(Register!vars)
<1> SUFFICES Follows
  BY DEF Follows
<1>1. ASSUME NEW w \in Workers, Handles(w)
      PROVE  Follows
  BY <1>1, SearchMaps, RoomMaps, PromptMaps, ShowMaps, DeletionMaps DEF Handles
<1>2. ASSUME NEW w \in Workers, NEW s \in Ids, NEW p \in Principals, Open(w, s, p)
      PROVE  Follows
  <2>1. PICK c \in Channel : c = [by |-> p, plan |-> Fresh]
    BY DEF Channel
  <2>2. PICK r \in Work :
          r = [pc |-> "adding", kind |-> "open", id |-> s, by |-> p,
               victim |-> None, channel |-> c]
    BY DEF Work, Pc
  <2>3. Arrives(w, r) /\ r.pc \in Pc
    BY <1>2, <2>1, <2>2 DEF Open, Pc
  <2>4. QED
    BY <2>3, ArrivalMaps
<1>3. ASSUME NEW w \in Workers, NEW s \in Ids, NEW p \in Principals,
             NEW kind \in {"prompt", "call", "delete", "status"}, Message(w, kind, s, p)
      PROVE  Follows
  <2>1. PICK r \in Work :
          r = [pc |-> "locking", kind |-> kind, id |-> s, by |-> p,
               victim |-> None, channel |-> None]
    BY DEF Work, Pc
  <2>2. Arrives(w, r) /\ r.pc \in Pc
    BY <1>3, <2>1 DEF Message, Pc
  <2>3. QED
    BY <2>2, ArrivalMaps
<1>4. CASE Crash
  BY <1>4, CrashMaps
<1>5. CASE UNCHANGED vars
  <2>1. acked' = acked /\ work' = work
    BY <1>5 DEF vars
  <2>2. Known' = Known
    BY <2>1 DEF Known, Seen
  <2>3. QED
    BY <2>1, <2>2 DEF Follows, Register!vars, Known
<1>6. QED
  BY <1>1, <1>2, <1>3, <1>4, <1>5 DEF Next

\* With a store, the daemon implements the register, step by step: whatever is
\* evicted, restored, half written or lost in a crash, a session has one owner and
\* one plan from the prompt that was accepted to the deletion its owner asked for,
\* and every request is answered by what is registered when it is answered.
THEOREM SessionIsRegister == Stored => (Spec => KeepsTheRegister)
<1> SUFFICES ASSUME Stored PROVE Spec => KeepsTheRegister
  OBVIOUS
<1>1. Init => Register!Init
  BY DEF Init, Nothing, Seen, Register!Init, Register!Idle
<1>2. SessionInv /\ [Next]_vars => [Register!Next]_(Register!vars)
  BY StepIsRegister
<1>3. QED
  BY <1>1, <1>2, SessionTableInvariant, PTL DEF Spec, KeepsTheRegister, Register!Spec
=============================================================================
