------------------------------ MODULE SessionTable ------------------------------
(***************************************************************************)
(* The table of sessions of the HTTP daemon.  Every request has a thread.  *)
(* The messages of one session are serialised by a lock, other sessions go *)
(* on meanwhile: they may evict this one at any point, since the table is  *)
(* read without the lock that guards its changes.  A channel takes one     *)
(* prompt; an accepted plan is recorded in the store, and restored from it *)
(* after an eviction or a crash by planning the same prompt again.         *)
(*                                                                         *)
(* Abstracted: tokens (a request comes with its principal), bodies that    *)
(* are refused before a session is looked up, the durable ledger           *)
(* (ExecutionLedger) and what a call is checked against (GatewaySession).  *)
(* Locks are per session; sharing one of the 64 stripes only serialises    *)
(* more.                                                                   *)
(***************************************************************************)
EXTENDS Naturals, Sequences, SequencesExt

CONSTANTS
  Ids,             \* session ids, chosen by clients
  Principals,      \* authenticated callers
  Plans,           \* what a planner can make of a prompt
  Workers,         \* threads of the server
  MaxSessions,     \* max_sessions
  Stored,          \* whether there is a session store
  MaxRequests,     \* bound: requests in a behaviour
  MaxCrashes,      \* bound: crashes of the daemon
  None

ASSUME BoundsAssumption ==
  MaxSessions \in Nat \ {0} /\ MaxRequests \in Nat /\ MaxCrashes \in Nat
ASSUME StoredAssumption == Stored \in BOOLEAN

VARIABLES
  table,           \* sessions: the ids, in the order they were inserted
  channels,        \* sessions: the channel of each id of the table
  owners,          \* session_owners
  data,            \* the store's document: who owns a session, and its plan
  disk,            \* the document on disk
  locks,           \* the lock of each session: a worker, or None
  mutex,           \* _lock: a worker, or None
  work,            \* the request each worker handles
  acked,           \* history: the plan the owner was told is accepted
  requests, crashes

memory == <<table, channels, owners>>
store == <<data, disk>>
bounds == <<requests, crashes>>
vars == <<memory, store, locks, mutex, work, acked, bounds>>

Fresh == "fresh"       \* no prompt yet
Dead == "dead"         \* its prompt was refused; it takes no other
Channel == [by : Principals, plan : Plans \cup {Fresh, Dead}]
Entry == [by : Principals, plan : Plans]
Replies == {"accepted", "error", "served", "opened", "deleted", "forbidden",
            "absent", "unrestorable", "unrecorded", "dropped", "told"}
Pc == {"locking", "lookup", "owner", "whose", "index", "restore", "adding",
       "evicting", "receive", "record", "popping", "removing", "peek", "telling"}
Work == [pc : Pc \cup Replies, kind : {"open", "prompt", "call", "delete", "status"},
         id : Ids, by : Principals, victim : Ids \cup {None},
         channel : Channel \cup {None}]

ASSUME NoneAssumption ==
  None \notin Ids \cup Principals \cup Plans \cup Workers \cup Channel \cup Entry \cup Work
ASSUME PlansAssumption == Fresh \notin Plans /\ Dead \notin Plans

TypeOK ==
  /\ table \in Seq(Ids) /\ Len(table) <= MaxSessions
  /\ channels \in [Ids -> Channel \cup {None}]
  /\ owners \in [Ids -> Principals \cup {None}]
  /\ data \in [Ids -> Entry \cup {None}] /\ disk \in [Ids -> Entry \cup {None}]
  /\ locks \in [Ids -> Workers \cup {None}]
  /\ mutex \in Workers \cup {None}
  /\ work \in [Workers -> Work \cup {None}]
  /\ acked \in [Ids -> Entry \cup {None}]
  /\ requests \in 0..MaxRequests /\ crashes \in 0..MaxCrashes
  /\ \A s \in Ids : channels[s] # None <=> s \in ToSet(table)

Nothing == [s \in Ids |-> None]

Init ==
  /\ table = <<>> /\ channels = Nothing /\ owners = Nothing
  /\ data = Nothing /\ disk = Nothing /\ acked = Nothing
  /\ locks = Nothing /\ mutex = None
  /\ work = [w \in Workers |-> None]
  /\ requests = 0 /\ crashes = 0

-----------------------------------------------------------------------------
(* Requests *)

At(w, pc) == work[w] # None /\ work[w].pc = pc
Busy(w) == work[w] # None /\ work[w].pc \in Pc
Goto(w, pc) == work' = [work EXCEPT ![w].pc = pc]

\* The reply is sent and the lock of the session is left.
Answer(w, reply) ==
  /\ Goto(w, reply)
  /\ locks' = [s \in Ids |-> IF locks[s] = w THEN None ELSE locks[s]]

Handling(s) == \E w \in Workers : work[w] # None /\ work[w].id = s
Unused(s) ==
  channels[s] = None /\ owners[s] = None /\ data[s] = None /\ disk[s] = None

Arrives(w, request) ==
  /\ ~Busy(w) /\ requests < MaxRequests
  /\ requests' = requests + 1
  /\ work' = [work EXCEPT ![w] = request]
  /\ UNCHANGED <<memory, store, locks, mutex, acked, crashes>>

\* POST /sessions: a channel for an id nobody has used; no lock is taken.
Open(w, s, p) ==
  /\ Unused(s) /\ ~Handling(s)
  /\ Arrives(w, [pc |-> "adding", kind |-> "open", id |-> s, by |-> p,
                 victim |-> None, channel |-> [by |-> p, plan |-> Fresh]])

\* POST to a session, DELETE of one, or GET of its status.  The id of a
\* session being opened is not known to anybody.
Message(w, kind, s, p) ==
  /\ ~\E v \in Workers : Busy(v) /\ work[v].kind = "open" /\ work[v].id = s
  /\ Arrives(w, [pc |-> "locking", kind |-> kind, id |-> s, by |-> p,
                 victim |-> None, channel |-> None])

TakeLock(w) ==
  /\ At(w, "locking") /\ locks[work[w].id] = None
  /\ locks' = [locks EXCEPT ![work[w].id] = w]
  /\ Goto(w, CASE work[w].kind = "delete" -> "whose"
               [] work[w].kind = "status" -> "peek"
               [] OTHER -> "lookup")
  /\ UNCHANGED <<memory, store, mutex, acked, bounds>>

-----------------------------------------------------------------------------
(* Whose session is it?  No step of this part holds the table's lock. *)

\* sessions.get(session_id)
Lookup(w) ==
  /\ At(w, "lookup")
  /\ LET c == channels[work[w].id] IN
     work' = [work EXCEPT ![w].channel = c,
                          ![w].pc = IF c = None THEN "whose" ELSE "owner"]
  /\ UNCHANGED <<memory, store, locks, mutex, acked, bounds>>

\* session_owners.get(session_id): gone, if the session was evicted since.
CheckOwner(w) ==
  /\ At(w, "owner")
  /\ IF owners[work[w].id] = work[w].by
       THEN Goto(w, "receive") /\ UNCHANGED locks
       ELSE Answer(w, "forbidden")
  /\ UNCHANGED <<memory, store, mutex, acked, bounds>>

\* The status of a session in the table is told to its owner; to others there
\* is no such session.
Peek(w) ==
  /\ At(w, "peek")
  /\ LET c == channels[work[w].id] IN
     IF c = None
       THEN Answer(w, "absent")
       ELSE /\ work' = [work EXCEPT ![w].channel = c, ![w].pc = "telling"]
            /\ UNCHANGED locks
  /\ UNCHANGED <<memory, store, mutex, acked, bounds>>

Tell(w) ==
  /\ At(w, "telling")
  /\ Answer(w, IF owners[work[w].id] = work[w].by THEN "told" ELSE "absent")
  /\ UNCHANGED <<memory, store, mutex, acked, bounds>>

\* Mutant of AsOwner: whoever names a stored session gets it.
AsAnyone(w, owner, otherwise) ==
  IF work[w].kind # "delete"
    THEN Goto(w, otherwise) /\ UNCHANGED locks
    ELSE IF owner = work[w].by THEN Goto(w, "popping") /\ UNCHANGED locks
    ELSE Answer(w, "absent")

\* A message goes to a session of its own or to a new one; only the owner
\* of a session deletes it.
AsOwner(w, owner, otherwise) ==
  IF work[w].kind # "delete"
    THEN IF owner \in {None, work[w].by}
           THEN Goto(w, otherwise) /\ UNCHANGED locks
           ELSE Answer(w, "forbidden")
    ELSE IF owner = work[w].by THEN Goto(w, "popping") /\ UNCHANGED locks
    ELSE Answer(w, "absent")

OwnerInStore(s) == IF Stored /\ data[s] # None THEN data[s].by ELSE None

\* _owner_of: the table's owner, or the store's.
Whose(w) ==
  /\ At(w, "whose")
  /\ IF owners[work[w].id] # None
       THEN Goto(w, "index") /\ UNCHANGED locks
       ELSE AsOwner(w, OwnerInStore(work[w].id), "restore")
  /\ UNCHANGED <<memory, store, mutex, acked, bounds>>

\* session_owners[session_id]: a KeyError, if evicted since, ends the request.
Index(w) ==
  /\ At(w, "index")
  /\ IF owners[work[w].id] = None
       THEN Answer(w, "dropped")
       ELSE AsOwner(w, owners[work[w].id], "restore")
  /\ UNCHANGED <<memory, store, mutex, acked, bounds>>

-----------------------------------------------------------------------------
(* The channel of a message *)

\* Mutant of Restorable: whatever the planner makes of the prompt now.
RestorableAny(s, plan) == TRUE

\* The plan made again has the fingerprint of the one recorded.
Restorable(s, plan) == plan = data[s].plan

\* restore_channel; a planner may fail, or make another plan this time.
Restore(w) ==
  /\ At(w, "restore")
  /\ LET s == work[w].id IN
     \/ /\ OwnerInStore(s) = None
        /\ work' = [work EXCEPT ![w].pc = "adding",
                      ![w].channel = [by |-> work[w].by, plan |-> Fresh]]
        /\ UNCHANGED locks
     \/ /\ OwnerInStore(s) # None
        /\ \E plan \in Plans \cup {Dead} :
             IF plan # Dead /\ Restorable(s, plan)
               THEN /\ work' = [work EXCEPT ![w].pc = "adding",
                                  ![w].channel = [by |-> data[s].by, plan |-> plan]]
                    /\ UNCHANGED locks
               ELSE Answer(w, "unrestorable")
  /\ UNCHANGED <<memory, store, mutex, acked, bounds>>

\* Mutant of Full: the table may grow one above its bound.
FullLate(s) == Len(table) > MaxSessions /\ channels[s] = None

Full(s) == Len(table) >= MaxSessions /\ channels[s] = None

\* _add_session, under the table's lock: the oldest sessions go ...
Evict(w) ==
  /\ At(w, "adding") /\ mutex \in {None, w} /\ Full(work[w].id)
  /\ mutex' = w
  /\ table' = Tail(table)
  /\ channels' = [channels EXCEPT ![Head(table)] = None]
  /\ work' = [work EXCEPT ![w].pc = "evicting", ![w].victim = Head(table)]
  /\ UNCHANGED <<owners, store, locks, acked, bounds>>

\* ... each with its owner, one dictionary after the other ...
EvictOwner(w) ==
  /\ At(w, "evicting")
  /\ owners' = [owners EXCEPT ![work[w].victim] = None]
  /\ work' = [work EXCEPT ![w].pc = "adding", ![w].victim = None]
  /\ UNCHANGED <<table, channels, store, locks, mutex, acked, bounds>>

\* ... and the new one comes last.
Insert(w) ==
  /\ At(w, "adding") /\ mutex \in {None, w} /\ ~Full(work[w].id)
  /\ LET s == work[w].id IN
     /\ table' = (IF channels[s] = None THEN Append(table, s) ELSE table)
     /\ channels' = [channels EXCEPT ![s] = work[w].channel]
     /\ owners' = [owners EXCEPT ![s] = work[w].by]
  /\ mutex' = None
  /\ IF work[w].kind = "open" THEN Answer(w, "opened")
                              ELSE Goto(w, "receive") /\ UNCHANGED locks
  /\ UNCHANGED <<store, acked, bounds>>

-----------------------------------------------------------------------------
(* Receiving *)

\* The channel of w changes in place; the table holds it unless evicted.
Becomes(w, plan) ==
  LET s == work[w].id IN
  channels' = [channels EXCEPT ![s] =
                 IF @ = None THEN None ELSE [work[w].channel EXCEPT !.plan = plan]]

\* The channel takes its first prompt only, whatever became of it.
Receives(w) == work[w].channel.plan = Fresh

PromptAgain(w) ==
  /\ At(w, "receive") /\ work[w].kind = "prompt" /\ ~Receives(w)
  /\ Answer(w, "error")
  /\ UNCHANGED <<memory, store, mutex, acked, bounds>>

PromptRefused(w) ==
  /\ At(w, "receive") /\ work[w].kind = "prompt" /\ Receives(w)
  /\ Becomes(w, Dead) /\ Answer(w, "error")
  /\ UNCHANGED <<table, owners, store, mutex, acked, bounds>>

\* Without a store the plan is the channel's, and the caller is told so.
PromptAccepted(w) ==
  /\ At(w, "receive") /\ work[w].kind = "prompt" /\ Receives(w)
  /\ \E plan \in Plans :
       /\ Becomes(w, plan)
       /\ IF Stored
            THEN /\ work' = [work EXCEPT ![w].pc = "record", ![w].channel.plan = plan]
                 /\ UNCHANGED <<locks, acked>>
            ELSE /\ Answer(w, "accepted")
                 /\ acked' = [acked EXCEPT ![work[w].id] = [by |-> work[w].by, plan |-> plan]]
  /\ UNCHANGED <<table, owners, store, mutex, bounds>>

\* _commit: published, not written, or written but not known to be.
Commits == {"ok", "unwritten", "unknown"}
Publish(entries, outcome) ==
  /\ disk' = (IF outcome = "unwritten" THEN disk ELSE entries)
  /\ data' = (IF outcome = "ok" THEN entries ELSE data)

\* The table without an id.
Without(s) ==
  IF channels[s] = None THEN table
  ELSE RemoveAt(table, CHOOSE i \in DOMAIN table : table[i] = s)

Drop(s) ==
  /\ table' = Without(s)
  /\ channels' = [channels EXCEPT ![s] = None]
  /\ owners' = [owners EXCEPT ![s] = None]

\* Mutant of Record: the plan is accepted whether or not it was recorded.
RecordBestEffort(w) ==
  /\ At(w, "record")
  /\ \E outcome \in Commits :
       LET s == work[w].id
           entry == [by |-> work[w].by, plan |-> work[w].channel.plan]
       IN /\ Publish([data EXCEPT ![s] = entry], outcome)
          /\ Answer(w, "accepted") /\ acked' = [acked EXCEPT ![s] = entry]
          /\ UNCHANGED memory
  /\ UNCHANGED <<mutex, bounds>>

\* An accepted plan that is not recorded takes its session with it.
Record(w) ==
  /\ At(w, "record")
  /\ \E outcome \in Commits :
       LET s == work[w].id
           entry == [by |-> work[w].by, plan |-> work[w].channel.plan]
       IN /\ Publish([data EXCEPT ![s] = entry], outcome)
          /\ IF outcome = "ok"
               THEN /\ Answer(w, "accepted") /\ acked' = [acked EXCEPT ![s] = entry]
                    /\ UNCHANGED memory
               ELSE /\ mutex = None /\ Drop(s)
                    /\ Answer(w, "unrecorded") /\ UNCHANGED acked
  /\ UNCHANGED <<mutex, bounds>>

\* A call is served if the channel has a plan and, with a store, if the
\* reservation can be written to the session's entry.
Call(w) ==
  /\ At(w, "receive") /\ work[w].kind = "call"
  /\ \/ /\ work[w].channel.plan \in Plans
        /\ IF Stored THEN data[work[w].id] # None /\ Publish(data, "ok")
                     ELSE UNCHANGED store
        /\ Answer(w, "served")
     \/ Answer(w, "error") /\ UNCHANGED store
  /\ UNCHANGED <<memory, mutex, acked, bounds>>

-----------------------------------------------------------------------------
(* Deletion, and the end of the process *)

\* DELETE takes the session from the table, then from the store.
Pop(w) ==
  /\ At(w, "popping") /\ mutex = None
  /\ Drop(work[w].id)
  /\ IF Stored
       THEN Goto(w, "removing") /\ UNCHANGED <<locks, acked>>
       ELSE /\ Answer(w, IF channels[work[w].id] # None THEN "deleted" ELSE "absent")
            /\ acked' = [acked EXCEPT ![work[w].id] = None]
  /\ UNCHANGED <<store, mutex, bounds>>

\* A removal that fails ends the request without a reply.
RemoveStored(w) ==
  /\ At(w, "removing")
  /\ LET s == work[w].id IN
     \/ data[s] = None /\ Answer(w, "deleted") /\ UNCHANGED <<store, acked>>
     \/ data[s] # None /\ \E outcome \in Commits :
          /\ Publish([data EXCEPT ![s] = None], outcome)
          /\ Answer(w, IF outcome = "ok" THEN "deleted" ELSE "dropped")
          /\ acked' = [acked EXCEPT ![s] = IF outcome = "unwritten" THEN @ ELSE None]
  /\ UNCHANGED <<memory, mutex, bounds>>

Crash ==
  /\ crashes < MaxCrashes /\ crashes' = crashes + 1
  /\ table' = <<>> /\ channels' = Nothing /\ owners' = Nothing
  /\ data' = disk /\ locks' = Nothing /\ mutex' = None
  /\ work' = [w \in Workers |-> None]
  /\ acked' = IF Stored THEN acked ELSE Nothing
  /\ UNCHANGED <<disk, requests>>

Handles(w) ==
  \/ TakeLock(w) \/ Lookup(w) \/ CheckOwner(w) \/ Whose(w) \/ Index(w)
  \/ Restore(w) \/ Evict(w) \/ EvictOwner(w) \/ Insert(w)
  \/ PromptAgain(w) \/ PromptRefused(w) \/ PromptAccepted(w) \/ Record(w)
  \/ Call(w) \/ Pop(w) \/ RemoveStored(w) \/ Peek(w) \/ Tell(w)

Next ==
  \/ \E w \in Workers :
       \/ Handles(w)
       \/ \E s \in Ids, p \in Principals :
            \/ Open(w, s, p)
            \/ \E kind \in {"prompt", "call", "delete", "status"} :
                 Message(w, kind, s, p)
  \/ Crash

Spec == Init /\ [][Next]_vars

-----------------------------------------------------------------------------
(* Properties *)

Ends(w, reply) == work'[w] # None /\ work'[w].pc = reply /\ ~At(w, reply)

\* Whatever is evicted, restored or lost in a crash, a session that was
\* accepted with a plan goes on under that plan, for the principal it was
\* accepted for, until its owner deletes it; nothing replaces the plan.
PlanOnce ==
  [][\A w \in Workers :
       LET s == work[w].id IN
       /\ Stored /\ Ends(w, "served") /\ acked[s] # None =>
            acked[s] = [by |-> work[w].by, plan |-> work[w].channel.plan]
       /\ Stored /\ Ends(w, "accepted") => acked[s] = None]_vars

\* No principal is served by the plan of another, nor told of its status.
OnlyTheOwner ==
  \A w \in Workers :
    work[w] # None /\ work[w].pc \in {"receive", "record", "told"} =>
      work[w].channel.by = work[w].by

\* A plan the caller was told is accepted is in the store and on the disk.
AckedIsDurable ==
  Stored => \A s \in Ids : acked[s] # None =>
    data[s] = acked[s] /\ disk[s] = acked[s]

\* The owner of a session is never told that it belongs to another.
OwnerIsServed ==
  [][\A w \in Workers :
       Ends(w, "forbidden") /\ acked[work[w].id] # None =>
         acked[work[w].id].by # work[w].by]_vars

-----------------------------------------------------------------------------
(* The sessions as registers *)

\* What a client knows of its request.
Shows == {"accepted", "served", "told"}
Seen(w) ==
  IF work[w] = None THEN [reply |-> "none"]
  ELSE [kind |-> work[w].kind, id |-> work[w].id, by |-> work[w].by,
        reply |-> IF work[w].pc \in Pc THEN "pending" ELSE work[w].pc,
        shown |-> IF work[w].pc \in Shows THEN work[w].channel ELSE None]

Register == INSTANCE SessionRegister WITH
  Unplanned <- {Fresh, Dead},
  entry     <- acked,
  request   <- [w \in Workers |-> Seen(w)]

\* With a store, a session is a register: through evictions, restores, failed
\* writes and crashes, every request seems to happen in the step that answers it,
\* and only a deletion for the owner takes back what was accepted.
KeepsTheRegister == Register!Spec
=============================================================================
