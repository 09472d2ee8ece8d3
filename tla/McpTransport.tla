------------------------------ MODULE McpTransport ------------------------------
(***************************************************************************)
(* StdioTransport: JSON-RPC with a subprocess, one line per message, one   *)
(* request at a time under a lock.  The sessions of the daemon share the   *)
(* transport of a server.  The subprocess may die at any moment, with      *)
(* requests unread or answers buffered in the pipe, and it may print lines *)
(* nobody asked for.  A dead subprocess is started again, a bounded number *)
(* of times; what it did before it died is done all the same.              *)
(*                                                                         *)
(* Abstracted: a message is its request id; the on_restart callback, which *)
(* no caller in the repository passes; stderr, drained by a thread of its  *)
(* own.  A client issues one request: a further one is another client.     *)
(***************************************************************************)
EXTENDS Naturals, Sequences, FiniteSets

CONSTANTS
  Clients,         \* requests, each with its own id, from any session
  Calls,           \* those whose method is tools/call; the others only read
  MaxRestarts,     \* max_restarts
  MaxNoise,        \* bound: unsolicited lines the server prints
  Nobody           \* the lock is free

ASSUME ClientsAssumption == Calls \subseteq Clients /\ Nobody \notin Clients
ASSUME BoundsAssumption  == MaxRestarts \in Nat /\ MaxNoise \in Nat

VARIABLES
  pc,              \* where the thread of a client is in rpc
  tries,           \* turns of the retry loop the client has left
  verdict,         \* what rpc returned or raised
  lock,            \* _lock: the client inside, or Nobody
  restarts,        \* _restarts
  alive,           \* the subprocess runs
  inbox,           \* its stdin: requests it has not read
  working,         \* requests it has read and carried out, not answered yet
  outbox,          \* its stdout, readable after its death too
  noise,           \* unsolicited lines printed so far
  effects          \* history: how often a request was carried out

client == <<pc, tries, verdict>>
server == <<alive, inbox, working, outbox, noise, effects>>
vars == <<client, lock, restarts, server>>

Noise == Nobody        \* a line, or a part of one, that answers no request

Pc == {"idle", "waiting", "checking", "writing", "reading", "done"}
\* refused: rpc gave up before the request was written.  unknown: after.
Verdict == {"none", "answer", "mismatch", "refused", "unknown"}

TypeOK ==
  /\ pc \in [Clients -> Pc] /\ tries \in [Clients -> 0..(MaxRestarts + 1)]
  /\ verdict \in [Clients -> Verdict]
  /\ lock \in Clients \cup {Nobody}
  /\ restarts \in 0..MaxRestarts
  /\ alive \in BOOLEAN
  /\ inbox \in Seq(Clients) /\ working \in Seq(Clients)
  /\ outbox \in Seq(Clients \cup {Noise})
  /\ noise \in 0..MaxNoise
  /\ effects \in [Clients -> Nat]

Init ==
  /\ pc = [c \in Clients |-> "idle"]
  /\ tries = [c \in Clients |-> MaxRestarts + 1]
  /\ verdict = [c \in Clients |-> "none"]
  /\ lock = Nobody /\ restarts = 0
  /\ alive = TRUE /\ inbox = <<>> /\ working = <<>> /\ outbox = <<>>
  /\ noise = 0 /\ effects = [c \in Clients |-> 0]

-----------------------------------------------------------------------------
(* Restarting *)

\* Mutant of CanRestart: one restart too many.
CanRestartAgain == restarts <= MaxRestarts

CanRestart == restarts < MaxRestarts

\* A new subprocess with pipes of its own; what was in the old ones is lost.
Respawn ==
  /\ restarts' = restarts + 1
  /\ alive' = TRUE /\ inbox' = <<>> /\ working' = <<>> /\ outbox' = <<>>
  /\ UNCHANGED <<noise, effects>>

Goto(c, p) == pc' = [pc EXCEPT ![c] = p]

\* rpc ends for c, and leaves the lock.
Finish(c, v) ==
  /\ Goto(c, "done") /\ verdict' = [verdict EXCEPT ![c] = v]
  /\ lock' = Nobody
  /\ UNCHANGED tries

\* One turn of the loop is used up; the loop ends when none is left.
NextTry(c) ==
  IF tries[c] > 1
    THEN /\ tries' = [tries EXCEPT ![c] = @ - 1]
         /\ Goto(c, "checking")
         /\ UNCHANGED <<verdict, lock>>
    ELSE Finish(c, "unknown")

\* Mutant of Lost: every request is sent again.
LostAndRetried(c) ==
  IF CanRestart THEN Respawn /\ NextTry(c)
                ELSE Finish(c, "unknown") /\ UNCHANGED <<restarts, server>>

\* The connection broke with the request of c on its way.  Only a request
\* that merely reads is sent again; a tool call ends here, its outcome
\* unknown, after an attempt to get the server back for the next caller.
Lost(c) ==
  IF ~CanRestart THEN Finish(c, "unknown") /\ UNCHANGED <<restarts, server>>
  ELSE Respawn /\ IF c \in Calls THEN Finish(c, "unknown") ELSE NextTry(c)

-----------------------------------------------------------------------------
(* rpc, by the thread of client c *)

Request(c) ==
  /\ pc[c] = "idle" /\ Goto(c, "waiting")
  /\ UNCHANGED <<tries, verdict, lock, restarts, server>>

\* Mutant of Acquire: the transport is used without its lock.
AcquireNothing(c) ==
  /\ pc[c] = "waiting" /\ Goto(c, "checking")
  /\ UNCHANGED <<tries, verdict, lock, restarts, server>>

Acquire(c) ==
  /\ pc[c] = "waiting" /\ lock = Nobody
  /\ lock' = c /\ Goto(c, "checking")
  /\ UNCHANGED <<tries, verdict, restarts, server>>

\* A dead subprocess is restarted before anything is written to it.
CheckAlive(c) ==
  /\ pc[c] = "checking"
  /\ IF alive
       THEN Goto(c, "writing") /\ UNCHANGED <<tries, verdict, lock, restarts, server>>
     ELSE IF CanRestart
       THEN Respawn /\ Goto(c, "writing") /\ UNCHANGED <<tries, verdict, lock>>
     ELSE Finish(c, IF tries[c] = MaxRestarts + 1 THEN "refused" ELSE "unknown")
          /\ UNCHANGED <<restarts, server>>

\* The subprocess may have died since: the write fails, or reaches a pipe
\* that nobody reads any more.
Write(c) ==
  /\ pc[c] = "writing"
  /\ \/ /\ inbox' = (IF alive THEN Append(inbox, c) ELSE inbox)
        /\ Goto(c, "reading")
        /\ UNCHANGED <<tries, verdict, lock, restarts,
                       alive, working, outbox, noise, effects>>
     \/ ~alive /\ Lost(c)

\* Mutant of Answered: any well-formed line will do.
AnsweredAny(c, line) == IF line # Noise THEN "answer" ELSE "mismatch"

\* _rpc_result: a line with the id of the request, or an error.
Answered(c, line) == IF line = c THEN "answer" ELSE "mismatch"

ReadLine(c) ==
  /\ pc[c] = "reading" /\ outbox # <<>>
  /\ outbox' = Tail(outbox)
  /\ Finish(c, Answered(c, Head(outbox)))
  /\ UNCHANGED <<restarts, alive, inbox, working, noise, effects>>

\* Mutant of ReadEnd: the end of the stream is waited out.
ReadEndNever(c) == pc[c] = "reading" /\ FALSE /\ UNCHANGED vars

\* readline returns nothing: the subprocess closed its output.  While it is
\* alive and silent, readline blocks, and the lock is kept.
ReadEnd(c) ==
  /\ pc[c] = "reading" /\ outbox = <<>> /\ ~alive
  /\ Lost(c)

-----------------------------------------------------------------------------
(* The subprocess *)

\* It reads a request and carries it out.
Serve ==
  /\ alive /\ inbox # <<>>
  /\ inbox' = Tail(inbox)
  /\ working' = Append(working, Head(inbox))
  /\ effects' = [effects EXCEPT ![Head(inbox)] = @ + 1]
  /\ UNCHANGED <<client, lock, restarts, alive, outbox, noise>>

Reply ==
  /\ alive /\ working # <<>>
  /\ working' = Tail(working)
  /\ outbox' = Append(outbox, Head(working))
  /\ UNCHANGED <<client, lock, restarts, alive, inbox, noise, effects>>

\* A notification, or a line of a log, on stdout.
PrintNoise ==
  /\ alive /\ noise < MaxNoise
  /\ noise' = noise + 1 /\ outbox' = Append(outbox, Noise)
  /\ UNCHANGED <<client, lock, restarts, alive, inbox, working, effects>>

\* Dying in the middle of an answer leaves the beginning of its line.
Die ==
  /\ alive
  /\ alive' = FALSE /\ inbox' = <<>> /\ working' = <<>>
  /\ \/ UNCHANGED outbox
     \/ working # <<>> /\ outbox' = Append(outbox, Noise)
  /\ UNCHANGED <<client, lock, restarts, noise, effects>>

Rpc(c) == Acquire(c) \/ CheckAlive(c) \/ Write(c) \/ ReadLine(c) \/ ReadEnd(c)
Next ==
  \/ \E c \in Clients : Request(c) \/ Rpc(c)
  \/ Serve \/ Reply \/ PrintNoise \/ Die

Spec == Init /\ [][Next]_vars

\* Threads run, and a subprocess that is alive goes on serving.  Nothing is
\* asked of the clients, of noise and of death.
Fairness ==
  /\ \A c \in Clients : WF_vars(Rpc(c))
  /\ WF_vars(Serve) /\ WF_vars(Reply)

FairSpec == Spec /\ Fairness

-----------------------------------------------------------------------------
(* Properties *)

\* A tool call reaches a server once at most, over deaths and restarts, and
\* one that rpc gave up on before writing it reaches none.
CalledAtMostOnce ==
  \A c \in Calls :
    effects[c] <= 1 /\ (verdict[c] = "refused" => effects[c] = 0)

\* What a client takes for its answer was made by carrying out its request.
AnswersAreEarned == \A c \in Clients : verdict[c] = "answer" => effects[c] >= 1

\* However often the server dies, whoever waits for it gets a verdict: no
\* thread keeps the lock, none retries for ever.
EveryRequestEnds == \A c \in Clients : pc[c] = "waiting" ~> pc[c] = "done"

\* With a server that prints only answers, nobody meets the answer to the
\* request of another: neither a call given up nor one read again after a
\* restart leaves a line behind for the next.
OneAtATime ==
  \A c \in Clients : pc[c] \in {"writing", "reading"} /\ noise = 0 =>
    \A i \in DOMAIN outbox : outbox[i] \in {c, Noise}

-----------------------------------------------------------------------------
(* The transport as a remote call *)

Remote == INSTANCE RemoteCall WITH
  Attempts <- MaxRestarts + 1,
  turn     <- lock,
  strays   <- noise > 0

\* Over deaths and restarts, requests are carried out in their own turn, a tool
\* call once at most, and each verdict says what became and will become of it.
ImplementsRemoteCall == Remote!Spec
=============================================================================
