------------------------------ MODULE AbciServer ------------------------------
(***************************************************************************)
(* The ABCI listener of noxis-comet-abci/src/server.rs: one accepting      *)
(* loop, a bounded number of connection threads, one application core      *)
(* behind a mutex.                                                         *)
(*                                                                         *)
(* A request is the number its peer gave it.  The peer may write several   *)
(* before it reads an answer, and may close at any time.  What a handler   *)
(* computes is CometCore's matter: here a handler answers, refuses with    *)
(* an error, or panics.                                                    *)
(***************************************************************************)
EXTENDS Integers, Sequences, FiniteSets, Functions

CONSTANTS
  Peers,
  Engine,         \* the peer that connects again whenever it is closed
  Limits,         \* values of DEFAULT_MAX_CONCURRENT_ABCI_CONNECTIONS
  MaxRequests,    \* bound on the requests of all peers together
  MaxConnects,    \* bound on the connections of a peer other than Engine
  MaxFaults,      \* bound on panics, socket and listener errors
  NoPeer

ASSUME ServerAssumptions ==
  NoPeer \notin Peers /\ IsFiniteSet(Peers) /\ Limits \subseteq Nat

VARIABLES
  socket,    \* of each peer: "closed", "queued" with the listener, "open"
  inbox,     \* what the server has not read yet; 0 are bytes that are no request
  sent, connects,
  thread,    \* the connection thread of each peer
  request,   \* the request a thread works on
  leaving,   \* threads that have dropped their stream and not yet their permit
  active,    \* active_connections
  loop,      \* the accepting loop: "check", "accept" or "ended"
  shutdown,  \* shutdown_requested
  lock,      \* the thread that holds the core
  poisoned,  \* the core's mutex is poisoned
  applied,   \* the requests that the core has handled, in order
  answers,   \* what each peer was answered on its connection; 0 is an exception
  faults,
  limit      \* the connections that the server may have at a time

peerVars == <<socket, inbox, sent, connects>>
coreVars == <<lock, poisoned, applied>>
vars == <<socket, inbox, sent, connects, thread, request, leaving, active, loop,
          shutdown, lock, poisoned, applied, answers, faults, limit>>

Live(p) == thread[p] # "none"

Init ==
  /\ socket = [p \in Peers |-> "closed"]
  /\ inbox = [p \in Peers |-> <<>>]
  /\ sent = [p \in Peers |-> 0]
  /\ connects = [p \in Peers |-> 0]
  /\ thread = [p \in Peers |-> "none"]
  /\ request = [p \in Peers |-> 0]
  /\ leaving = 0
  /\ active = 0
  /\ loop = "check"
  /\ shutdown = FALSE
  /\ lock = NoPeer
  /\ poisoned = FALSE
  /\ applied = <<>>
  /\ answers = [p \in Peers |-> <<>>]
  /\ faults = 0
  /\ limit \in Limits

(***************************************************************************)
(* The peers (external).  A peer has one connection at a time.             *)
(***************************************************************************)
Connect(p) ==
  /\ socket[p] = "closed" /\ thread[p] = "none"
  /\ p # Engine => connects[p] < MaxConnects
  /\ socket' = [socket EXCEPT ![p] = "queued"]
  /\ connects' = IF p = Engine THEN connects ELSE [connects EXCEPT ![p] = @ + 1]
  /\ answers' = [answers EXCEPT ![p] = <<>>]
  /\ UNCHANGED <<inbox, sent, thread, request, leaving, active, loop, shutdown,
                 coreVars, faults>>

TotalSent == FoldFunction(LAMBDA m, n : m + n, 0, sent)
(* A peer writes a request, also before it is accepted. *)
Send(p) ==
  /\ socket[p] # "closed"
  /\ TotalSent < MaxRequests
  /\ sent' = [sent EXCEPT ![p] = @ + 1]
  /\ inbox' = [inbox EXCEPT ![p] = Append(@, sent[p] + 1)]
  /\ UNCHANGED <<socket, connects, thread, request, leaving, active, loop, shutdown,
                 coreVars, answers, faults>>

(* It writes bytes that read_request refuses (AbciMessages). *)
SendMalformed(p) ==
  /\ socket[p] # "closed" /\ p # Engine
  /\ TotalSent < MaxRequests
  /\ sent' = [sent EXCEPT ![p] = @ + 1]
  /\ inbox' = [inbox EXCEPT ![p] = Append(@, 0)]
  /\ UNCHANGED <<socket, connects, thread, request, leaving, active, loop, shutdown,
                 coreVars, answers, faults>>

(* What was written stays readable until the end of the stream. *)
Disconnect(p) ==
  /\ socket[p] # "closed" /\ p # Engine
  /\ socket' = [socket EXCEPT ![p] = "closed"]
  /\ inbox' = IF socket[p] = "queued" THEN [inbox EXCEPT ![p] = <<>>] ELSE inbox
  /\ UNCHANGED <<sent, connects, thread, request, leaving, active, loop, shutdown,
                 coreVars, answers, faults>>

(***************************************************************************)
(* CometAbciServer::serve and request_shutdown.                            *)
(***************************************************************************)
RequestShutdown ==
  /\ ~shutdown
  /\ shutdown' = TRUE
  /\ UNCHANGED <<peerVars, thread, request, leaving, active, loop, coreVars, answers, faults>>

(* Faulty: the loop blocks in accept and never looks at the flag. *)
FaultyCheckShutdown ==
  /\ loop = "check"
  /\ loop' = "accept"
  /\ UNCHANGED <<peerVars, thread, request, leaving, active, shutdown, coreVars, answers, faults>>

CheckShutdown ==
  /\ loop = "check"
  /\ loop' = IF shutdown THEN "ended" ELSE "accept"
  /\ UNCHANGED <<peerVars, thread, request, leaving, active, shutdown, coreVars, answers, faults>>

(* Faulty: one too many. *)
FaultyTryAcquireConnection ==
  active <= limit /\ active' = active + 1

TryAcquireConnection ==
  active < limit /\ active' = active + 1

(* accept returns a connection: a thread is started for it, or its stream  *)
(* is dropped because every permit is taken.                               *)
Accept(p) ==
  /\ loop = "accept" /\ socket[p] = "queued"
  /\ loop' = "check"
  /\ \/ /\ TryAcquireConnection
        /\ thread' = [thread EXCEPT ![p] = "configuring"]
        /\ socket' = [socket EXCEPT ![p] = "open"]
        /\ UNCHANGED inbox
     \/ /\ active >= limit
        /\ socket' = [socket EXCEPT ![p] = "closed"]
        /\ inbox' = [inbox EXCEPT ![p] = <<>>]
        /\ UNCHANGED <<active, thread>>
  /\ UNCHANGED <<sent, connects, request, leaving, shutdown, coreVars, answers, faults>>

(* accept would block: sleep, and look at the flag again. *)
AcceptNothing ==
  /\ loop = "accept" /\ \A p \in Peers : socket[p] # "queued"
  /\ loop' = "check"
  /\ UNCHANGED <<peerVars, thread, request, leaving, active, shutdown, coreVars, answers, faults>>

(* Any other error of accept ends serve. *)
AcceptFails ==
  /\ loop = "accept" /\ faults < MaxFaults
  /\ loop' = "ended"
  /\ faults' = faults + 1
  /\ UNCHANGED <<peerVars, thread, request, leaving, active, shutdown, coreVars, answers>>

(***************************************************************************)
(* A connection thread: configure_socket, then serve_socket.               *)
(***************************************************************************)
(* serve_socket returns or unwinds: the stream is dropped before the       *)
(* permit is.                                                              *)
CloseStream(p) ==
  /\ thread' = [thread EXCEPT ![p] = "none"]
  /\ socket' = [socket EXCEPT ![p] = "closed"]
  /\ inbox' = [inbox EXCEPT ![p] = <<>>]
  /\ leaving' = leaving + 1

(* Drop of ConnectionPermit. *)
DropPermit ==
  /\ leaving > 0
  /\ leaving' = leaving - 1
  /\ active' = active - 1
  /\ UNCHANGED <<peerVars, thread, request, loop, shutdown, coreVars, answers, faults>>

ConfigureSocket(p) ==
  /\ thread[p] = "configuring"
  /\ \/ /\ thread' = [thread EXCEPT ![p] = "reading"]
        /\ UNCHANGED <<socket, inbox, leaving, faults>>
     \/ /\ faults < MaxFaults
        /\ faults' = faults + 1
        /\ CloseStream(p)
  /\ UNCHANGED <<sent, connects, request, active, loop, shutdown, coreVars, answers>>

ReadRequest(p) ==
  /\ thread[p] = "reading" /\ inbox[p] # <<>> /\ Head(inbox[p]) # 0
  /\ request' = [request EXCEPT ![p] = Head(inbox[p])]
  /\ inbox' = [inbox EXCEPT ![p] = Tail(@)]
  /\ thread' = [thread EXCEPT ![p] = "waiting"]
  /\ UNCHANGED <<socket, sent, connects, leaving, active, loop, shutdown,
                 coreVars, answers, faults>>

(* A clean end of the peer's stream. *)
ReadEnd(p) ==
  /\ thread[p] = "reading" /\ inbox[p] = <<>>
  /\ socket[p] = "closed"
  /\ CloseStream(p)
  /\ UNCHANGED <<sent, connects, request, active, loop, shutdown, coreVars, answers, faults>>

ReadFails(p) ==
  /\ thread' = [thread EXCEPT ![p] = "failing"]
  /\ UNCHANGED <<peerVars, request, leaving, active, loop, shutdown, coreVars, answers, faults>>
ReadMalformed(p) ==
  /\ thread[p] = "reading" /\ inbox[p] # <<>> /\ Head(inbox[p]) = 0
  /\ ReadFails(p)
(* Faulty: no read timeout is set. *)
FaultyReadTimeout(p) ==
  /\ thread[p] = "reading" /\ inbox[p] = <<>>
  /\ socket[p] = "open" /\ p = Engine
  /\ ReadFails(p)
(* Nothing came for DEFAULT_ABCI_SOCKET_IDLE_TIMEOUT. *)
ReadTimeout(p) ==
  /\ thread[p] = "reading" /\ inbox[p] = <<>>
  /\ socket[p] = "open"
  /\ ReadFails(p)

(* Faulty: dispatch drops the guard before it calls the core. *)
FaultyLockCore(p) ==
  /\ thread[p] = "waiting" /\ lock = NoPeer
  /\ IF poisoned
     THEN thread' = [thread EXCEPT ![p] = "failing"] /\ UNCHANGED lock
     ELSE thread' = [thread EXCEPT ![p] = "handling"] /\ UNCHANGED lock
  /\ UNCHANGED <<peerVars, request, leaving, active, loop, shutdown, poisoned, applied,
                 answers, faults>>

(* Faulty: takes the core out of a poisoned mutex. *)
FaultyIgnorePoison(p) ==
  /\ thread[p] = "waiting" /\ lock = NoPeer
  /\ thread' = [thread EXCEPT ![p] = "handling"]
  /\ lock' = p
  /\ UNCHANGED <<peerVars, request, leaving, active, loop, shutdown, poisoned, applied,
                 answers, faults>>

(* lock_core, at the start of dispatch. *)
LockCore(p) ==
  /\ thread[p] = "waiting" /\ lock = NoPeer
  /\ IF poisoned
     THEN thread' = [thread EXCEPT ![p] = "failing"] /\ UNCHANGED lock
     ELSE thread' = [thread EXCEPT ![p] = "handling"] /\ lock' = p
  /\ UNCHANGED <<peerVars, request, leaving, active, loop, shutdown, poisoned, applied,
                 answers, faults>>

(* The rest of dispatch, and the end of its guard: a response, or an       *)
(* error of the core.                                                      *)
Dispatch(p) ==
  /\ thread[p] = "handling"
  /\ applied' = Append(applied, <<p, request[p]>>)
  /\ lock' = NoPeer
  /\ \/ thread' = [thread EXCEPT ![p] = "writing"] /\ UNCHANGED faults
     \/ /\ faults < MaxFaults
        /\ faults' = faults + 1
        /\ thread' = [thread EXCEPT ![p] = "failing"]
  /\ UNCHANGED <<peerVars, request, leaving, active, loop, shutdown, poisoned, answers>>

(* A handler panics: its guard poisons the mutex, and the thread unwinds.  *)
DispatchPanics(p) ==
  /\ thread[p] = "handling" /\ faults < MaxFaults
  /\ faults' = faults + 1
  /\ lock' = NoPeer
  /\ poisoned' = TRUE
  /\ CloseStream(p)
  /\ UNCHANGED <<sent, connects, request, active, loop, shutdown, applied, answers>>

WriteResponse(p) ==
  /\ thread[p] = "writing"
  /\ thread' = [thread EXCEPT ![p] = "reading"]
  /\ answers' = IF socket[p] = "open" THEN [answers EXCEPT ![p] = Append(@, request[p])]
                ELSE answers
  /\ UNCHANGED <<peerVars, request, leaving, active, loop, shutdown, coreVars, faults>>

(* The peer has gone, or does not read until the write times out. *)
WriteFails(p) ==
  /\ thread[p] = "writing"
  /\ IF socket[p] = "closed" THEN UNCHANGED faults
     ELSE faults < MaxFaults /\ faults' = faults + 1
  /\ CloseStream(p)
  /\ UNCHANGED <<sent, connects, request, active, loop, shutdown, coreVars, answers>>

(* Faulty: reads on after an exception. *)
FaultyWriteException(p) ==
  /\ thread[p] = "failing"
  /\ answers' = IF socket[p] = "open" THEN [answers EXCEPT ![p] = Append(@, 0)] ELSE answers
  /\ thread' = [thread EXCEPT ![p] = "reading"]
  /\ UNCHANGED <<peerVars, request, leaving, active, loop, shutdown, coreVars, faults>>

(* An exception is written if it can be, and ends the connection. *)
WriteException(p) ==
  /\ thread[p] = "failing"
  /\ answers' = IF socket[p] = "open" THEN [answers EXCEPT ![p] = Append(@, 0)] ELSE answers
  /\ CloseStream(p)
  /\ UNCHANGED <<sent, connects, request, active, loop, shutdown, coreVars, faults>>

ThreadStep(p) ==
  \/ ConfigureSocket(p) \/ ReadRequest(p) \/ ReadEnd(p) \/ ReadMalformed(p) \/ ReadTimeout(p)
  \/ LockCore(p) \/ Dispatch(p) \/ DispatchPanics(p) \/ WriteResponse(p) \/ WriteFails(p)
  \/ WriteException(p)
LoopStep == CheckShutdown \/ AcceptNothing \/ AcceptFails \/ \E p \in Peers : Accept(p)
PeerStep(p) == Connect(p) \/ Send(p) \/ SendMalformed(p) \/ Disconnect(p)
(* A step of the running server. *)
Keeping(A) == A /\ UNCHANGED limit
Next ==
  Keeping(\/ LoopStep \/ RequestShutdown \/ DropPermit
          \/ \E p \in Peers : ThreadStep(p) \/ PeerStep(p))

Spec == Init /\ [][Next]_vars

(* Threads run, the loop polls and timeouts expire; the backlog is first   *)
(* in, first out enough that the engine, which connects whenever it is     *)
(* closed, is not passed over for ever.                                    *)
Fairness ==
  /\ WF_vars(Keeping(CheckShutdown \/ AcceptNothing))
  /\ WF_vars(Keeping(DropPermit))
  /\ \A p \in Peers : WF_vars(Keeping(ThreadStep(p)))
  /\ SF_vars(Keeping(Accept(Engine))) /\ WF_vars(Keeping(Connect(Engine)))
FairSpec == Spec /\ Fairness

(***************************************************************************)
(* Properties.                                                             *)
(***************************************************************************)
(* active_connections is the number of threads that have not ended, never  *)
(* more than the limit: a refused, failed or panicked connection neither   *)
(* leaks nor doubles a permit.                                             *)
PermitsMatchThreads ==
  /\ active = Cardinality({p \in Peers : Live(p)}) + leaving
  /\ active <= limit

(* On one connection the answers are the requests in the order they were   *)
(* sent, none skipped and none twice, and only the last may be an          *)
(* exception; a request that was answered was handled by the core.         *)
AnswersInOrder ==
  \A p \in Peers :
    LET list == answers[p] IN
    /\ \A i \in 1 .. Len(list) - 1 : list[i] # 0
    /\ \A i, j \in DOMAIN list : (i < j /\ list[j] # 0) => list[j] = list[i] + (j - i)
    /\ \A i \in DOMAIN list : list[i] # 0 => \E k \in DOMAIN applied : applied[k] = <<p, list[i]>>

(* The core sees one request at a time, each at most once, and those of a  *)
(* peer in the order the peer sent them; nobody holds the mutex while it   *)
(* waits for a peer.                                                       *)
CoreSerialized ==
  /\ Cardinality({p \in Peers : thread[p] = "handling"}) <= 1
  /\ \A p \in Peers : thread[p] = "handling" <=> lock = p
  /\ \A i, j \in DOMAIN applied :
       (i < j /\ applied[i][1] = applied[j][1]) => applied[i][2] < applied[j][2]

(* After a handler panicked the core handles nothing more. *)
PoisonIsFinal == [][poisoned => applied' = applied]_vars

(* A peer that connects again whenever it is dropped is served again and   *)
(* again while the loop runs, though others take every permit and idle:    *)
(* their reads time out.                                                   *)
EngineServedAgain == []<>(loop = "ended" \/ thread[Engine] = "reading")

(* After request_shutdown the loop returns and every connection thread     *)
(* ends, without being interrupted.                                        *)
ShutdownCompletes == shutdown ~> (loop = "ended" /\ active = 0)

(***************************************************************************)
(* The inductive invariant behind the safety properties.                   *)
(***************************************************************************)
ThreadStates ==
  {"none", "configuring", "reading", "waiting", "handling", "writing", "failing"}
ServerTypeOK ==
  /\ socket \in [Peers -> {"closed", "queued", "open"}]
  /\ inbox \in [Peers -> Seq(Nat)]
  /\ sent \in [Peers -> Nat]
  /\ thread \in [Peers -> ThreadStates]
  /\ request \in [Peers -> Nat]
  /\ leaving \in Nat /\ active \in Int
  /\ lock \in Peers \cup {NoPeer}
  /\ applied \in Seq(Peers \X Nat)
  /\ answers \in [Peers -> Seq(Nat)]

(* A connection that waits for accept has no thread, and none was answered *)
(* before its thread reads.                                                *)
Fresh(p) ==
  /\ socket[p] = "queued" => thread[p] = "none"
  /\ (socket[p] = "queued" \/ thread[p] = "configuring") => answers[p] = <<>>
QueuedIsFresh == \A p \in Peers : Fresh(p)

(* The core's guard is held exactly while a request is handled, and by     *)
(* nobody once the mutex is poisoned.                                      *)
GuardIsHeld ==
  /\ \A p \in Peers : thread[p] = "handling" <=> lock = p
  /\ poisoned => lock = NoPeer

(* The unread bytes of a peer are the last that it sent, in order, and the *)
(* request that its thread works on came just before them.                 *)
Working == {"waiting", "handling", "writing"}
LastSent(box, n) == \A i \in 1 .. Len(box) : box[i] # 0 => box[i] + Len(box) = n + i
Unread(p) ==
  /\ LastSent(inbox[p], sent[p])
  /\ request[p] + Len(inbox[p]) <= sent[p]
  /\ thread[p] \in Working => request[p] # 0 /\ request[p] + Len(inbox[p]) = sent[p]
UnreadIsLatest == \A p \in Peers : Unread(p)

(* The core has handled what threads took from their peers, never twice. *)
AppliedInOrder ==
  /\ \A p \in Peers, k \in 1 .. Len(applied) :
       applied[k][1] = p =>
         /\ applied[k][2] <= request[p]
         /\ thread[p] \in {"waiting", "handling"} => applied[k][2] < request[p]
  /\ \A i, j \in 1 .. Len(applied) :
       (i < j /\ applied[i][1] = applied[j][1]) => applied[i][2] < applied[j][2]

(* The answers of an open connection are the requests before the unread    *)
(* ones, without the one that the thread works on; none is an exception.   *)
NoExceptions(list) == \A i \in 1 .. Len(list) : list[i] # 0
UpTo(last, list) == \A i \in 1 .. Len(list) : list[i] + (Len(list) - i) = last
Answered(p) ==
  socket[p] = "open" =>
    /\ NoExceptions(answers[p])
    /\ thread[p] = "reading" => UpTo(sent[p] - Len(inbox[p]), answers[p])
    /\ thread[p] \in Working => UpTo(request[p] - 1, answers[p])
AnswersReachUnread == \A p \in Peers : Answered(p)

(* What is about to be answered has been handled. *)
WritesAreApplied ==
  \A p \in Peers :
    thread[p] = "writing" => \E k \in 1 .. Len(applied) : applied[k] = <<p, request[p]>>

(* With the facts that make the properties inductive. *)
ServerInv ==
  /\ ServerTypeOK /\ QueuedIsFresh /\ PermitsMatchThreads /\ GuardIsHeld
  /\ UnreadIsLatest /\ AppliedInOrder /\ AnswersReachUnread /\ WritesAreApplied
  /\ AnswersInOrder /\ limit \in Limits
=============================================================================
