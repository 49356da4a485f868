-------------------------- MODULE AbciServerProofs --------------------------
(***************************************************************************)
(* Proofs about AbciServer, for every number of peers, connections,        *)
(* requests and faults and every connection limit.  ServerInv is           *)
(* inductive.  What a step does to one peer is one of eight changes        *)
(* (Changes), shown once per action; each conjunct of the invariant is     *)
(* then shown per change, from lemmas about lists.                         *)
(***************************************************************************)
EXTENDS AbciServer, TLAPS

(***************************************************************************)
(* Lists.                                                                  *)
(***************************************************************************)
LEMMA AppendFacts ==
  ASSUME NEW S, NEW s \in Seq(S), NEW x \in S
  PROVE  /\ Append(s, x) \in Seq(S) /\ Len(s) \in Nat /\ Len(Append(s, x)) = Len(s) + 1
         /\ \A i \in 1 .. Len(s) : Append(s, x)[i] = s[i]
         /\ Append(s, x)[Len(s) + 1] = x
OBVIOUS

LEMMA TailFacts ==
  ASSUME NEW s \in Seq(Nat), s # <<>>
  PROVE  /\ Tail(s) \in Seq(Nat) /\ Len(s) \in Nat \ {0} /\ Len(Tail(s)) = Len(s) - 1
         /\ \A i \in 1 .. Len(s) - 1 : Tail(s)[i] = s[i + 1]
         /\ Head(s) = s[1] /\ Head(s) \in Nat
OBVIOUS

LEMMA EmptyFacts ==
  /\ <<>> \in Seq(Nat) /\ Len(<<>>) = 0 /\ 1 .. 0 = {}
  /\ \A n : LastSent(<<>>, n) /\ UpTo(n, <<>>)
  /\ NoExceptions(<<>>)
BY DEF LastSent, UpTo, NoExceptions

(* What a peer writes comes after what it wrote before. *)
LEMMA LastSentAppend ==
  ASSUME NEW box \in Seq(Nat), NEW n \in Nat, NEW x \in {0, n + 1}, LastSent(box, n)
  PROVE  LastSent(Append(box, x), n + 1)
<1>. DEFINE l == Len(box)
            longer == Append(box, x)
<1>1. /\ l \in Nat /\ Len(longer) = l + 1 /\ longer[l + 1] = x
      /\ \A i \in 1 .. l : longer[i] = box[i]
  BY AppendFacts
<1>2. \A i \in 1 .. l : box[i] \in Nat /\ (box[i] # 0 => box[i] + l = n + i)
  BY DEF LastSent
<1>. HIDE DEF l, longer
<1>3. ASSUME NEW i \in 1 .. l + 1, longer[i] # 0
      PROVE  longer[i] + (l + 1) = (n + 1) + i
  <2>1. CASE i = l + 1
    BY <1>1, <1>3, <2>1
  <2>2. CASE i \in 1 .. l
    <3>. DEFINE a == box[i]
    <3>1. longer[i] = a /\ a \in Nat /\ a + l = n + i
      BY <1>1, <1>2, <1>3, <2>2
    <3>. HIDE DEF a
    <3>2. a + (l + 1) = (n + 1) + i
      BY <1>1, <2>2, <3>1
    <3>. QED
      BY <3>1, <3>2
  <2>. QED
    BY <1>1, <2>1, <2>2
<1>4. LastSent(longer, n + 1)
  BY <1>1, <1>3 DEF LastSent
<1>. QED
  BY <1>4 DEF longer

(* The first of the unread bytes was sent just before the rest. *)
LEMMA LastSentTail ==
  ASSUME NEW box \in Seq(Nat), NEW n \in Nat, box # <<>>, Head(box) # 0, LastSent(box, n)
  PROVE  LastSent(Tail(box), n) /\ Head(box) + Len(Tail(box)) = n
<1>. DEFINE l == Len(box)
            rest == Tail(box)
            h == Head(box)
<1>1. /\ l \in Nat \ {0} /\ Len(rest) = l - 1 /\ h = box[1] /\ h \in Nat
      /\ \A i \in 1 .. l - 1 : rest[i] = box[i + 1]
  BY TailFacts
<1>2. \A i \in 1 .. l : box[i] \in Nat /\ (box[i] # 0 => box[i] + l = n + i)
  BY DEF LastSent
<1>3. h + l = n + 1
  BY <1>1, <1>2
<1>. HIDE DEF l, rest, h
<1>4. h + (l - 1) = n
  BY <1>1, <1>3
<1>5. ASSUME NEW i \in 1 .. l - 1, rest[i] # 0
      PROVE  rest[i] + (l - 1) = n + i
  <2>. DEFINE a == box[i + 1]
  <2>1. rest[i] = a /\ i + 1 \in 1 .. l
    BY <1>1, <1>5
  <2>2. a \in Nat /\ a + l = n + (i + 1)
    BY <1>2, <1>5, <2>1
  <2>. HIDE DEF a
  <2>3. a + (l - 1) = n + i
    BY <1>1, <2>2
  <2>. QED
    BY <2>1, <2>3
<1>6. LastSent(rest, n) /\ h + Len(rest) = n
  BY <1>1, <1>4, <1>5 DEF LastSent
<1>. QED
  BY <1>6 DEF rest, h

(* The next answer follows the last. *)
LEMMA UpToAppend ==
  ASSUME NEW list \in Seq(Nat), NEW r \in Nat, UpTo(r - 1, list)
  PROVE  UpTo(r, Append(list, r))
<1>. DEFINE l == Len(list)
            longer == Append(list, r)
<1>1. /\ l \in Nat /\ Len(longer) = l + 1 /\ longer[l + 1] = r
      /\ \A i \in 1 .. l : longer[i] = list[i]
  BY AppendFacts
<1>2. \A i \in 1 .. l : list[i] \in Nat /\ list[i] + (l - i) = r - 1
  BY DEF UpTo
<1>. HIDE DEF l, longer
<1>3. ASSUME NEW i \in 1 .. l + 1
      PROVE  longer[i] + ((l + 1) - i) = r
  <2>1. CASE i = l + 1
    BY <1>1, <2>1
  <2>2. CASE i \in 1 .. l
    <3>. DEFINE a == list[i]
    <3>1. longer[i] = a /\ a \in Nat /\ a + (l - i) = r - 1
      BY <1>1, <1>2, <2>2
    <3>. HIDE DEF a
    <3>2. a + ((l + 1) - i) = r
      BY <1>1, <2>2, <3>1
    <3>. QED
      BY <3>1, <3>2
  <2>. QED
    BY <1>1, <2>1, <2>2
<1>4. UpTo(r, longer)
  BY <1>1, <1>3 DEF UpTo
<1>. QED
  BY <1>4 DEF longer

(* What AnswersInOrder says of the answers of one peer. *)
InOrder(list) ==
  /\ \A i \in 1 .. Len(list) - 1 : list[i] # 0
  /\ \A i, j \in 1 .. Len(list) : (i < j /\ list[j] # 0) => list[j] = list[i] + (j - i)
Handled(log, p, list) ==
  \A i \in 1 .. Len(list) : list[i] # 0 => \E k \in 1 .. Len(log) : log[k] = <<p, list[i]>>

LEMMA UpToInOrder ==
  ASSUME NEW list \in Seq(Nat), NEW last \in Int, NoExceptions(list), UpTo(last, list)
  PROVE  InOrder(list)
<1>. DEFINE l == Len(list)
<1>1. l \in Nat /\ \A i \in 1 .. l : list[i] \in Nat /\ list[i] + (l - i) = last
  BY DEF UpTo
<1>2. \A i \in 1 .. l - 1 : list[i] # 0
  BY <1>1 DEF NoExceptions
<1>. HIDE DEF l
<1>3. ASSUME NEW i \in 1 .. l, NEW j \in 1 .. l
      PROVE  list[j] = list[i] + (j - i)
  <2>. DEFINE a == list[i]
              b == list[j]
  <2>1. a \in Nat /\ b \in Nat /\ a + (l - i) = last /\ b + (l - j) = last
    BY <1>1
  <2>. HIDE DEF a, b
  <2>2. b = a + (j - i)
    BY <1>1, <1>3, <2>1
  <2>. QED
    BY <2>2 DEF a, b
<1>. QED
  BY <1>2, <1>3 DEF InOrder, l

(* An exception may come last. *)
LEMMA InOrderAppend ==
  ASSUME NEW list \in Seq(Nat), NoExceptions(list), InOrder(list)
  PROVE  InOrder(Append(list, 0))
<1>. DEFINE l == Len(list)
            longer == Append(list, 0)
<1>1. /\ l \in Nat /\ Len(longer) = l + 1 /\ longer[l + 1] = 0
      /\ \A i \in 1 .. l : longer[i] = list[i]
  BY AppendFacts
<1>2. \A i \in 1 .. l : list[i] # 0
  BY DEF NoExceptions
<1>3. \A i, j \in 1 .. l : i < j => list[j] = list[i] + (j - i)
  BY <1>2 DEF InOrder
<1>. HIDE DEF l, longer
<1>4. \A i \in 1 .. Len(longer) - 1 : longer[i] # 0
  BY <1>1, <1>2
<1>5. ASSUME NEW i \in 1 .. l + 1, NEW j \in 1 .. l + 1, i < j, longer[j] # 0
      PROVE  longer[j] = longer[i] + (j - i)
  <2>1. i \in 1 .. l /\ j \in 1 .. l
    BY <1>1, <1>5
  <2>. QED
    BY <1>1, <1>3, <1>5, <2>1
<1>6. InOrder(longer)
  BY <1>1, <1>4, <1>5 DEF InOrder
<1>. QED
  BY <1>6 DEF longer

(***************************************************************************)
(* What a step does to one peer.                                           *)
(***************************************************************************)
(* Steps of the server that concern one peer, and those that concern none. *)
OfPeer(p) == ThreadStep(p) \/ PeerStep(p) \/ Accept(p)
OfNobody ==
  RequestShutdown \/ CheckShutdown \/ AcceptNothing \/ AcceptFails \/ DropPermit

LEMMA NextCases ==
  ASSUME Next
  PROVE  OfNobody \/ \E p \in Peers : OfPeer(p)
BY DEF Next, Keeping, LoopStep, OfNobody, OfPeer

(* The eight changes of what belongs to a peer. *)
Connects(p) ==
  /\ thread[p] = "none" /\ socket'[p] = "queued" /\ answers'[p] = <<>>
  /\ inbox'[p] = inbox[p] /\ sent'[p] = sent[p] /\ thread'[p] = thread[p]
  /\ request'[p] = request[p]
Sends(p) ==
  /\ \E x \in {0, sent[p] + 1} : inbox'[p] = Append(inbox[p], x)
  /\ sent'[p] = sent[p] + 1 /\ socket'[p] = socket[p] /\ thread'[p] = thread[p]
  /\ request'[p] = request[p] /\ answers'[p] = answers[p]
Hangs(p) ==
  /\ socket'[p] = "closed"
  /\ inbox'[p] = inbox[p] \/ (socket[p] = "queued" /\ inbox'[p] = <<>>)
  /\ sent'[p] = sent[p] /\ thread'[p] = thread[p]
  /\ request'[p] = request[p] /\ answers'[p] = answers[p]
Starts(p) ==
  /\ socket[p] = "queued" /\ socket'[p] = "open" /\ thread'[p] = "configuring"
  /\ inbox'[p] = inbox[p] /\ sent'[p] = sent[p]
  /\ request'[p] = request[p] /\ answers'[p] = answers[p]
Closes(p) ==
  /\ thread[p] # "none" /\ socket'[p] = "closed" /\ thread'[p] = "none" /\ inbox'[p] = <<>>
  /\ sent'[p] = sent[p] /\ request'[p] = request[p]
  /\ answers'[p] = answers[p] \/ (socket[p] = "open" /\ answers'[p] = Append(answers[p], 0))
Moves(p) ==
  /\ \/ thread[p] = "configuring" /\ thread'[p] = "reading"
     \/ thread[p] \in {"reading", "waiting", "handling"} /\ thread'[p] = "failing"
     \/ thread[p] = "waiting" /\ thread'[p] = "handling"
     \/ thread[p] = "handling" /\ thread'[p] = "writing"
  /\ inbox'[p] = inbox[p] /\ sent'[p] = sent[p] /\ socket'[p] = socket[p]
  /\ request'[p] = request[p] /\ answers'[p] = answers[p]
Takes(p) ==
  /\ thread[p] = "reading" /\ thread'[p] = "waiting"
  /\ inbox[p] # <<>> /\ Head(inbox[p]) # 0
  /\ request'[p] = Head(inbox[p]) /\ inbox'[p] = Tail(inbox[p])
  /\ sent'[p] = sent[p] /\ socket'[p] = socket[p] /\ answers'[p] = answers[p]
Replies(p) ==
  /\ thread[p] = "writing" /\ thread'[p] = "reading"
  /\ IF socket[p] = "open" THEN answers'[p] = Append(answers[p], request[p])
     ELSE answers'[p] = answers[p]
  /\ inbox'[p] = inbox[p] /\ sent'[p] = sent[p] /\ socket'[p] = socket[p]
  /\ request'[p] = request[p]

LEMMA Changes ==
  ASSUME ServerTypeOK, NEW p \in Peers, OfPeer(p)
  PROVE  \/ Connects(p) \/ Sends(p) \/ Hangs(p) \/ Starts(p) \/ Closes(p)
         \/ Moves(p) \/ Takes(p) \/ Replies(p)
<1>. USE DEF ServerTypeOK
<1>1. CASE Connect(p)
  BY <1>1 DEF Connect, Connects
<1>2. CASE Send(p)
  BY <1>2 DEF Send, Sends
<1>3. CASE SendMalformed(p)
  BY <1>3 DEF SendMalformed, Sends
<1>4. CASE Disconnect(p)
  BY <1>4 DEF Disconnect, Hangs
<1>5. CASE Accept(p)
  <2>1. CASE /\ TryAcquireConnection
             /\ thread' = [thread EXCEPT ![p] = "configuring"]
             /\ socket' = [socket EXCEPT ![p] = "open"]
             /\ UNCHANGED inbox
    BY <1>5, <2>1 DEF Accept, Starts
  <2>2. CASE /\ socket' = [socket EXCEPT ![p] = "closed"]
             /\ inbox' = [inbox EXCEPT ![p] = <<>>]
             /\ UNCHANGED <<active, thread>>
    BY <1>5, <2>2 DEF Accept, Hangs
  <2>. QED
    BY Zenon, <1>5, <2>1, <2>2 DEF Accept
<1>6. CASE ConfigureSocket(p)
  <2>1. CASE CloseStream(p)
    BY <1>6, <2>1 DEF ConfigureSocket, CloseStream, Closes
  <2>2. CASE thread' = [thread EXCEPT ![p] = "reading"] /\ UNCHANGED <<socket, inbox>>
    BY <1>6, <2>2 DEF ConfigureSocket, Moves
  <2>. QED
    BY Zenon, <1>6, <2>1, <2>2 DEF ConfigureSocket
<1>7. CASE ReadRequest(p)
  BY <1>7 DEF ReadRequest, Takes
<1>8. CASE ReadEnd(p)
  BY <1>8 DEF ReadEnd, CloseStream, Closes
<1>9. CASE ReadMalformed(p) \/ ReadTimeout(p)
  BY <1>9 DEF ReadMalformed, ReadTimeout, ReadFails, Moves, peerVars
<1>10. CASE LockCore(p)
  BY <1>10 DEF LockCore, Moves, peerVars
<1>11. CASE Dispatch(p)
  BY <1>11 DEF Dispatch, Moves, peerVars
<1>12. CASE DispatchPanics(p)
  BY <1>12 DEF DispatchPanics, CloseStream, Closes
<1>13. CASE WriteResponse(p)
  BY <1>13 DEF WriteResponse, Replies, peerVars
<1>14. CASE WriteFails(p)
  BY <1>14 DEF WriteFails, CloseStream, Closes
<1>15. CASE WriteException(p)
  BY <1>15 DEF WriteException, CloseStream, Closes
<1>. QED
  BY <1>1, <1>2, <1>3, <1>4, <1>5, <1>6, <1>7, <1>8, <1>9, <1>10, <1>11, <1>12, <1>13,
     <1>14, <1>15 DEF OfPeer, ThreadStep, PeerStep

(* A step for one peer leaves what belongs to the others. *)
LEMMA OthersKept ==
  ASSUME ServerTypeOK, NEW p \in Peers, OfPeer(p), NEW q \in Peers, q # p
  PROVE  /\ socket'[q] = socket[q] /\ inbox'[q] = inbox[q] /\ sent'[q] = sent[q]
         /\ thread'[q] = thread[q] /\ request'[q] = request[q] /\ answers'[q] = answers[q]
<1>1. CASE Connect(p) \/ Send(p) \/ SendMalformed(p) \/ Disconnect(p) \/ Accept(p)
  BY <1>1 DEF ServerTypeOK, Connect, Send, SendMalformed, Disconnect, Accept
<1>2. CASE ConfigureSocket(p) \/ ReadRequest(p) \/ ReadEnd(p) \/ ReadMalformed(p) \/ ReadTimeout(p)
  BY <1>2 DEF ServerTypeOK, ConfigureSocket, ReadRequest, ReadEnd, ReadMalformed,
              ReadTimeout, ReadFails, CloseStream, peerVars
<1>3. CASE LockCore(p) \/ Dispatch(p) \/ DispatchPanics(p)
  BY <1>3 DEF ServerTypeOK, LockCore, Dispatch, DispatchPanics, CloseStream, peerVars
<1>4. CASE WriteResponse(p) \/ WriteFails(p) \/ WriteException(p)
  BY <1>4 DEF ServerTypeOK, WriteResponse, WriteFails, WriteException, CloseStream, peerVars
<1>. QED
  BY <1>1, <1>2, <1>3, <1>4 DEF OfPeer, ThreadStep, PeerStep

(* The other steps leave what belongs to any peer, and the core. *)
LEMMA AllKept ==
  ASSUME OfNobody
  PROVE  UNCHANGED <<socket, inbox, sent, thread, request, answers, lock, poisoned, applied>>
BY DEF OfNobody, RequestShutdown, CheckShutdown, AcceptNothing, AcceptFails, DropPermit,
       peerVars, coreVars

(***************************************************************************)
(* Types.                                                                  *)
(***************************************************************************)
LEMMA CloseStreamType ==
  ASSUME ServerTypeOK, NEW p \in Peers, CloseStream(p)
  PROVE  /\ thread' \in [Peers -> ThreadStates] /\ leaving' \in Nat
         /\ socket' \in [Peers -> {"closed", "queued", "open"}]
         /\ inbox' \in [Peers -> Seq(Nat)]
<1>1. <<>> \in Seq(Nat)
  OBVIOUS
<1>. QED
  BY <1>1 DEF ServerTypeOK, CloseStream, ThreadStates

(* Every step keeps the types. *)
LEMMA TypePeer ==
  ASSUME ServerTypeOK, NEW p \in Peers, OfPeer(p)
  PROVE  ServerTypeOK'
<1>1. CASE Connect(p)
  BY <1>1, EmptyFacts DEF ServerTypeOK, Connect, coreVars
<1>2. CASE Send(p)
  <2>1. sent' \in [Peers -> Nat] /\ inbox' \in [Peers -> Seq(Nat)]
    BY <1>2, AppendFacts DEF ServerTypeOK, Send
  <2>. QED
    BY Zenon, <1>2, <2>1 DEF ServerTypeOK, Send, coreVars
<1>3. CASE SendMalformed(p)
  <2>1. sent' \in [Peers -> Nat] /\ inbox' \in [Peers -> Seq(Nat)]
    BY <1>3, AppendFacts DEF ServerTypeOK, SendMalformed
  <2>. QED
    BY Zenon, <1>3, <2>1 DEF ServerTypeOK, SendMalformed, coreVars
<1>4. CASE Disconnect(p)
  BY <1>4, EmptyFacts DEF ServerTypeOK, Disconnect, coreVars
<1>5. CASE Accept(p)
  <2>1. CASE /\ TryAcquireConnection
             /\ thread' = [thread EXCEPT ![p] = "configuring"]
             /\ socket' = [socket EXCEPT ![p] = "open"]
             /\ UNCHANGED inbox
    BY <1>5, <2>1 DEF ServerTypeOK, Accept, TryAcquireConnection, ThreadStates, coreVars
  <2>2. CASE /\ socket' = [socket EXCEPT ![p] = "closed"]
             /\ inbox' = [inbox EXCEPT ![p] = <<>>]
             /\ UNCHANGED <<active, thread>>
    BY <1>5, <2>2, EmptyFacts DEF ServerTypeOK, Accept, coreVars
  <2>. QED
    BY Zenon, <1>5, <2>1, <2>2 DEF Accept
<1>6. CASE ConfigureSocket(p)
  <2>1. CASE CloseStream(p)
    BY Zenon, <1>6, <2>1, CloseStreamType DEF ServerTypeOK, ConfigureSocket, coreVars
  <2>2. CASE thread' = [thread EXCEPT ![p] = "reading"] /\ UNCHANGED <<socket, inbox, leaving>>
    BY <1>6, <2>2 DEF ServerTypeOK, ConfigureSocket, ThreadStates, coreVars
  <2>. QED
    BY Zenon, <1>6, <2>1, <2>2 DEF ConfigureSocket
<1>7. CASE ReadRequest(p)
  <2>1. request' \in [Peers -> Nat] /\ inbox' \in [Peers -> Seq(Nat)]
    BY <1>7, TailFacts DEF ServerTypeOK, ReadRequest
  <2>2. thread' \in [Peers -> ThreadStates]
    BY Zenon, <1>7 DEF ServerTypeOK, ReadRequest, ThreadStates
  <2>. QED
    BY Zenon, <1>7, <2>1, <2>2 DEF ServerTypeOK, ReadRequest, coreVars
<1>8. CASE ReadMalformed(p) \/ ReadTimeout(p)
  BY Zenon, <1>8 DEF ServerTypeOK, ReadMalformed, ReadTimeout, ReadFails, ThreadStates,
         peerVars, coreVars
<1>9. CASE LockCore(p)
  <2>1. thread' \in [Peers -> ThreadStates] /\ lock' \in Peers \cup {NoPeer}
    BY Zenon, <1>9 DEF ServerTypeOK, LockCore, ThreadStates
  <2>. QED
    BY <1>9, <2>1 DEF ServerTypeOK, LockCore, peerVars
<1>10. CASE Dispatch(p)
  <2>1. <<p, request[p]>> \in Peers \X Nat
    BY DEF ServerTypeOK
  <2>2. applied' \in Seq(Peers \X Nat)
    BY <1>10, <2>1, AppendFacts DEF ServerTypeOK, Dispatch
  <2>3. thread' \in [Peers -> ThreadStates]
    BY Zenon, <1>10 DEF ServerTypeOK, Dispatch, ThreadStates
  <2>. QED
    BY <1>10, <2>2, <2>3 DEF ServerTypeOK, Dispatch, peerVars
<1>11. CASE WriteResponse(p)
  BY <1>11 DEF ServerTypeOK, WriteResponse, ThreadStates, peerVars, coreVars
<1>12. CASE ReadEnd(p) \/ WriteFails(p)
  BY Zenon, <1>12, CloseStreamType DEF ServerTypeOK, ReadEnd, WriteFails, coreVars
<1>13. CASE DispatchPanics(p)
  BY Zenon, <1>13, CloseStreamType DEF ServerTypeOK, DispatchPanics
<1>14. CASE WriteException(p)
  <2>1. answers' \in [Peers -> Seq(Nat)]
    BY <1>14 DEF ServerTypeOK, WriteException
  <2>. QED
    BY Zenon, <1>14, <2>1, CloseStreamType DEF ServerTypeOK, WriteException, coreVars
<1>. QED
  BY <1>1, <1>2, <1>3, <1>4, <1>5, <1>6, <1>7, <1>8, <1>9, <1>10, <1>11, <1>12, <1>13,
     <1>14 DEF OfPeer, ThreadStep, PeerStep

LEMMA TypeStep ==
  ASSUME ServerTypeOK, Next
  PROVE  ServerTypeOK'
<1>1. CASE RequestShutdown \/ CheckShutdown \/ AcceptNothing \/ AcceptFails
  BY <1>1 DEF ServerTypeOK, RequestShutdown, CheckShutdown, AcceptNothing, AcceptFails,
              peerVars, coreVars
<1>2. CASE DropPermit
  BY <1>2 DEF ServerTypeOK, DropPermit, peerVars, coreVars
<1>. QED
  BY <1>1, <1>2, TypePeer, NextCases DEF OfNobody

(***************************************************************************)
(* The requests and the answers of a peer.                                 *)
(***************************************************************************)
(* The types of what belongs to a peer. *)
LEMMA PeerTypes ==
  ASSUME ServerInv, NEW p \in Peers
  PROVE  /\ inbox[p] \in Seq(Nat) /\ Len(inbox[p]) \in Nat /\ sent[p] \in Nat
         /\ request[p] \in Nat /\ answers[p] \in Seq(Nat)
         /\ Fresh(p) /\ Unread(p) /\ Answered(p)
BY DEF ServerInv, ServerTypeOK, QueuedIsFresh, UnreadIsLatest, AnswersReachUnread

(* Only Connect queues a connection, and it forgets the last one. *)
LEMMA FreshPeer ==
  ASSUME ServerInv, NEW p \in Peers, OfPeer(p)
  PROVE  Fresh(p)'
<1>1. Fresh(p) /\ ServerTypeOK
  BY DEF ServerInv, QueuedIsFresh
<1>2. CASE Connects(p)
  BY <1>1, <1>2 DEF Connects, Fresh
<1>3. CASE Sends(p) \/ Hangs(p) \/ Starts(p)
  BY <1>1, <1>3 DEF Sends, Hangs, Starts, Fresh
<1>4. CASE Closes(p)
  BY <1>1, <1>4 DEF Closes, Fresh
<1>5. CASE Moves(p) \/ Takes(p)
  BY <1>1, <1>5 DEF Moves, Takes, Fresh
<1>6. CASE Replies(p)
  BY <1>1, <1>6 DEF Replies, Fresh
<1>. QED
  BY <1>1, <1>2, <1>3, <1>4, <1>5, <1>6, Changes

(* A thread reads from the front what its peer writes at the back. *)
LEMMA UnreadPeer ==
  ASSUME ServerInv, NEW p \in Peers, OfPeer(p)
  PROVE  Unread(p)'
<1>. DEFINE l == Len(inbox[p])
            n == sent[p]
            r == request[p]
<1>1. /\ l \in Nat /\ n \in Nat /\ r \in Nat /\ LastSent(inbox[p], n) /\ r + l <= n
      /\ thread[p] \in Working => r # 0 /\ r + l = n
  BY PeerTypes DEF Unread
<1>2. ASSUME inbox'[p] = inbox[p], sent'[p] = sent[p], request'[p] = request[p],
             thread'[p] \in Working => thread[p] \in Working
      PROVE  Unread(p)'
  BY <1>1, <1>2 DEF Unread
<1>3. ASSUME inbox'[p] = <<>>, sent'[p] = sent[p], request'[p] = request[p],
             thread'[p] \notin Working
      PROVE  Unread(p)'
  <2>. HIDE DEF l, n, r
  <2>1. r <= n
    BY <1>1
  <2>2. LastSent(<<>>, n) /\ Len(<<>>) = 0
    BY EmptyFacts
  <2>3. LastSent(inbox'[p], sent'[p]) /\ request'[p] + Len(inbox'[p]) <= sent'[p]
    BY <1>1, <1>3, <2>1, <2>2 DEF n, r
  <2>. QED
    BY <1>3, <2>3 DEF Unread
<1>4. CASE Sends(p)
  <2>1. PICK x \in {0, sent[p] + 1} : inbox'[p] = Append(inbox[p], x)
    BY <1>4 DEF Sends
  <2>2. /\ sent'[p] = n + 1 /\ request'[p] = r /\ thread'[p] = thread[p]
    BY <1>4 DEF Sends
  <2>3. x \in Nat /\ inbox[p] \in Seq(Nat)
    BY <1>1, PeerTypes
  <2>4. LastSent(inbox'[p], n + 1) /\ Len(inbox'[p]) = l + 1
    BY <1>1, <2>1, <2>3, LastSentAppend, AppendFacts
  <2>. HIDE DEF l, n, r
  <2>5. r + (l + 1) <= n + 1 /\ (thread[p] \in Working => r # 0 /\ r + (l + 1) = n + 1)
    BY <1>1
  <2>. QED
    BY <2>2, <2>4, <2>5 DEF Unread
<1>5. CASE Takes(p)
  <2>1. /\ inbox[p] \in Seq(Nat) /\ inbox[p] # <<>> /\ Head(inbox[p]) # 0
        /\ request'[p] = Head(inbox[p]) /\ inbox'[p] = Tail(inbox[p]) /\ sent'[p] = n
    BY <1>5, PeerTypes DEF Takes
  <2>2. LastSent(inbox'[p], n) /\ request'[p] + Len(inbox'[p]) = n
    BY <1>1, <2>1, LastSentTail
  <2>3. request'[p] + Len(inbox'[p]) <= n
    BY <1>1, <2>2
  <2>. QED
    BY <2>1, <2>2, <2>3 DEF Unread
<1>6. CASE Connects(p)
  BY <1>2, <1>6 DEF Connects
<1>7. CASE Hangs(p)
  <2>1. CASE inbox'[p] = inbox[p]
    BY <1>2, <1>7, <2>1 DEF Hangs
  <2>2. CASE socket[p] = "queued" /\ inbox'[p] = <<>>
    <3>1. thread[p] = "none"
      BY <2>2, PeerTypes DEF Fresh
    <3>. QED
      BY <1>3, <1>7, <2>2, <3>1 DEF Hangs, Working
  <2>. QED
    BY <1>7, <2>1, <2>2 DEF Hangs
<1>8. CASE Starts(p)
  BY <1>2, <1>8 DEF Starts, Working
<1>9. CASE Closes(p)
  BY <1>3, <1>9 DEF Closes, Working
<1>10. CASE Moves(p)
  BY <1>2, <1>10 DEF Moves, Working
<1>11. CASE Replies(p)
  BY <1>2, <1>11 DEF Replies, Working
<1>. QED
  BY <1>4, <1>5, <1>6, <1>7, <1>8, <1>9, <1>10, <1>11, Changes DEF ServerInv

(* Every answered request leaves the next one in front. *)
LEMMA AnsweredPeer ==
  ASSUME ServerInv, NEW p \in Peers, OfPeer(p)
  PROVE  Answered(p)'
<1>1. ServerTypeOK /\ Answered(p) /\ Unread(p) /\ Fresh(p) /\ answers[p] \in Seq(Nat)
  BY PeerTypes DEF ServerInv
<1>2. CASE socket'[p] = "closed"
  BY <1>2 DEF Answered
<1>3. CASE Connects(p)
  BY <1>3 DEF Connects, Answered
<1>4. CASE Hangs(p) \/ Closes(p)
  BY <1>2, <1>4 DEF Hangs, Closes
<1>5. CASE Starts(p)
  <2>1. answers'[p] = <<>> /\ thread'[p] \notin Working /\ thread'[p] # "reading"
    BY <1>1, <1>5 DEF Starts, Fresh, Working
  <2>. QED
    BY <2>1, EmptyFacts DEF Answered
<1>6. CASE Sends(p)
  <2>. DEFINE l == Len(inbox[p])
              n == sent[p]
  <2>1. /\ sent'[p] = n + 1 /\ socket'[p] = socket[p] /\ thread'[p] = thread[p]
        /\ request'[p] = request[p] /\ answers'[p] = answers[p]
    BY <1>6 DEF Sends
  <2>2. PICK x \in {0, sent[p] + 1} : inbox'[p] = Append(inbox[p], x)
    BY <1>6 DEF Sends
  <2>3. inbox[p] \in Seq(Nat) /\ l \in Nat /\ n \in Nat /\ x \in Nat
    BY PeerTypes
  <2>4. Len(inbox'[p]) = l + 1
    BY <2>2, <2>3, AppendFacts
  <2>. HIDE DEF l, n
  <2>5. (n + 1) - (l + 1) = n - l
    BY <2>3
  <2>6. sent'[p] - Len(inbox'[p]) = sent[p] - Len(inbox[p])
    BY <2>1, <2>4, <2>5 DEF l, n
  <2>. QED
    BY Zenon, <1>1, <2>1, <2>6 DEF Answered
<1>7. CASE Moves(p)
  <2>1. /\ inbox'[p] = inbox[p] /\ sent'[p] = sent[p] /\ socket'[p] = socket[p]
        /\ request'[p] = request[p] /\ answers'[p] = answers[p]
    BY <1>7 DEF Moves
  <2>2. CASE thread[p] = "configuring" /\ thread'[p] = "reading"
    <3>1. answers'[p] = <<>>
      BY <1>1, <2>1, <2>2 DEF Fresh
    <3>. QED
      BY <2>2, <3>1, EmptyFacts DEF Answered, Working
  <2>3. CASE thread'[p] = "failing"
    BY <1>1, <2>1, <2>3 DEF Answered, Working
  <2>4. CASE thread[p] \in Working /\ thread'[p] \in {"handling", "writing"}
    BY <1>1, <2>1, <2>4 DEF Answered, Working
  <2>. QED
    BY <1>7, <2>2, <2>3, <2>4 DEF Moves, Working
<1>8. CASE Takes(p)
  <2>. DEFINE l == Len(inbox[p])
              n == sent[p]
              h == Head(inbox[p])
  <2>1. /\ thread[p] = "reading" /\ thread'[p] = "waiting" /\ request'[p] = h
        /\ socket'[p] = socket[p] /\ answers'[p] = answers[p]
        /\ inbox[p] # <<>> /\ Head(inbox[p]) # 0
    BY <1>8 DEF Takes
  <2>2. inbox[p] \in Seq(Nat) /\ l \in Nat /\ n \in Nat /\ LastSent(inbox[p], n)
    BY <1>1, PeerTypes DEF Unread
  <2>3. h + Len(Tail(inbox[p])) = n /\ Len(Tail(inbox[p])) = l - 1 /\ h \in Nat
    BY <2>1, <2>2, LastSentTail, TailFacts
  <2>4. h + (l - 1) = n
    BY <2>3
  <2>. HIDE DEF l, n, h
  <2>5. h - 1 = n - l
    BY <2>2, <2>3, <2>4
  <2>6. request'[p] - 1 = sent[p] - Len(inbox[p])
    BY <2>1, <2>5 DEF l, n
  <2>. QED
    BY Zenon, <1>1, <2>1, <2>6 DEF Answered, Working
<1>9. CASE Replies(p)
  <2>1. SUFFICES ASSUME socket'[p] = "open"
                 PROVE  NoExceptions(answers'[p]) /\ UpTo(sent'[p] - Len(inbox'[p]), answers'[p])
    BY <1>9 DEF Answered, Replies, Working
  <2>. DEFINE l == Len(inbox[p])
              n == sent[p]
              r == request[p]
  <2>2. /\ socket[p] = "open" /\ thread[p] = "writing" /\ sent'[p] = n /\ Len(inbox'[p]) = l
        /\ answers'[p] = Append(answers[p], r)
    BY <1>9, <2>1 DEF Replies
  <2>3. /\ l \in Nat /\ n \in Nat /\ r \in Nat /\ r # 0 /\ r + l = n
        /\ NoExceptions(answers[p]) /\ UpTo(r - 1, answers[p])
    BY <1>1, <2>2, PeerTypes DEF Unread, Answered, Working
  <2>4. UpTo(r, answers'[p])
    BY <1>1, <2>2, <2>3, UpToAppend
  <2>5. NoExceptions(answers'[p])
    BY <1>1, <2>2, <2>3, AppendFacts DEF NoExceptions
  <2>. HIDE DEF l, n, r
  <2>6. n - l = r
    BY <2>3
  <2>. QED
    BY <2>2, <2>4, <2>5, <2>6
<1>. QED
  BY <1>1, <1>3, <1>4, <1>5, <1>6, <1>7, <1>8, <1>9, Changes

(* The three for all peers. *)
LEMMA PeersStep ==
  ASSUME ServerInv, Next
  PROVE  QueuedIsFresh' /\ UnreadIsLatest' /\ AnswersReachUnread'
<1>1. ASSUME NEW q \in Peers
      PROVE  Fresh(q)' /\ Unread(q)' /\ Answered(q)'
  <2>1. Fresh(q) /\ Unread(q) /\ Answered(q)
    BY PeerTypes
  <2>2. ASSUME /\ socket'[q] = socket[q] /\ inbox'[q] = inbox[q] /\ sent'[q] = sent[q]
               /\ thread'[q] = thread[q] /\ request'[q] = request[q] /\ answers'[q] = answers[q]
        PROVE  Fresh(q)' /\ Unread(q)' /\ Answered(q)'
    BY Zenon, <2>1, <2>2 DEF Fresh, Unread, Answered
  <2>3. CASE OfNobody
    BY Zenon, <2>2, <2>3, AllKept
  <2>4. ASSUME NEW p \in Peers, OfPeer(p)
        PROVE  Fresh(q)' /\ Unread(q)' /\ Answered(q)'
    <3>1. CASE q = p
      BY <2>4, <3>1, FreshPeer, UnreadPeer, AnsweredPeer
    <3>2. CASE q # p
      BY Zenon, <2>2, <2>4, <3>2, OthersKept DEF ServerInv
    <3>. QED
      BY <3>1, <3>2
  <2>. QED
    BY <2>3, <2>4, NextCases
<1>. QED
  BY <1>1 DEF QueuedIsFresh, UnreadIsLatest, AnswersReachUnread

(***************************************************************************)
(* The guard of the core.                                                  *)
(***************************************************************************)
(* Only lock_core, dispatch and a panic move the guard. *)
LEMMA GuardPeer ==
  ASSUME ServerInv, NoPeer \notin Peers, NEW p \in Peers, OfPeer(p)
  PROVE  GuardIsHeld'
<1>1. GuardIsHeld /\ ServerTypeOK
  BY DEF ServerInv
<1>2. \A q \in Peers : q # p => thread'[q] = thread[q]
  BY <1>1, OthersKept
<1>3. ASSUME UNCHANGED <<lock, poisoned>>, thread[p] # "handling", thread'[p] # "handling"
      PROVE  GuardIsHeld'
  BY <1>1, <1>2, <1>3 DEF GuardIsHeld
<1>4. CASE LockCore(p)
  <2>1. CASE poisoned
    BY <1>1, <1>3, <1>4, <2>1 DEF LockCore, ServerTypeOK
  <2>2. CASE ~poisoned
    <3>1. /\ lock = NoPeer /\ lock' = p /\ thread'[p] = "handling" /\ poisoned' = poisoned
      BY <1>1, <1>4, <2>2 DEF LockCore, ServerTypeOK
    <3>. QED
      BY <1>1, <1>2, <2>2, <3>1 DEF GuardIsHeld
  <2>. QED
    BY <2>1, <2>2
<1>5. ASSUME lock' = NoPeer, thread[p] = "handling", thread'[p] # "handling"
      PROVE  GuardIsHeld'
  BY <1>1, <1>2, <1>5 DEF GuardIsHeld
<1>6. CASE Dispatch(p)
  BY <1>1, <1>5, <1>6 DEF Dispatch, ServerTypeOK
<1>7. CASE DispatchPanics(p)
  BY <1>1, <1>5, <1>7 DEF DispatchPanics, CloseStream, ServerTypeOK
<1>8. CASE Connect(p) \/ Send(p) \/ SendMalformed(p) \/ Disconnect(p)
  BY <1>1, <1>2, <1>8 DEF Connect, Send, SendMalformed, Disconnect, coreVars, GuardIsHeld
<1>9. CASE Accept(p)
  <2>1. thread[p] = "none" /\ UNCHANGED <<lock, poisoned>>
    BY Zenon, <1>9 DEF Accept, coreVars, ServerInv, QueuedIsFresh, Fresh
  <2>2. thread'[p] \in {"none", "configuring"}
    BY <1>1, <1>9, <2>1 DEF Accept, ServerTypeOK
  <2>. QED
    BY <1>3, <2>1, <2>2
<1>10. CASE ConfigureSocket(p)
  <2>1. thread'[p] \in {"none", "reading"}
    BY <1>1, <1>10 DEF ConfigureSocket, CloseStream, ServerTypeOK
  <2>. QED
    BY <1>3, <1>10, <2>1 DEF ConfigureSocket, coreVars
<1>11. CASE ReadRequest(p) \/ ReadEnd(p) \/ ReadMalformed(p) \/ ReadTimeout(p)
  <2>1. thread[p] = "reading" /\ UNCHANGED <<lock, poisoned>>
    BY <1>11 DEF ReadRequest, ReadEnd, ReadMalformed, ReadTimeout, ReadFails, coreVars
  <2>2. thread'[p] \in {"waiting", "none", "failing"}
    BY <1>1, <1>11 DEF ReadRequest, ReadEnd, ReadMalformed, ReadTimeout, ReadFails,
                       CloseStream, ServerTypeOK
  <2>. QED
    BY <1>3, <2>1, <2>2
<1>12. CASE WriteResponse(p) \/ WriteFails(p) \/ WriteException(p)
  <2>1. thread[p] \in {"writing", "failing"} /\ UNCHANGED <<lock, poisoned>>
    BY <1>12 DEF WriteResponse, WriteFails, WriteException, coreVars
  <2>2. thread'[p] \in {"reading", "none"}
    BY <1>1, <1>12 DEF WriteResponse, WriteFails, WriteException, CloseStream, ServerTypeOK
  <2>. QED
    BY <1>3, <2>1, <2>2
<1>. QED
  BY <1>4, <1>6, <1>7, <1>8, <1>9, <1>10, <1>11, <1>12 DEF OfPeer, ThreadStep, PeerStep

LEMMA GuardStep ==
  ASSUME ServerInv, NoPeer \notin Peers, Next
  PROVE  GuardIsHeld'
<1>1. CASE OfNobody
  BY <1>1, AllKept DEF ServerInv, GuardIsHeld
<1>. QED
  BY <1>1, GuardPeer, NextCases

(***************************************************************************)
(* What the core has handled.                                              *)
(***************************************************************************)
(* A thread's step appends to what was handled, or leaves it. *)
LEMMA AppliedOfPeer ==
  ASSUME NEW p \in Peers, OfPeer(p)
  PROVE  Dispatch(p) \/ applied' = applied
<1>1. CASE Connect(p) \/ Send(p) \/ SendMalformed(p) \/ Disconnect(p) \/ Accept(p)
  BY <1>1 DEF Connect, Send, SendMalformed, Disconnect, Accept, coreVars
<1>2. CASE ConfigureSocket(p) \/ ReadRequest(p) \/ ReadEnd(p) \/ ReadMalformed(p) \/ ReadTimeout(p)
  BY <1>2 DEF ConfigureSocket, ReadRequest, ReadEnd, ReadMalformed, ReadTimeout, ReadFails,
              coreVars
<1>3. CASE LockCore(p) \/ DispatchPanics(p)
  BY <1>3 DEF LockCore, DispatchPanics
<1>4. CASE WriteResponse(p) \/ WriteFails(p) \/ WriteException(p)
  BY <1>4 DEF WriteResponse, WriteFails, WriteException, coreVars
<1>. QED
  BY <1>1, <1>2, <1>3, <1>4 DEF OfPeer, ThreadStep, PeerStep

LEMMA AppliedGrows ==
  ASSUME ServerTypeOK, Next
  PROVE  \A k \in 1 .. Len(applied) : k \in 1 .. Len(applied') /\ applied'[k] = applied[k]
<1>1. ASSUME NEW p \in Peers, Dispatch(p)
      PROVE  \A k \in 1 .. Len(applied) : k \in 1 .. Len(applied') /\ applied'[k] = applied[k]
  <2>1. <<p, request[p]>> \in Peers \X Nat /\ applied \in Seq(Peers \X Nat)
    BY DEF ServerTypeOK
  <2>2. applied' = Append(applied, <<p, request[p]>>)
    BY <1>1 DEF Dispatch
  <2>. QED
    BY <2>1, <2>2, AppendFacts
<1>. QED
  BY <1>1, NextCases, AppliedOfPeer, AllKept

(* Numbers only grow along what threads take from their peers. *)
LEMMA AppliedPeer ==
  ASSUME ServerInv, NEW p \in Peers, OfPeer(p)
  PROVE  AppliedInOrder'
<1>1. AppliedInOrder /\ ServerTypeOK
  BY DEF ServerInv
<1>2. \A q \in Peers : q # p => thread'[q] = thread[q] /\ request'[q] = request[q]
  BY <1>1, OthersKept
<1>3. applied \in Seq(Peers \X Nat) /\ request[p] \in Nat /\ Len(applied) \in Nat
  BY <1>1 DEF ServerTypeOK
<1>4. \A k \in 1 .. Len(applied) : applied[k] \in Peers \X Nat
  BY <1>3
<1>5. ASSUME applied' = applied, request'[p] = request[p],
             thread'[p] \in {"waiting", "handling"} => thread[p] \in {"waiting", "handling"}
      PROVE  AppliedInOrder'
  BY <1>1, <1>2, <1>5 DEF AppliedInOrder
<1>6. CASE ReadRequest(p)
  <2>. DEFINE l == Len(inbox[p])
              n == sent[p]
              r == request[p]
              h == Head(inbox[p])
  <2>1. /\ inbox[p] # <<>> /\ h # 0 /\ request'[p] = h /\ applied' = applied
    BY <1>1, <1>6 DEF ReadRequest, ServerTypeOK, coreVars
  <2>2. /\ inbox[p] \in Seq(Nat) /\ n \in Nat /\ r \in Nat /\ l \in Nat
        /\ LastSent(inbox[p], n) /\ r + l <= n
    BY PeerTypes DEF Unread
  <2>3. h \in Nat /\ Len(Tail(inbox[p])) = l - 1 /\ h + Len(Tail(inbox[p])) = n
    BY <2>1, <2>2, LastSentTail, TailFacts
  <2>4. h + (l - 1) = n
    BY <2>3
  <2>. HIDE DEF l, n, r, h
  <2>5. h > r
    BY <2>2, <2>3, <2>4
  <2>6. request'[p] > request[p] /\ request'[p] \in Nat
    BY <2>1, <2>3, <2>5 DEF r
  <2>. QED
    <3>1. ASSUME NEW q \in Peers, NEW k \in 1 .. Len(applied), applied[k][1] = q
          PROVE  /\ applied[k][2] <= request'[q]
                 /\ thread'[q] \in {"waiting", "handling"} => applied[k][2] < request'[q]
      <4>1. CASE q # p
        BY <1>1, <1>2, <3>1, <4>1 DEF AppliedInOrder
      <4>2. CASE q = p
        <5>1. applied[k][2] \in Nat /\ applied[k][2] <= request[p]
          BY <1>1, <1>4, <3>1, <4>2 DEF AppliedInOrder
        <5>. QED
          BY <1>3, <2>6, <4>2, <5>1
      <4>. QED
        BY <4>1, <4>2
    <3>. QED
      BY <1>1, <2>1, <3>1 DEF AppliedInOrder
<1>7. CASE Dispatch(p)
  <2>1. /\ applied' = Append(applied, <<p, request[p]>>) /\ thread[p] = "handling"
        /\ request'[p] = request[p]
    BY <1>7 DEF Dispatch
  <2>2. thread'[p] \notin {"waiting", "handling"}
    BY <1>1, <1>7 DEF Dispatch, ServerTypeOK
  <2>3. /\ Len(applied') = Len(applied) + 1
        /\ \A k \in 1 .. Len(applied) : applied'[k] = applied[k]
        /\ applied'[Len(applied) + 1] = <<p, request[p]>>
    BY <1>3, <2>1, AppendFacts
  <2>4. ASSUME NEW q \in Peers, NEW k \in 1 .. Len(applied'), applied'[k][1] = q
        PROVE  /\ applied'[k][2] <= request'[q]
               /\ thread'[q] \in {"waiting", "handling"} => applied'[k][2] < request'[q]
    <3>1. CASE k = Len(applied) + 1
      BY <1>3, <2>1, <2>2, <2>3, <2>4, <3>1
    <3>2. CASE k \in 1 .. Len(applied)
      BY <1>1, <1>2, <2>1, <2>2, <2>3, <2>4, <3>2 DEF AppliedInOrder
    <3>. QED
      BY <1>3, <2>3, <3>1, <3>2
  <2>5. ASSUME NEW i \in 1 .. Len(applied'), NEW j \in 1 .. Len(applied'), i < j,
               applied'[i][1] = applied'[j][1]
        PROVE  applied'[i][2] < applied'[j][2]
    <3>1. i \in 1 .. Len(applied)
      BY <1>3, <2>3, <2>5
    <3>2. CASE j = Len(applied) + 1
      BY <1>1, <1>3, <2>1, <2>3, <2>5, <3>1, <3>2 DEF AppliedInOrder
    <3>3. CASE j \in 1 .. Len(applied)
      BY <1>1, <2>3, <2>5, <3>1, <3>3 DEF AppliedInOrder
    <3>. QED
      BY <1>3, <2>3, <3>2, <3>3
  <2>. QED
    BY <2>4, <2>5 DEF AppliedInOrder
<1>8. CASE Connect(p) \/ Send(p) \/ SendMalformed(p) \/ Disconnect(p)
  BY <1>5, <1>8 DEF Connect, Send, SendMalformed, Disconnect, coreVars
<1>9. CASE Accept(p)
  <2>1. thread'[p] \in {thread[p], "configuring"}
    BY <1>1, <1>9 DEF Accept, ServerTypeOK
  <2>. QED
    BY <1>5, <1>9, <2>1 DEF Accept, coreVars
<1>10. CASE ConfigureSocket(p)
  <2>1. thread'[p] \in {"none", "reading"}
    BY <1>1, <1>10 DEF ConfigureSocket, CloseStream, ServerTypeOK
  <2>. QED
    BY <1>5, <1>10, <2>1 DEF ConfigureSocket, coreVars
<1>11. CASE ReadEnd(p) \/ ReadMalformed(p) \/ ReadTimeout(p) \/ DispatchPanics(p)
  <2>1. thread'[p] \in {"none", "failing"}
    BY <1>1, <1>11 DEF ReadEnd, ReadMalformed, ReadTimeout, ReadFails, DispatchPanics,
                       CloseStream, ServerTypeOK
  <2>. QED
    BY <1>5, <1>11, <2>1 DEF ReadEnd, ReadMalformed, ReadTimeout, ReadFails,
                             DispatchPanics, coreVars
<1>12. CASE LockCore(p)
  BY <1>5, <1>12 DEF LockCore
<1>13. CASE WriteResponse(p) \/ WriteFails(p) \/ WriteException(p)
  <2>1. thread'[p] \in {"none", "reading"}
    BY Zenon, <1>1, <1>13 DEF WriteResponse, WriteFails, WriteException, CloseStream,
           ServerTypeOK
  <2>. QED
    BY <1>5, <1>13, <2>1 DEF WriteResponse, WriteFails, WriteException, coreVars
<1>. QED
  BY <1>6, <1>7, <1>8, <1>9, <1>10, <1>11, <1>12, <1>13 DEF OfPeer, ThreadStep, PeerStep

LEMMA AppliedStep ==
  ASSUME ServerInv, Next
  PROVE  AppliedInOrder'
<1>1. CASE OfNobody
  BY Zenon, <1>1, AllKept DEF ServerInv, AppliedInOrder
<1>. QED
  BY <1>1, AppliedPeer, NextCases

(***************************************************************************)
(* What peers are answered.                                                *)
(***************************************************************************)
(* A thread comes to write only from dispatch, with the request it holds. *)
LEMMA WritingFrom ==
  ASSUME ServerTypeOK, NEW p \in Peers, OfPeer(p), thread'[p] = "writing"
  PROVE  Dispatch(p) \/ (thread[p] = "writing" /\ request'[p] = request[p])
<1>1. CASE Connect(p) \/ Send(p) \/ SendMalformed(p) \/ Disconnect(p)
  BY <1>1 DEF Connect, Send, SendMalformed, Disconnect
<1>2. CASE Accept(p)
  <2>1. thread'[p] \in {thread[p], "configuring"}
    BY <1>2 DEF Accept, ServerTypeOK
  <2>. QED
    BY <1>2, <2>1 DEF Accept
<1>3. CASE ConfigureSocket(p) \/ ReadRequest(p) \/ ReadEnd(p) \/ ReadMalformed(p) \/ ReadTimeout(p)
  BY <1>3 DEF ServerTypeOK, ConfigureSocket, ReadRequest, ReadEnd, ReadMalformed,
              ReadTimeout, ReadFails, CloseStream
<1>4. CASE LockCore(p)
  BY <1>4 DEF ServerTypeOK, LockCore
<1>5. CASE DispatchPanics(p) \/ WriteResponse(p) \/ WriteFails(p) \/ WriteException(p)
  BY <1>5 DEF ServerTypeOK, DispatchPanics, WriteResponse, WriteFails, WriteException,
              CloseStream
<1>. QED
  BY Zenon, <1>1, <1>2, <1>3, <1>4, <1>5 DEF OfPeer, ThreadStep, PeerStep

(* What is about to be answered stays among what was handled. *)
LEMMA WritesStep ==
  ASSUME ServerInv, Next
  PROVE  WritesAreApplied'
<1>1. ServerTypeOK /\ WritesAreApplied
  BY DEF ServerInv
<1>2. SUFFICES ASSUME NEW q \in Peers, thread'[q] = "writing"
               PROVE  \E k \in 1 .. Len(applied') : applied'[k] = <<q, request'[q]>>
  BY DEF WritesAreApplied
<1>3. ASSUME thread[q] = "writing", request'[q] = request[q]
      PROVE  \E k \in 1 .. Len(applied') : applied'[k] = <<q, request'[q]>>
  BY Zenon, <1>1, <1>3, AppliedGrows DEF WritesAreApplied
<1>4. CASE OfNobody
  BY <1>2, <1>3, <1>4, AllKept
<1>5. ASSUME NEW p \in Peers, OfPeer(p)
      PROVE  \E k \in 1 .. Len(applied') : applied'[k] = <<q, request'[q]>>
  <2>1. CASE q # p
    BY <1>1, <1>2, <1>3, <1>5, <2>1, OthersKept
  <2>2. CASE q = p /\ Dispatch(p)
    <3>1. <<q, request[q]>> \in Peers \X Nat /\ applied \in Seq(Peers \X Nat)
      BY <1>1 DEF ServerTypeOK
    <3>2. applied' = Append(applied, <<q, request[q]>>) /\ request'[q] = request[q]
      BY <2>2 DEF Dispatch
    <3>3. /\ Len(applied) \in Nat /\ Len(applied') = Len(applied) + 1
          /\ applied'[Len(applied) + 1] = <<q, request'[q]>>
      BY <3>1, <3>2, AppendFacts
    <3>. QED
      BY <3>3
  <2>3. CASE q = p /\ ~Dispatch(p)
    BY <1>1, <1>2, <1>3, <1>5, <2>3, WritingFrom
  <2>. QED
    BY <2>1, <2>2, <2>3
<1>. QED
  BY <1>4, <1>5, NextCases

(* Every answer follows the one before. *)
LEMMA AnswersStep ==
  ASSUME ServerInv, Next
  PROVE  AnswersInOrder'
<1>1. ServerTypeOK /\ ServerTypeOK'
  BY TypeStep DEF ServerInv
<1>2. /\ DOMAIN applied = 1 .. Len(applied) /\ DOMAIN applied' = 1 .. Len(applied')
      /\ \A q \in Peers : /\ answers[q] \in Seq(Nat) /\ DOMAIN answers[q] = 1 .. Len(answers[q])
                          /\ DOMAIN answers'[q] = 1 .. Len(answers'[q])
  BY <1>1 DEF ServerTypeOK
<1>3. \A q \in Peers : InOrder(answers[q]) /\ Handled(applied, q, answers[q])
  BY Zenon, <1>2 DEF ServerInv, AnswersInOrder, InOrder, Handled
<1>4. SUFFICES ASSUME NEW q \in Peers
               PROVE  InOrder(answers'[q]) /\ Handled(applied', q, answers'[q])
  BY Zenon, <1>2 DEF AnswersInOrder, InOrder, Handled
<1>5. ASSUME answers'[q] = answers[q]
      PROVE  InOrder(answers'[q]) /\ Handled(applied', q, answers'[q])
  BY Zenon, <1>1, <1>3, <1>5, AppliedGrows DEF Handled
<1>6. ASSUME NEW n \in Nat, answers'[q] = Append(answers[q], n), InOrder(answers'[q]),
             n # 0 => \E k \in 1 .. Len(applied) : applied[k] = <<q, n>>
      PROVE  InOrder(answers'[q]) /\ Handled(applied', q, answers'[q])
  <2>1. /\ Len(answers[q]) \in Nat /\ Len(answers'[q]) = Len(answers[q]) + 1
        /\ \A i \in 1 .. Len(answers[q]) : answers'[q][i] = answers[q][i]
        /\ answers'[q][Len(answers[q]) + 1] = n
    BY <1>2, <1>6, AppendFacts
  <2>2. ASSUME NEW i \in 1 .. Len(answers'[q]), answers'[q][i] # 0
        PROVE  \E k \in 1 .. Len(applied) : applied[k] = <<q, answers'[q][i]>>
    <3>1. CASE i = Len(answers[q]) + 1
      BY <1>6, <2>1, <2>2, <3>1
    <3>2. CASE i \in 1 .. Len(answers[q])
      BY Zenon, <1>3, <2>1, <2>2, <3>2 DEF Handled
    <3>3. i \in 1 .. Len(answers[q]) + 1
      BY <2>1, <2>2
    <3>. QED
      BY <2>1, <3>1, <3>2, <3>3
  <2>3. Handled(applied', q, answers'[q])
    BY Zenon, <1>1, <2>2, AppliedGrows DEF Handled
  <2>. QED
    BY <1>6, <2>3
<1>7. CASE OfNobody
  BY <1>5, <1>7, AllKept
<1>8. ASSUME NEW p \in Peers, OfPeer(p)
      PROVE  InOrder(answers'[q]) /\ Handled(applied', q, answers'[q])
  <2>1. CASE q # p
    BY Zenon, <1>1, <1>5, <1>8, <2>1, OthersKept
  <2>2. CASE q = p /\ Connects(q)
    <3>1. answers'[q] = <<>>
      BY <2>2 DEF Connects
    <3>. QED
      BY <3>1, EmptyFacts DEF InOrder, Handled
  <2>3. CASE q = p /\ Replies(q)
    <3>1. CASE socket[q] = "open"
      <4>1. thread[q] = "writing" /\ answers'[q] = Append(answers[q], request[q])
        BY <2>3, <3>1 DEF Replies
      <4>2. /\ request[q] \in Nat /\ request[q] # 0 /\ answers[q] \in Seq(Nat)
            /\ NoExceptions(answers[q]) /\ UpTo(request[q] - 1, answers[q])
        BY <3>1, <4>1, PeerTypes DEF Unread, Answered, Working
      <4>3. UpTo(request[q], answers'[q]) /\ answers'[q] \in Seq(Nat) /\ request[q] \in Int
        BY <4>1, <4>2, UpToAppend, AppendFacts
      <4>4. NoExceptions(answers'[q])
        BY <4>1, <4>2, AppendFacts DEF NoExceptions
      <4>5. InOrder(answers'[q])
        BY <4>3, <4>4, UpToInOrder
      <4>6. \E k \in 1 .. Len(applied) : applied[k] = <<q, request[q]>>
        BY Zenon, <4>1 DEF ServerInv, WritesAreApplied
      <4>. QED
        BY <1>6, <4>1, <4>2, <4>5, <4>6
    <3>2. CASE socket[q] # "open"
      BY <1>5, <2>3, <3>2 DEF Replies
    <3>. QED
      BY <3>1, <3>2
  <2>4. CASE q = p /\ Closes(q)
    <3>1. CASE socket[q] = "open" /\ answers'[q] = Append(answers[q], 0)
      <4>1. NoExceptions(answers[q]) /\ answers[q] \in Seq(Nat)
        BY <3>1, PeerTypes DEF Answered
      <4>2. InOrder(answers'[q])
        BY <1>3, <3>1, <4>1, InOrderAppend
      <4>. QED
        BY <1>6, <3>1, <4>2
    <3>. QED
      BY <1>5, <2>4, <3>1 DEF Closes
  <2>5. CASE q = p /\ (Sends(q) \/ Hangs(q) \/ Starts(q) \/ Moves(q) \/ Takes(q))
    <3>1. answers'[q] = answers[q]
      BY <2>5 DEF Sends, Hangs, Starts, Moves, Takes
    <3>. QED
      BY <1>5, <3>1
  <2>. QED
    BY <1>1, <1>8, <2>1, <2>2, <2>3, <2>4, <2>5, Changes
<1>. QED
  BY <1>7, <1>8, NextCases

(***************************************************************************)
(* Permits.                                                                *)
(***************************************************************************)
INSTANCE FiniteSetTheorems

(* A step for a peer takes a permit for a thread, or leaves one to drop,   *)
(* or does neither.                                                        *)
LEMMA PermitsOfPeer ==
  ASSUME ServerInv, NEW p \in Peers, OfPeer(p)
  PROVE  \/ Live(p)' = Live(p) /\ active' = active /\ leaving' = leaving
         \/ /\ ~Live(p) /\ Live(p)' /\ active < limit
            /\ active' = active + 1 /\ leaving' = leaving
         \/ Live(p) /\ ~Live(p)' /\ active' = active /\ leaving' = leaving + 1
<1>1. ServerTypeOK
  BY DEF ServerInv
<1>2. CASE Connect(p) \/ Send(p) \/ SendMalformed(p) \/ Disconnect(p)
  BY <1>2 DEF Connect, Send, SendMalformed, Disconnect, Live
<1>3. CASE Accept(p)
  <2>1. thread[p] = "none"
    BY <1>3 DEF Accept, ServerInv, QueuedIsFresh, Fresh
  <2>. QED
    BY <1>1, <1>3, <2>1 DEF Accept, TryAcquireConnection, ServerTypeOK, Live
<1>4. CASE ConfigureSocket(p)
  BY <1>1, <1>4 DEF ConfigureSocket, CloseStream, ServerTypeOK, Live
<1>5. CASE ReadRequest(p) \/ ReadMalformed(p) \/ ReadTimeout(p)
  BY <1>1, <1>5 DEF ReadRequest, ReadMalformed, ReadTimeout, ReadFails, ServerTypeOK, Live
<1>6. CASE LockCore(p) \/ Dispatch(p) \/ WriteResponse(p)
  <2>1. thread[p] # "none" /\ active' = active /\ leaving' = leaving
    BY <1>6 DEF LockCore, Dispatch, WriteResponse
  <2>2. thread'[p] \in {"failing", "handling", "writing", "reading"}
    BY <1>1, <1>6 DEF LockCore, Dispatch, WriteResponse, ServerTypeOK
  <2>. QED
    BY <2>1, <2>2 DEF Live
<1>7. CASE ReadEnd(p) \/ DispatchPanics(p) \/ WriteFails(p) \/ WriteException(p)
  BY <1>1, <1>7 DEF ReadEnd, DispatchPanics, WriteFails, WriteException, CloseStream,
                    ServerTypeOK, Live
<1>. QED
  BY <1>2, <1>3, <1>4, <1>5, <1>6, <1>7 DEF OfPeer, ThreadStep, PeerStep

(* Threads and permits change together. *)
LEMMA PermitsStep ==
  ASSUME ServerInv, Next
  PROVE  PermitsMatchThreads'
<1>. DEFINE Threads == {p \in Peers : Live(p)}
<1>1. /\ active = Cardinality(Threads) + leaving /\ active <= limit
      /\ leaving \in Nat /\ active \in Int /\ limit \in Nat
  BY ServerAssumptions DEF ServerInv, ServerTypeOK, PermitsMatchThreads
<1>2. IsFiniteSet(Threads) /\ Cardinality(Threads) \in Nat
  <2>1. Threads \subseteq Peers
    OBVIOUS
  <2>. QED
    BY ServerAssumptions, <2>1, FS_Subset, FS_CardinalityType
<1>3. limit' = limit
  BY DEF Next, Keeping
<1>4. SUFFICES active' = Cardinality(Threads') + leaving' /\ active' <= limit
  BY <1>3 DEF PermitsMatchThreads
<1>5. CASE OfNobody
  <2>1. Threads' = Threads
    BY <1>5, AllKept DEF Live
  <2>2. CASE DropPermit
    <3>1. leaving' = leaving - 1 /\ active' = active - 1
      BY <2>2 DEF DropPermit
    <3>2. Cardinality(Threads') = Cardinality(Threads)
      BY <2>1
    <3>. HIDE DEF Threads
    <3>. QED
      BY <1>1, <1>2, <3>1, <3>2
  <2>3. CASE RequestShutdown \/ CheckShutdown \/ AcceptNothing \/ AcceptFails
    <3>1. active' = active /\ leaving' = leaving
      BY <2>3 DEF RequestShutdown, CheckShutdown, AcceptNothing, AcceptFails
    <3>. QED
      BY Zenon, <1>1, <2>1, <3>1
  <2>. QED
    BY <1>5, <2>2, <2>3 DEF OfNobody
<1>6. ASSUME NEW p \in Peers, OfPeer(p)
      PROVE  active' = Cardinality(Threads') + leaving' /\ active' <= limit
  <2>1. \A q \in Peers : q # p => Live(q)' = Live(q)
    BY Zenon, <1>6, OthersKept DEF ServerInv, Live
  <2>2. CASE Live(p)' = Live(p) /\ active' = active /\ leaving' = leaving
    <3>1. Threads' = Threads
      BY <2>1, <2>2
    <3>. QED
      BY <1>1, <2>2, <3>1
  <2>3. CASE /\ ~Live(p) /\ Live(p)' /\ active < limit
             /\ active' = active + 1 /\ leaving' = leaving
    <3>1. Threads' = Threads \cup {p} /\ p \notin Threads
      BY <2>1, <2>3
    <3>2. Cardinality(Threads') = Cardinality(Threads) + 1
      BY <1>2, <3>1, FS_AddElement
    <3>. QED
      BY <1>1, <1>2, <2>3, <3>2
  <2>4. CASE Live(p) /\ ~Live(p)' /\ active' = active /\ leaving' = leaving + 1
    <3>1. Threads' = Threads \ {p} /\ p \in Threads
      BY <2>1, <2>4
    <3>2. Cardinality(Threads') = Cardinality(Threads) - 1
      BY Zenon, <1>2, <3>1, FS_RemoveElement
    <3>. QED
      BY <1>1, <1>2, <2>4, <3>2
  <2>. QED
    BY <1>6, <2>2, <2>3, <2>4, PermitsOfPeer
<1>. QED
  BY <1>5, <1>6, NextCases

(***************************************************************************)
(* The invariant and what follows from it.                                 *)
(***************************************************************************)
LEMMA ServerInit ==
  ASSUME Init
  PROVE  ServerInv
<1>1. <<>> \in Seq(Nat) /\ <<>> \in Seq(Peers \X Nat) /\ Len(<<>>) = 0
  OBVIOUS
<1>2. ServerTypeOK /\ limit \in Limits
  BY <1>1 DEF Init, ServerTypeOK, ThreadStates
<1>3. QueuedIsFresh /\ GuardIsHeld
  BY ServerAssumptions DEF Init, QueuedIsFresh, Fresh, GuardIsHeld
<1>4. PermitsMatchThreads
  <2>1. {p \in Peers : Live(p)} = {}
    BY DEF Init, Live
  <2>2. Cardinality({p \in Peers : Live(p)}) = 0
    BY <2>1, FS_EmptySet
  <2>3. active = 0 /\ leaving = 0 /\ limit \in Nat
    BY ServerAssumptions DEF Init
  <2>. QED
    BY <2>2, <2>3 DEF PermitsMatchThreads
<1>5. UnreadIsLatest /\ AppliedInOrder
  <2>1. ASSUME NEW p \in Peers
        PROVE  Unread(p)
    <3>1. inbox[p] = <<>> /\ sent[p] = 0 /\ request[p] = 0 /\ thread[p] = "none"
      BY DEF Init
    <3>. QED
      BY <3>1, EmptyFacts DEF Unread, Working
  <2>2. AppliedInOrder
    BY <1>1 DEF Init, AppliedInOrder
  <2>. QED
    BY <2>1, <2>2 DEF UnreadIsLatest
<1>6. AnswersReachUnread /\ WritesAreApplied
  BY <1>1 DEF Init, AnswersReachUnread, Answered, WritesAreApplied
<1>7. AnswersInOrder
  <2>1. \A p \in Peers : answers[p] = <<>>
    BY DEF Init
  <2>2. DOMAIN <<>> = {}
    OBVIOUS
  <2>3. 1 .. Len(<<>>) - 1 = {}
    BY <1>1
  <2>. QED
    BY <2>1, <2>2, <2>3 DEF AnswersInOrder
<1>. QED
  BY <1>2, <1>3, <1>4, <1>5, <1>6, <1>7 DEF ServerInv

LEMMA ServerStep ==
  ASSUME ServerInv, [Next]_vars
  PROVE  ServerInv'
<1>1. CASE Next
  <2>1. ServerTypeOK' /\ GuardIsHeld' /\ PermitsMatchThreads'
    BY <1>1, ServerAssumptions, TypeStep, GuardStep, PermitsStep DEF ServerInv
  <2>2. QueuedIsFresh' /\ UnreadIsLatest' /\ AppliedInOrder' /\ AnswersReachUnread'
    BY <1>1, PeersStep, AppliedStep
  <2>3. WritesAreApplied' /\ AnswersInOrder'
    BY <1>1, WritesStep, AnswersStep
  <2>4. limit' \in Limits
    BY <1>1 DEF Next, Keeping, ServerInv
  <2>. QED
    BY <2>1, <2>2, <2>3, <2>4 DEF ServerInv
<1>2. CASE UNCHANGED vars
  <2>1. ServerTypeOK' /\ limit' \in Limits
    BY <1>2 DEF vars, ServerInv, ServerTypeOK
  <2>2. QueuedIsFresh' /\ GuardIsHeld' /\ UnreadIsLatest'
    BY Zenon, <1>2 DEF vars, ServerInv, QueuedIsFresh, Fresh, GuardIsHeld, UnreadIsLatest,
           Unread
  <2>3. PermitsMatchThreads'
    BY <1>2 DEF vars, ServerInv, PermitsMatchThreads, Live
  <2>4. AppliedInOrder' /\ AnswersReachUnread' /\ WritesAreApplied'
    BY Zenon, <1>2 DEF vars, ServerInv, AppliedInOrder, AnswersReachUnread, Answered,
           WritesAreApplied
  <2>5. AnswersInOrder'
    BY <1>2 DEF vars, ServerInv, AnswersInOrder
  <2>. QED
    BY <2>1, <2>2, <2>3, <2>4, <2>5 DEF ServerInv
<1>. QED
  BY <1>1, <1>2

(* The inductive invariant of the listener: what each thread, its socket,  *)
(* the mutex and the list of handled requests know of each other.          *)
THEOREM ServerInvariant == Spec => []ServerInv
<1>1. Init => ServerInv
  BY ServerInit
<1>2. ServerInv /\ [Next]_vars => ServerInv'
  BY ServerStep
<1>. QED
  BY <1>1, <1>2, PTL DEF Spec

(* active_connections counts the threads that have not dropped their       *)
(* permit, and never passes the limit, whichever way connections end.      *)
THEOREM PermitsExact == Spec => []PermitsMatchThreads
<1>1. ServerInv => PermitsMatchThreads
  BY DEF ServerInv
<1>. QED
  BY <1>1, ServerInvariant, PTL

(* The answers on a connection are its requests in order, handled by the   *)
(* core, with nothing after an exception.                                  *)
THEOREM AnswersFollowRequests == Spec => []AnswersInOrder
<1>1. ServerInv => AnswersInOrder
  BY DEF ServerInv
<1>. QED
  BY <1>1, ServerInvariant, PTL

(* One thread is in the core at a time, and the core sees the requests of  *)
(* a peer once each and in order.                                          *)
THEOREM CoreIsSerialized == Spec => []CoreSerialized
<1>1. ASSUME ServerInv
      PROVE  CoreSerialized
  <2>. DEFINE Inside == {p \in Peers : thread[p] = "handling"}
  <2>1. Inside \subseteq {lock}
    BY <1>1 DEF ServerInv, GuardIsHeld
  <2>2. IsFiniteSet({lock}) /\ Cardinality({lock}) = 1
    BY Zenon, FS_Singleton
  <2>3. Cardinality(Inside) <= 1
    BY <2>1, <2>2, FS_Subset
  <2>4. DOMAIN applied = 1 .. Len(applied)
    BY <1>1 DEF ServerInv, ServerTypeOK
  <2>. QED
    BY Zenon, <1>1, <2>3, <2>4 DEF CoreSerialized, ServerInv, GuardIsHeld, AppliedInOrder
<1>. QED
  BY <1>1, ServerInvariant, PTL

(* After a panic inside a handler no request reaches the core again: the   *)
(* mutex is poisoned with its guard dropped, and lock_core refuses.        *)
THEOREM PoisonStops == Spec => PoisonIsFinal
<1>1. ServerInv /\ [Next]_vars => [poisoned => applied' = applied]_vars
  <2>1. SUFFICES ASSUME ServerInv, Next, poisoned
                 PROVE  applied' = applied
    OBVIOUS
  <2>2. ASSUME NEW p \in Peers
        PROVE  ~Dispatch(p)
    BY Zenon, ServerAssumptions, <2>1, <2>2 DEF Dispatch, ServerInv, GuardIsHeld
  <2>. QED
    BY Zenon, <2>1, <2>2, NextCases, AppliedOfPeer, AllKept
<1>. QED
  BY <1>1, ServerInvariant, PTL DEF Spec, PoisonIsFinal

=============================================================================
