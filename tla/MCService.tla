----------------------------- MODULE MCService ------------------------------
(***************************************************************************)
(* What must eventually happen, in one run: the application core with its  *)
(* mempool (CometCore), the listener in front of it (AbciServer), or the   *)
(* restore of a wallet directory (Keystore).  A behaviour is one of the    *)
(* three; the others stay in their initial state.                          *)
(***************************************************************************)
EXTENDS MCCometCore

(* A mint creates the note c1 that a transfer spends; another mint is      *)
(* large, a third not canonical.                                           *)
MixedTransactions ==
  {PayTx, Tx("mint", "mint", <<>>, <<"c1">>, 1, TRUE),
   Tx("large", "mint", <<>>, <<"c2", "c3">>, 2, TRUE),
   Tx("malformed", "mint", <<>>, <<"c3">>, 1, FALSE)}

(* A proof shows that the note it spends is in the tree. *)
NoteExists(tx, s) == "c1" \in Range(s.commitments)

CONSTANTS Peers, Engine, Limits, MaxConnects, NoPeer, Header, Torn

VARIABLES
  half,
  final, temp, opener, call, registry, oslock, published, confirmed, bundles, interruptions,
  socket, inbox, sent, connects, thread, request, leaving, active, loop, shutdown,
  lock, poisoned, applied, answers, errors, limit

Server == INSTANCE AbciServer WITH
  MaxRequests <- 2, MaxFaults <- 1, faults <- errors

(* One directory, one store, and a recovery bundle from an earlier one. *)
Payload == [header |-> Header, generation |-> 1, nonce |-> "nonce"]
Wallet == INSTANCE Keystore WITH
  Dirs <- {"directory"}, Openers <- {"store"}, Process <- [o \in {"store"} |-> 1],
  Callers <- {"caller"}, Headers <- {Header}, Payloads <- {Payload},
  Backups <- {[header |-> Header, payload |-> Payload]}, MaxGenerations <- 2,
  MaxFaults <- 3, told <- published, faults <- interruptions

walletVars == <<final, temp, opener, call, registry, oslock, published, confirmed, bundles,
                interruptions>>
serverVars == <<socket, inbox, sent, connects, thread, request, leaving, active, loop,
                shutdown, lock, poisoned, applied, answers, errors, limit>>

ServiceInit ==
  /\ half \in {"core", "listener", "wallet"} /\ CoreInit /\ Server!Init /\ Wallet!Init
  /\ half # "listener" => limit = 1
CoreStep == half = "core" /\ Next /\ UNCHANGED <<half, serverVars, walletVars>>
ListenerStep == half = "listener" /\ Server!Next /\ UNCHANGED <<half, vars, walletVars>>
WalletStep == half = "wallet" /\ Wallet!Next /\ UNCHANGED <<half, vars, serverVars>>
ServiceNext == (CoreStep \/ ListenerStep \/ WalletStep) /\ UNCHANGED <<part, storeVars>>

(* The fairness of CometCore, AbciServer and Keystore, for the part that runs. *)
Core(A) == half = "core" /\ A
Listener(A) == half = "listener" /\ Server!Keeping(A)
(* The program that restores a wallet takes its next step, drops its store *)
(* and ends, and is started again by its operator after an interruption.   *)
Restoring(A) == half = "wallet" /\ A
RestoreAgain == \E b \in bundles : Wallet!Restore("store", "caller", b, Wallet!Anchor(b.payload))
ServiceFairness ==
  /\ SF_walletVars(Restoring(Wallet!Register("store", "directory")))
  /\ WF_walletVars(Restoring(Wallet!TryLock("store")))
  /\ WF_walletVars(Restoring(Wallet!RecoverHeader("store")))
  /\ SF_walletVars(Restoring(Wallet!Close("store")))
  /\ WF_walletVars(Restoring(Wallet!Unlock("store")))
  /\ WF_walletVars(Restoring(Wallet!Deregister("store")))
  /\ WF_walletVars(Restoring(Wallet!Step("store", "caller")))
  /\ SF_walletVars(Restoring(RestoreAgain))
  /\ WF_vars(Core(OpenJournal \/ Replay \/ StartCore))
  /\ WF_vars(Core(Info)) /\ WF_vars(Core(InitChain(TRUE))) /\ WF_vars(Core(FinalizeBlock))
  /\ WF_vars(Core(CommitRequest)) /\ WF_vars(Core(CommitWrites \/ CommitSyncs \/ CommitReturns))
  /\ WF_vars(Core(Restart))
  /\ WF_serverVars(Listener(Server!CheckShutdown \/ Server!AcceptNothing))
  /\ WF_serverVars(Listener(Server!DropPermit))
  /\ \A p \in Peers : WF_serverVars(Listener(Server!ThreadStep(p)))
  /\ SF_serverVars(Listener(Server!Accept(Engine))) /\ WF_serverVars(Listener(Server!Connect(Engine)))
ServiceSpec == ServiceInit /\ [][ServiceNext]_<<half, part, vars, storeVars, serverVars, walletVars>> /\ ServiceFairness

(***************************************************************************)
(* The properties of the listener and of the wallet.                       *)
(***************************************************************************)
(* The engine is served again and again; see AbciServer. *)
EngineServedAgain == half = "listener" => Server!EngineServedAgain
(* A requested shutdown completes; see AbciServer. *)
ShutdownCompletes == Server!ShutdownCompletes
(* A restore that is repeated ends with the payload; see Keystore. *)
RestoreCompletes == half = "wallet" => Wallet!RestoreCompletes
=============================================================================
