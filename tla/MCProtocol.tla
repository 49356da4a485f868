----------------------------- MODULE MCProtocol -----------------------------
(***************************************************************************)
(* The protocol of a node for TLC.  A behaviour is one of five             *)
(* independent machines, chosen at the start: the ABCI listener, bytes on  *)
(* its socket, the fields of an ABCI request, precommits and finality      *)
(* certificates, and the genesis that Noxis and CometBFT agree on.  The    *)
(* variables of the other machines stay as they are.                       *)
(***************************************************************************)
EXTENDS AbciServer

CONSTANTS MaxStream, MaxFields, MaxSigned

VARIABLES part,
          stream, message, fields,
          config, byzantine, signed, finals,
          genesis, document, accepted

wireVars == <<stream, message, fields>>
finalityVars == <<byzantine, signed, finals>>
genesisVars == <<genesis, document, accepted>>
protocolVars == <<part, vars, wireVars, config, finalityVars, genesisVars>>

(* Bytes of two bits and a continuation bit, varints of up to three. *)
Socket ==
  INSTANCE AbciMessages WITH Radix <- 4, MaxDigits <- 3, MaxFrame <- 2, MaxNumber <- 2,
    HashLength <- 2, MaxBlockBytes <- 3
(* Wider bytes, so that every request number fits into two digits. *)
Request ==
  INSTANCE AbciMessages WITH Radix <- 16, MaxDigits <- 3, MaxFrame <- 64, MaxNumber <- 30,
    HashLength <- 2, MaxBlockBytes <- 3

(* Three validators, and two orders of one list of records. *)
Certificates ==
  INSTANCE Finality WITH MaxWord <- 9, MAX_VALIDATORS <- 3,
    MAX_VALIDATOR_PUBLIC_KEY_BYTES <- 1, MAX_BLOCK_RECORDS <- 2,
    MAX_BLOCK_TRANSACTION_BYTES <- 1, MAX_SIGNATURE_BYTES <- 1,
    Powers <- {1, 2}, Bodies <- {<<"a", "b">>, <<"b", "a">>}, Rounds <- {0}

(* An order of addresses that is not the order of the keys. *)
AddressOfKey(key) == (2 * key[1]) % 5
Bootstrap ==
  INSTANCE CometBootstrap WITH MaxWord <- 15, MAX_VALIDATORS <- 3,
    MAX_VALIDATOR_PUBLIC_KEY_BYTES <- 1, MAX_BLOCK_RECORDS <- 1,
    MAX_BLOCK_TRANSACTION_BYTES <- 1, MAX_SIGNATURE_BYTES <- 1, MaxSigned64 <- 7,
    MAX_TOTAL_POWER <- 5, KEY_LENGTH <- 1, AddressOf <- AddressOfKey,
    Keys <- {<<1>>, <<2>>, <<3>>}, Powers <- {1, 2}, InitialHeights <- {3},
    MaxDocument <- 3

NoWire == stream = <<>> /\ message = "" /\ fields = <<>>
NoConfig == config = <<>>
NoFinality == byzantine = {} /\ signed = {} /\ finals = {}
NoGenesis == genesis = {} /\ document = <<>> /\ accepted = FALSE

(* One of the orders in which the ids may hold the powers: nothing depends *)
(* on an id but the order of a list, which is sorted.                      *)
PowersRise ==
  \A i \in 2 .. Len(config.set.validators) :
    config.set.validators[i - 1].power <= config.set.validators[i].power
NoListener == Init /\ limit = 1
ProtocolInit ==
  \/ /\ part = "listener" /\ Init
     /\ NoWire /\ NoConfig /\ NoFinality /\ NoGenesis
  \/ /\ part = "socket" /\ Socket!StreamInit /\ message = "" /\ fields = <<>>
     /\ NoListener /\ NoConfig /\ NoFinality /\ NoGenesis
  \/ /\ part = "request" /\ Request!Init /\ stream = <<>>
     /\ NoListener /\ NoConfig /\ NoFinality /\ NoGenesis
  \/ /\ part = "finality" /\ Certificates!Init /\ PowersRise
     /\ NoListener /\ NoWire /\ NoGenesis
  \/ /\ part = "genesis" /\ Bootstrap!Init
     /\ NoListener /\ NoWire /\ NoFinality

ElseKept == UNCHANGED <<part, vars>>
ProtocolNext ==
  \/ /\ part = "listener" /\ Next
     /\ UNCHANGED <<part, wireVars, config, finalityVars, genesisVars>>
  \/ /\ part = "socket" /\ Socket!StreamNext /\ ElseKept
     /\ UNCHANGED <<message, fields, config, finalityVars, genesisVars>>
  \/ /\ part = "request" /\ Request!Next /\ ElseKept
     /\ UNCHANGED <<stream, config, finalityVars, genesisVars>>
  \/ /\ part = "finality" /\ Certificates!Next /\ ElseKept
     /\ UNCHANGED <<wireVars, genesisVars>>
  \/ /\ part = "genesis" /\ Bootstrap!Next /\ ElseKept
     /\ UNCHANGED <<wireVars, finalityVars>>

ProtocolSpec == ProtocolInit /\ [][ProtocolNext]_protocolVars
GenesisSpec == part = "genesis" /\ ProtocolInit /\ [][ProtocolNext]_protocolVars

(***************************************************************************)
(* The properties of the other machines, where they run; those of the      *)
(* listener are AbciServer's own.                                          *)
(***************************************************************************)
(* The bytes of a connection and the requests in them have one reading. *)
WireUnambiguous ==
  /\ part = "socket" => Socket!StreamUnambiguous
  /\ part = "request" => Request!RequestUnambiguous
(* Finality is safe, and within reach of the honest validators. *)
FinalitySound == part = "finality" => Certificates!FinalitySound
(* The application and the engine start from one genesis. *)
GenesisAgrees == part = "genesis" => Bootstrap!GenesisAgrees
(* "two Noxis validators map to the same CometBFT address" is an error. *)
GenesisAddressesDiffer == part = "genesis" => Bootstrap!AddressesDiffer
=============================================================================
