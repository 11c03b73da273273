---------------------------- MODULE Ics02Client ----------------------------
(***************************************************************************)
(* Client handling of the router (ics02_client.rs): client types, clients, *)
(* counterparties and client updates, with the light client contracts the  *)
(* router invokes.  A client id `{client_type}-{n}` is the pair of its     *)
(* parts: n has no '-', so the last '-' splits it uniquely.                *)
(***************************************************************************)
EXTENDS LightClient

CONSTANTS
    ClientTypes,     \* client type names that pass validate_client_type
    MaxClients,      \* bound on the clients minted per type
    Counterparties,  \* arguments of register_counterparty with a valid id
    ClientInputs,    \* arguments of create_client
    ClientMessages   \* arguments of update_client

VARIABLES
    clientTypeAddr,  \* DataKey::ClientTypeAddr(client_type)
    nextClientId,    \* DataKey::NextClientId(client_type)
    clientLcAddr,    \* DataKey::ClientLcAddr(id), written with ClientType(id)
    counterparty,    \* DataKey::Counterparty(id)
    routerFrozen,    \* DataKey::Frozen(id) of the router
    lcState          \* what the light client contract stores for the client

clientVars == <<clientTypeAddr, nextClientId, clientLcAddr, counterparty,
                routerFrozen, lcState>>

ClientIds == ClientTypes \X (0..(MaxClients - 1))

ASSUME MaxClientsAssumption == MaxClients \in Nat

ASSUME CounterpartyAssumption == None \notin Counterparties

(* Inputs that decode are well typed; those that do not make the call panic. *)
ASSUME ClientInputsAssumption ==
    \A in \in ClientInputs :
        /\ in.height \in Heights
        /\ in.client_state.kind = "attestor_client_state" =>
               in.client_state.state \in AttestorClientState
        /\ in.client_state.kind = "tendermint_client_state" =>
               in.client_state.state \in TmClientState
        /\ in.consensus_state.kind = "state_attestation" =>
               in.consensus_state.timestamp \in Nat
        /\ in.consensus_state.kind = "tendermint_consensus_state" =>
               in.consensus_state.state \in TmConsensusState

ASSUME ClientMessagesAssumption ==
    \A msg \in ClientMessages :
        /\ IsStateAttestation(msg) =>
               /\ msg.attestation_data.height \in Heights
               /\ msg.attestation_data.timestamp \in Nat
        /\ IsTmHeader(msg) =>
               /\ msg.target_height \in Heights
               /\ msg.timestamp_secs \in Nat
               /\ msg.app_hash \in Roots

ASSUME NoneAssumption ==
    /\ None \notin Nat
    /\ None \notin LcAddresses
    /\ None \notin TmConsensusState

-----------------------------------------------------------------------------

ClientInit ==
    /\ clientTypeAddr = [t \in ClientTypes |-> None]
    /\ nextClientId = [t \in ClientTypes |-> 0]
    /\ clientLcAddr = [c \in ClientIds |-> None]
    /\ counterparty = [c \in ClientIds |-> None]
    /\ routerFrozen = [c \in ClientIds |-> FALSE]
    /\ lcState = [c \in ClientIds |-> None]

RegisterClientTypeSwapped(t, lc) ==
    /\ clientTypeAddr' = [clientTypeAddr EXCEPT ![t] = t]
    /\ UNCHANGED <<nextClientId, clientLcAddr, counterparty, routerFrozen, lcState>>

(* The admin pins a light client under a client type, or replaces it. *)
RegisterClientType(t, lc) ==
    /\ clientTypeAddr' = [clientTypeAddr EXCEPT ![t] = lc]
    /\ UNCHANGED <<nextClientId, clientLcAddr, counterparty, routerFrozen, lcState>>

(* mint_client_id: the number that completes the next client id of type t. *)
MintClientId(t) == nextClientId[t]

CreateClientUninitialised(t, in) ==
    LET lc == clientTypeAddr[t]
    IN  /\ lc # None
        /\ nextClientId[t] < MaxClients
        /\ nextClientId' = [nextClientId EXCEPT ![t] = @ + 1]
        /\ clientLcAddr' = [clientLcAddr EXCEPT ![<<t, MintClientId(t)>>] = lc]
        /\ UNCHANGED <<clientTypeAddr, counterparty, routerFrozen, lcState>>

CreateClient(t, in) ==
    LET lc == clientTypeAddr[t]
        c  == <<t, MintClientId(t)>>
    IN  /\ lc # None
        /\ nextClientId[t] < MaxClients
        /\ InitialiseReturns(lc, in.client_state, in.consensus_state)
        /\ nextClientId' = [nextClientId EXCEPT ![t] = @ + 1]
        /\ lcState' = [lcState EXCEPT ![c] =
               Initialise(lc, in.client_state, in.consensus_state, in.height)]
        /\ clientLcAddr' = [clientLcAddr EXCEPT ![c] = lc]
        /\ UNCHANGED <<clientTypeAddr, counterparty, routerFrozen>>

RegisterCounterpartyAgain(c, cp) ==
    /\ clientLcAddr[c] # None
    /\ counterparty' = [counterparty EXCEPT ![c] = cp]
    /\ UNCHANGED <<clientTypeAddr, nextClientId, clientLcAddr, routerFrozen, lcState>>

RegisterCounterparty(c, cp) ==
    /\ clientLcAddr[c] # None
    /\ counterparty[c] = None
    /\ counterparty' = [counterparty EXCEPT ![c] = cp]
    /\ UNCHANGED <<clientTypeAddr, nextClientId, clientLcAddr, routerFrozen, lcState>>

UpdateClientFlagOnly(c, msg) ==
    LET lc == clientLcAddr[c]
    IN  /\ ~routerFrozen[c]
        /\ lc # None
        /\ CheckReturns(lc, lcState[c], msg)
        /\ CheckForMisbehaviour(lc, lcState[c], msg)
        /\ routerFrozen' = [routerFrozen EXCEPT ![c] = TRUE]
        /\ UNCHANGED <<clientTypeAddr, nextClientId, clientLcAddr, counterparty, lcState>>

(* A message that contradicts a stored consensus state freezes the client in *)
(* the light client and in the router; any other one is an update.           *)
UpdateClient(c, msg) ==
    LET lc == clientLcAddr[c]
    IN  /\ ~routerFrozen[c]
        /\ lc # None
        /\ CheckReturns(lc, lcState[c], msg)
        /\ \/ /\ CheckForMisbehaviour(lc, lcState[c], msg)
              /\ lcState' = [lcState EXCEPT ![c] = UpdateStateOnMisbehaviour(lc, @)]
              /\ routerFrozen' = [routerFrozen EXCEPT ![c] = TRUE]
           \/ /\ ~CheckForMisbehaviour(lc, lcState[c], msg)
              /\ UpdateReturns(lc, lcState[c], msg)
              /\ lcState' = [lcState EXCEPT ![c] = UpdateState(lc, @, msg)]
              /\ UNCHANGED routerFrozen
        /\ UNCHANGED <<clientTypeAddr, nextClientId, clientLcAddr, counterparty>>

ClientNext ==
    \/ \E t \in ClientTypes, lc \in LcAddresses : RegisterClientType(t, lc)
    \/ \E t \in ClientTypes, in \in ClientInputs : CreateClient(t, in)
    \/ \E c \in ClientIds, cp \in Counterparties : RegisterCounterparty(c, cp)
    \/ \E c \in ClientIds, msg \in ClientMessages : UpdateClient(c, msg)

ClientSpec == ClientInit /\ [][ClientNext]_clientVars

-----------------------------------------------------------------------------

(* Type invariant of the router's client entries. *)
ClientTypeOK ==
    /\ clientTypeAddr \in [ClientTypes -> LcAddresses \cup {None}]
    /\ nextClientId \in [ClientTypes -> 0..MaxClients]
    /\ clientLcAddr \in [ClientIds -> LcAddresses \cup {None}]
    /\ counterparty \in [ClientIds -> Counterparties \cup {None}]
    /\ routerFrozen \in [ClientIds -> BOOLEAN]
    /\ DOMAIN lcState = ClientIds

LcFrozen(lc, st) ==
    \/ lc = "attestation" /\ st.cs.frozen
    \/ lc = "tendermint" /\ st.cs.is_frozen

LcLatestHeight(lc, st) ==
    IF lc = "mock" THEN st.latest_height ELSE st.cs.latest_height

(* The light client deployed when a client was created keeps serving it, on *)
(* a state of its own shape, whatever client type is registered later: an   *)
(* update never reaches a contract that did not initialise the client.      *)
StateFitsLightClient ==
    \A c \in ClientIds :
        CASE clientLcAddr[c] = "attestation" -> lcState[c] \in AttStates
          [] clientLcAddr[c] = "tendermint"  -> lcState[c] \in TmStates
          [] clientLcAddr[c] = "mock"        -> lcState[c] \in MockStates
          [] OTHER -> lcState[c] = None

(* The ids minted for a type are exactly those below its counter, so an     *)
(* enumeration of 0..NextClientId - 1 finds every client, and minting never *)
(* hands out an id in use.                                                  *)
ClientIdsDense ==
    \A t \in ClientTypes : \A n \in 0..(MaxClients - 1) :
        (n < nextClientId[t]) <=> (clientLcAddr[<<t, n>>] # None)

(* Only an existing client has a counterparty or is frozen by the router, and *)
(* a client the router reports frozen is frozen in its light client: the two  *)
(* flags written by update_client never disagree in that direction.           *)
FreezeReachesLightClient ==
    \A c \in ClientIds :
        /\ counterparty[c] # None => clientLcAddr[c] # None
        /\ routerFrozen[c] => clientLcAddr[c] # None /\ LcFrozen(clientLcAddr[c], lcState[c])

FrozenUntouched ==
    \A c \in ClientIds :
        clientLcAddr[c] # None /\ LcFrozen(clientLcAddr[c], lcState[c]) =>
            lcState'[c] = lcState[c]

(* A client frozen in its light client never changes again: no update, and *)
(* no second round of misbehaviour, gets past update_client.               *)
FrozenIsFinal == [][FrozenUntouched]_clientVars

TrustKept ==
    \A c \in ClientIds :
        LET lc  == clientLcAddr[c]
            old == lcState[c]
            new == lcState'[c]
        IN  lc # None =>
            /\ LcLatestHeight(lc, new) >= LcLatestHeight(lc, old)
            /\ lc = "attestation" =>
                   \A h \in Heights : old.consensus[h] # None =>
                       new.consensus[h] = old.consensus[h]
            /\ lc = "tendermint" =>
                   \A h \in Heights : old.consensus[h] # None =>
                       /\ new.consensus[h] # None
                       /\ new.consensus[h].root = old.consensus[h].root
                       /\ h <= old.cs.latest_height =>
                              new.consensus[h] = old.consensus[h]

(* What a client trusts about a height is never replaced by something else, *)
(* and its latest height never goes back.  An attestation client keeps the  *)
(* timestamp; a tendermint client keeps the root, and the whole consensus   *)
(* state of every height up to its latest.                                  *)
TrustOnlyGrows == [][TrustKept]_clientVars

BindingsKept ==
    \A c \in ClientIds :
        /\ clientLcAddr[c] # None => clientLcAddr'[c] = clientLcAddr[c]
        /\ counterparty[c] # None => counterparty'[c] = counterparty[c]

(* A client keeps the light client and the counterparty it was given. *)
BindingsPermanent == [][BindingsKept]_clientVars
=============================================================================
