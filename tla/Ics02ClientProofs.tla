------------------------- MODULE Ics02ClientProofs -------------------------
(***************************************************************************)
(* Proofs about Ics02Client, for any client types, light client inputs,    *)
(* messages and bounds.                                                    *)
(*                                                                         *)
(* The four invariants are proved together.  ClientIdsDense is what makes  *)
(* the others inductive: create_client writes the entries of the id it     *)
(* mints, and only because that id is unused are no frozen client, no      *)
(* counterparty and no light client state overwritten.                     *)
(***************************************************************************)
EXTENDS Ics02Client, TLAPS

ClientInv ==
    /\ ClientTypeOK
    /\ StateFitsLightClient
    /\ ClientIdsDense
    /\ FreezeReachesLightClient

-----------------------------------------------------------------------------
(* What the light clients compute, on one client's state. *)

(* The attestation client's update_state returns a state of its own type. *)
LEMMA AttUpdateStateType ==
    ASSUME NEW st \in AttStates, NEW msg,
           msg.attestation_data.height \in Heights,
           msg.attestation_data.timestamp \in Nat
    PROVE  AttUpdateState(st, msg) \in AttStates
  <1> DEFINE att == msg.attestation_data
             cs == [st.cs EXCEPT !.latest_height = IF att.height > @ THEN att.height ELSE @]
  <1>1. att.height \in Nat
    BY BoundsAssumption DEF Heights
  <1>2. st.cs \in AttestorClientState /\ st.consensus \in [Heights -> Nat \cup {None}]
    BY DEF AttStates
  <1>3. cs \in AttestorClientState
    BY <1>1, <1>2 DEF AttestorClientState
  <1>4. [st.consensus EXCEPT ![att.height] = att.timestamp] \in [Heights -> Nat \cup {None}]
    BY <1>2
  <1> QED BY <1>3, <1>4 DEF AttUpdateState, AttStates

(* So does the tendermint client's. *)
LEMMA TmUpdateStateType ==
    ASSUME NEW st \in TmStates, NEW msg,
           msg.target_height \in Heights,
           msg.timestamp_secs \in Nat,
           msg.app_hash \in Roots
    PROVE  TmUpdateState(st, msg) \in TmStates
  BY BoundsAssumption DEF TmUpdateState, TmStates, TmClientState, TmConsensusState, Heights

(* And the mock's. *)
LEMMA MockUpdateStateType ==
    ASSUME NEW st \in MockStates
    PROVE  MockUpdateState(st) \in MockStates
  BY DEF MockUpdateState, MockStates

(* update_state_on_misbehaviour freezes, and changes nothing else's type. *)
LEMMA AttMisbehaviourType ==
    ASSUME NEW st \in AttStates
    PROVE  /\ AttUpdateStateOnMisbehaviour(st) \in AttStates
           /\ AttUpdateStateOnMisbehaviour(st).cs.frozen
  BY DEF AttUpdateStateOnMisbehaviour, AttStates, AttestorClientState

(* The tendermint client freezes the same way. *)
LEMMA TmMisbehaviourType ==
    ASSUME NEW st \in TmStates
    PROVE  /\ TmUpdateStateOnMisbehaviour(st) \in TmStates
           /\ TmUpdateStateOnMisbehaviour(st).cs.is_frozen
  BY DEF TmUpdateStateOnMisbehaviour, TmStates, TmClientState

(* initialise stores a state of the light client's own type. *)
LEMMA InitialiseType ==
    ASSUME NEW in \in ClientInputs, NEW lc \in LcAddresses,
           InitialiseReturns(lc, in.client_state, in.consensus_state)
    PROVE  LET st == Initialise(lc, in.client_state, in.consensus_state, in.height)
           IN  /\ lc = "attestation" => st \in AttStates
               /\ lc = "tendermint" => st \in TmStates
               /\ lc = "mock" => st \in MockStates
  <1> USE ClientInputsAssumption, BoundsAssumption
  <1>1. CASE lc = "attestation"
    BY <1>1 DEF InitialiseReturns, Initialise, AttInitialise, AttStates, DecodeInitialTimestamp
  <1>2. CASE lc = "tendermint"
    BY <1>2 DEF InitialiseReturns, Initialise, TmInitialise, TmStates
  <1>3. CASE lc = "mock"
    BY <1>3 DEF InitialiseReturns, Initialise, MockInitialise, MockStates, Heights
  <1> QED BY <1>1, <1>2, <1>3 DEF LcAddresses

-----------------------------------------------------------------------------
(* The invariant is established and preserved, one lemma per action. *)

(* Nothing is registered, so there is nothing to fit or to freeze. *)
LEMMA ClientInitInv == ClientInit => ClientInv
  <1> SUFFICES ASSUME ClientInit PROVE ClientInv
    OBVIOUS
  <1> USE MaxClientsAssumption, NoneAssumption DEF ClientInit
  <1>1. ClientTypeOK
    BY DEF ClientTypeOK
  <1>2. StateFitsLightClient
    BY DEF StateFitsLightClient, LcAddresses
  <1>3. ClientIdsDense
    BY DEF ClientIdsDense, ClientIds
  <1>4. FreezeReachesLightClient
    BY DEF FreezeReachesLightClient
  <1> QED BY <1>1, <1>2, <1>3, <1>4 DEF ClientInv

(* Pinning another light client under a type touches no client. *)
LEMMA RegisterClientTypeInv ==
    ASSUME ClientInv, NEW t \in ClientTypes, NEW lc \in LcAddresses,
           RegisterClientType(t, lc)
    PROVE  ClientInv'
  <1> USE DEF RegisterClientType, ClientInv
  <1>1. ClientTypeOK'
    BY DEF ClientTypeOK
  <1>2. StateFitsLightClient'
    BY DEF StateFitsLightClient
  <1>3. ClientIdsDense'
    BY DEF ClientIdsDense
  <1>4. FreezeReachesLightClient'
    BY DEF FreezeReachesLightClient
  <1> QED BY <1>1, <1>2, <1>3, <1>4

(* The id that is minted was not in use. *)
LEMMA MintedIdUnused ==
    ASSUME ClientInv, NEW t \in ClientTypes, nextClientId[t] < MaxClients
    PROVE  LET c == <<t, MintClientId(t)>>
           IN  c \in ClientIds /\ clientLcAddr[c] = None
  BY MaxClientsAssumption
  DEF ClientInv, ClientTypeOK, ClientIdsDense, ClientIds, MintClientId

(* Creating a client fills in the entries of an unused id. *)
LEMMA CreateClientInv ==
    ASSUME ClientInv, NEW t \in ClientTypes, NEW in \in ClientInputs, CreateClient(t, in)
    PROVE  ClientInv'
  <1> DEFINE lc == clientTypeAddr[t]
             c == <<t, MintClientId(t)>>
  <1>1. /\ c \in ClientIds
        /\ clientLcAddr[c] = None
    BY MintedIdUnused DEF CreateClient
  <1>2. lc \in LcAddresses
    BY DEF CreateClient, ClientInv, ClientTypeOK
  <1>3. ClientTypeOK'
    BY <1>1, <1>2, MaxClientsAssumption DEF CreateClient, ClientInv, ClientTypeOK
  <1>4. StateFitsLightClient'
    <2> SUFFICES ASSUME NEW d \in ClientIds
                 PROVE  CASE clientLcAddr'[d] = "attestation" -> lcState'[d] \in AttStates
                          [] clientLcAddr'[d] = "tendermint"  -> lcState'[d] \in TmStates
                          [] clientLcAddr'[d] = "mock"        -> lcState'[d] \in MockStates
                          [] OTHER -> lcState'[d] = None
      BY DEF StateFitsLightClient
    <2>1. CASE d = c
      <3>1. /\ clientLcAddr'[d] = lc
            /\ lcState'[d] = Initialise(lc, in.client_state, in.consensus_state, in.height)
        BY <2>1, <1>1 DEF CreateClient, ClientInv, ClientTypeOK
      <3>2. InitialiseReturns(lc, in.client_state, in.consensus_state)
        BY DEF CreateClient
      <3> QED BY <3>1, <3>2, <1>2, InitialiseType DEF LcAddresses
    <2>2. CASE d # c
      <3>1. clientLcAddr'[d] = clientLcAddr[d] /\ lcState'[d] = lcState[d]
        BY <2>2 DEF CreateClient, ClientInv, ClientTypeOK
      <3> QED BY <3>1 DEF ClientInv, StateFitsLightClient
    <2> QED BY <2>1, <2>2
  <1>5. ClientIdsDense'
    <2> SUFFICES ASSUME NEW u \in ClientTypes, NEW n \in 0..(MaxClients - 1)
                 PROVE  (n < nextClientId'[u]) <=> (clientLcAddr'[<<u, n>>] # None)
      BY DEF ClientIdsDense
    <2>1. <<u, n>> \in ClientIds /\ nextClientId[u] \in Nat /\ c = <<t, nextClientId[t]>>
      BY DEF ClientIds, ClientInv, ClientTypeOK, MintClientId
    <2>2. (n < nextClientId[u]) <=> (clientLcAddr[<<u, n>>] # None)
      BY DEF ClientInv, ClientIdsDense
    <2>3. clientLcAddr'[<<u, n>>] = IF <<u, n>> = c THEN lc ELSE clientLcAddr[<<u, n>>]
      BY <2>1 DEF CreateClient, ClientInv, ClientTypeOK
    <2>4. nextClientId'[u] = IF u = t THEN nextClientId[u] + 1 ELSE nextClientId[u]
      BY DEF CreateClient, ClientInv, ClientTypeOK
    <2> HIDE DEF lc, c
    <2> QED BY <2>1, <2>2, <2>3, <2>4, <1>2, NoneAssumption, MaxClientsAssumption
  <1>6. FreezeReachesLightClient'
    BY <1>1, <1>2, NoneAssumption
    DEF CreateClient, ClientInv, ClientTypeOK, FreezeReachesLightClient
  <1> QED BY <1>3, <1>4, <1>5, <1>6 DEF ClientInv

(* Pairing a client writes its counterparty and nothing else. *)
LEMMA RegisterCounterpartyInv ==
    ASSUME ClientInv, NEW c \in ClientIds, NEW cp \in Counterparties,
           RegisterCounterparty(c, cp)
    PROVE  ClientInv'
  <1> USE DEF RegisterCounterparty, ClientInv
  <1>1. ClientTypeOK'
    BY DEF ClientTypeOK
  <1>2. StateFitsLightClient'
    BY DEF StateFitsLightClient
  <1>3. ClientIdsDense'
    BY DEF ClientIdsDense
  <1>4. FreezeReachesLightClient'
    BY DEF FreezeReachesLightClient, ClientTypeOK
  <1> QED BY <1>1, <1>2, <1>3, <1>4

(* What an update_client call does to the client it is for: the state keeps *)
(* its type, and the router's flag is only set on a frozen state.           *)
LEMMA UpdatedClient ==
    ASSUME ClientInv, NEW c \in ClientIds, NEW msg \in ClientMessages, UpdateClient(c, msg)
    PROVE  /\ clientLcAddr[c] \in LcAddresses
           /\ clientLcAddr[c] = "attestation" => lcState'[c] \in AttStates
           /\ clientLcAddr[c] = "tendermint" => lcState'[c] \in TmStates
           /\ clientLcAddr[c] = "mock" => lcState'[c] \in MockStates
           /\ routerFrozen'[c] => LcFrozen(clientLcAddr[c], lcState'[c])
  <1> DEFINE lc == clientLcAddr[c]
             st == lcState[c]
  <1>1. lc \in LcAddresses
    BY DEF UpdateClient, ClientInv, ClientTypeOK
  <1>2. CASE CheckForMisbehaviour(lc, st, msg)
    <2>1. /\ lcState'[c] = UpdateStateOnMisbehaviour(lc, st)
          /\ lc \in {"attestation", "tendermint"}
      BY <1>1, <1>2
      DEF UpdateClient, CheckForMisbehaviour, LcAddresses, ClientInv, ClientTypeOK
    <2>2. CASE lc = "attestation"
      <3>1. st \in AttStates
        BY <2>2 DEF ClientInv, StateFitsLightClient
      <3> QED BY <3>1, <2>1, <2>2, AttMisbehaviourType
              DEF UpdateStateOnMisbehaviour, LcFrozen, LcAddresses
    <2>3. CASE lc = "tendermint"
      <3>1. st \in TmStates
        BY <2>3 DEF ClientInv, StateFitsLightClient
      <3> QED BY <3>1, <2>1, <2>3, TmMisbehaviourType
              DEF UpdateStateOnMisbehaviour, LcFrozen, LcAddresses
    <2> QED BY <2>1, <2>2, <2>3
  <1>3. CASE ~CheckForMisbehaviour(lc, st, msg)
    <2>1. /\ lcState'[c] = UpdateState(lc, st, msg)
          /\ UpdateReturns(lc, st, msg)
          /\ ~routerFrozen'[c]
      BY <1>3 DEF UpdateClient, ClientInv, ClientTypeOK
    <2>2. CASE lc = "attestation"
      <3>1. st \in AttStates
        BY <2>2 DEF ClientInv, StateFitsLightClient
      <3>2. IsStateAttestation(msg)
        BY <2>1, <2>2 DEF UpdateReturns, AttUpdateReturns
      <3> QED BY <3>1, <3>2, <2>1, <2>2, AttUpdateStateType, ClientMessagesAssumption
              DEF UpdateState, LcAddresses
    <2>3. CASE lc = "tendermint"
      <3>1. st \in TmStates
        BY <2>3 DEF ClientInv, StateFitsLightClient
      <3>2. IsTmHeader(msg)
        BY <2>1, <2>3 DEF UpdateReturns, TmUpdateReturns
      <3> QED BY <3>1, <3>2, <2>1, <2>3, TmUpdateStateType, ClientMessagesAssumption
              DEF UpdateState, LcAddresses
    <2>4. CASE lc = "mock"
      <3>1. st \in MockStates
        BY <2>4 DEF ClientInv, StateFitsLightClient
      <3> QED BY <3>1, <2>1, <2>4, MockUpdateStateType DEF UpdateState, LcAddresses
    <2> QED BY <1>1, <2>2, <2>3, <2>4 DEF LcAddresses
  <1> QED BY <1>2, <1>3

(* Updating a client changes its state and, at most, its flag. *)
LEMMA UpdateClientInv ==
    ASSUME ClientInv, NEW c \in ClientIds, NEW msg \in ClientMessages, UpdateClient(c, msg)
    PROVE  ClientInv'
  <1>1. /\ UNCHANGED <<clientTypeAddr, nextClientId, clientLcAddr, counterparty>>
        /\ DOMAIN lcState' = ClientIds
        /\ routerFrozen' \in [ClientIds -> BOOLEAN]
        /\ \A d \in ClientIds \ {c} :
               lcState'[d] = lcState[d] /\ routerFrozen'[d] = routerFrozen[d]
    BY DEF UpdateClient, ClientInv, ClientTypeOK
  <1>2. ClientTypeOK'
    BY <1>1 DEF ClientInv, ClientTypeOK
  <1>3. StateFitsLightClient'
    BY <1>1, UpdatedClient DEF ClientInv, StateFitsLightClient, LcAddresses
  <1>4. ClientIdsDense'
    BY <1>1 DEF ClientInv, ClientIdsDense
  <1>5. FreezeReachesLightClient'
    BY <1>1, UpdatedClient, NoneAssumption DEF ClientInv, FreezeReachesLightClient
  <1> QED BY <1>2, <1>3, <1>4, <1>5 DEF ClientInv

(* Every step keeps the invariant. *)
LEMMA ClientNextInv == ClientInv /\ [ClientNext]_clientVars => ClientInv'
  <1> SUFFICES ASSUME ClientInv, [ClientNext]_clientVars PROVE ClientInv'
    OBVIOUS
  <1>1. CASE ClientNext
    BY <1>1, RegisterClientTypeInv, CreateClientInv, RegisterCounterpartyInv, UpdateClientInv
    DEF ClientNext
  <1>2. CASE UNCHANGED clientVars
    BY <1>2 DEF clientVars, ClientInv, ClientTypeOK, StateFitsLightClient, ClientIdsDense,
                FreezeReachesLightClient
  <1> QED BY <1>1, <1>2

(* The inductive invariant holds in every reachable state of the clients. *)
THEOREM ClientInvariant == ClientSpec => []ClientInv
  BY ClientInitInv, ClientNextInv, PTL DEF ClientSpec

(* The router's client entries keep their types. *)
THEOREM ClientTypesCorrect == ClientSpec => []ClientTypeOK
  <1>1. ClientInv => ClientTypeOK
    BY DEF ClientInv
  <1> QED BY <1>1, ClientInvariant, PTL

(* Every client's state has the shape of the light client that serves it,   *)
(* whatever create_client and update_client were given and however often a  *)
(* client type is registered again.                                         *)
THEOREM StateAlwaysFits == ClientSpec => []StateFitsLightClient
  <1>1. ClientInv => StateFitsLightClient
    BY DEF ClientInv
  <1> QED BY <1>1, ClientInvariant, PTL

(* Client ids are minted without gaps and without reuse. *)
THEOREM ClientIdsAlwaysDense == ClientSpec => []ClientIdsDense
  <1>1. ClientInv => ClientIdsDense
    BY DEF ClientInv
  <1> QED BY <1>1, ClientInvariant, PTL

(* The router never reports a client frozen that its light client still     *)
(* updates.                                                                 *)
THEOREM FreezeAlwaysReaches == ClientSpec => []FreezeReachesLightClient
  <1>1. ClientInv => FreezeReachesLightClient
    BY DEF ClientInv
  <1> QED BY <1>1, ClientInvariant, PTL

-----------------------------------------------------------------------------
(* What a step may never do.  Only create_client and update_client write    *)
(* light client states, the one for an unused id, the other for one client. *)

(* An existing client's state changes by update_client for it only. *)
LEMMA UntouchedClients ==
    ASSUME ClientInv, ClientNext, NEW c \in ClientIds, clientLcAddr[c] # None
    PROVE  \/ lcState'[c] = lcState[c]
           \/ \E msg \in ClientMessages : UpdateClient(c, msg)
  <1>1. ASSUME NEW t \in ClientTypes, NEW lc \in LcAddresses, RegisterClientType(t, lc)
        PROVE  lcState'[c] = lcState[c]
    BY <1>1 DEF RegisterClientType
  <1>2. ASSUME NEW t \in ClientTypes, NEW in \in ClientInputs, CreateClient(t, in)
        PROVE  lcState'[c] = lcState[c]
    BY <1>2, MintedIdUnused DEF CreateClient, ClientInv, ClientTypeOK
  <1>3. ASSUME NEW d \in ClientIds, NEW cp \in Counterparties, RegisterCounterparty(d, cp)
        PROVE  lcState'[c] = lcState[c]
    BY <1>3 DEF RegisterCounterparty
  <1>4. ASSUME NEW d \in ClientIds, NEW msg \in ClientMessages, UpdateClient(d, msg), d # c
        PROVE  lcState'[c] = lcState[c]
    BY <1>4 DEF UpdateClient, ClientInv, ClientTypeOK
  <1> QED BY <1>1, <1>2, <1>3, <1>4 DEF ClientNext

(* An update_client call for a client frozen in its light client panics. *)
LEMMA FrozenRefusesUpdate ==
    ASSUME ClientInv, NEW c \in ClientIds, NEW msg \in ClientMessages, UpdateClient(c, msg)
    PROVE  ~LcFrozen(clientLcAddr[c], lcState[c])
  <1> SUFFICES ASSUME LcFrozen(clientLcAddr[c], lcState[c]) PROVE FALSE
    OBVIOUS
  <1>1. ~CheckForMisbehaviour(clientLcAddr[c], lcState[c], msg)
    BY DEF LcFrozen, CheckForMisbehaviour, AttCheckForMisbehaviour, TmCheckForMisbehaviour
  <1>2. ~UpdateReturns(clientLcAddr[c], lcState[c], msg)
    BY DEF LcFrozen, UpdateReturns, AttUpdateReturns, TmUpdateReturns
  <1> QED BY <1>1, <1>2 DEF UpdateClient

(* A client frozen in its light client never changes again. *)
THEOREM FrozenAlwaysFinal == ClientSpec => FrozenIsFinal
  <1>1. ClientInv /\ [ClientNext]_clientVars => [FrozenUntouched]_clientVars
    BY UntouchedClients, FrozenRefusesUpdate DEF FrozenUntouched, clientVars
  <1> QED BY <1>1, ClientInvariant, PTL DEF ClientSpec, FrozenIsFinal

(* What each light client keeps when its state is updated. *)
LEMMA AttUpdateKeeps ==
    ASSUME NEW st \in AttStates, NEW msg,
           msg.attestation_data.height \in Heights,
           ~st.cs.frozen, ~AttCheckForMisbehaviour(st, msg)
    PROVE  LET new == AttUpdateState(st, msg)
           IN  /\ new.cs.latest_height >= st.cs.latest_height
               /\ \A h \in Heights : st.consensus[h] # None => new.consensus[h] = st.consensus[h]
  <1> DEFINE att == msg.attestation_data
  <1>1. st.cs \in AttestorClientState /\ st.consensus \in [Heights -> Nat \cup {None}]
    BY DEF AttStates
  <1>2. AttUpdateState(st, msg).cs.latest_height =
            IF att.height > st.cs.latest_height THEN att.height ELSE st.cs.latest_height
    BY <1>1 DEF AttUpdateState, AttestorClientState
  <1>3. att.height \in Nat /\ st.cs.latest_height \in Nat
    BY <1>1, BoundsAssumption DEF Heights, AttestorClientState
  <1>4. \A h \in Heights : AttUpdateState(st, msg).consensus[h] =
            IF h = att.height THEN att.timestamp ELSE st.consensus[h]
    BY <1>1 DEF AttUpdateState
  <1>5. st.consensus[att.height] = None \/ st.consensus[att.height] = att.timestamp
    BY DEF AttCheckForMisbehaviour
  <1> QED BY <1>2, <1>3, <1>4, <1>5

(* A tendermint update is for a height above the latest, with a known root. *)
LEMMA TmUpdateKeeps ==
    ASSUME NEW st \in TmStates, NEW msg,
           msg.target_height \in Heights, msg.timestamp_secs \in Nat, msg.app_hash \in Roots,
           TmUpdateReturns(st, msg), ~TmCheckForMisbehaviour(st, msg)
    PROVE  LET new == TmUpdateState(st, msg)
           IN  /\ new.cs.latest_height >= st.cs.latest_height
               /\ \A h \in Heights : st.consensus[h] # None =>
                      /\ new.consensus[h] # None
                      /\ new.consensus[h].root = st.consensus[h].root
                      /\ h <= st.cs.latest_height => new.consensus[h] = st.consensus[h]
  <1> DEFINE th == msg.target_height
             cons == [timestamp_secs |-> msg.timestamp_secs, root |-> msg.app_hash]
  <1>1. st.cs \in TmClientState /\ st.consensus \in [Heights -> TmConsensusState \cup {None}]
    BY DEF TmStates
  <1>2. TmUpdateState(st, msg).cs.latest_height = th
    BY <1>1 DEF TmUpdateState, TmClientState
  <1>3. th \in Nat /\ st.cs.latest_height \in Nat /\ th > st.cs.latest_height /\ ~st.cs.is_frozen
    BY <1>1, BoundsAssumption DEF Heights, TmClientState, TmUpdateReturns
  <1>4. \A h \in Heights : TmUpdateState(st, msg).consensus[h] =
            IF h = th THEN cons ELSE st.consensus[h]
    BY <1>1 DEF TmUpdateState
  <1>5. st.consensus[th] = None \/ st.consensus[th].root = msg.app_hash
    BY <1>3 DEF TmCheckForMisbehaviour
  <1>6. cons \in TmConsensusState /\ cons # None /\ cons.root = msg.app_hash
    BY NoneAssumption DEF TmConsensusState
  <1>7. \A h \in Heights : h \in Int
    BY BoundsAssumption DEF Heights
  <1> HIDE DEF cons
  <1> QED BY <1>2, <1>3, <1>4, <1>5, <1>6, <1>7

(* Freezing leaves the latest height and every consensus state alone. *)
LEMMA MisbehaviourKeeps ==
    ASSUME NEW st, st \in AttStates \/ st \in TmStates
    PROVE  /\ st \in AttStates =>
                 /\ AttUpdateStateOnMisbehaviour(st).cs.latest_height = st.cs.latest_height
                 /\ AttUpdateStateOnMisbehaviour(st).consensus = st.consensus
           /\ st \in TmStates =>
                 /\ TmUpdateStateOnMisbehaviour(st).cs.latest_height = st.cs.latest_height
                 /\ TmUpdateStateOnMisbehaviour(st).consensus = st.consensus
  BY DEF AttUpdateStateOnMisbehaviour, TmUpdateStateOnMisbehaviour, AttStates, TmStates,
         AttestorClientState, TmClientState

(* An update_client call keeps what the client already trusts. *)
LEMMA UpdateKeepsTrust ==
    ASSUME ClientInv, NEW c \in ClientIds, NEW msg \in ClientMessages, UpdateClient(c, msg)
    PROVE  LET lc  == clientLcAddr[c]
               old == lcState[c]
               new == lcState'[c]
           IN  /\ LcLatestHeight(lc, new) >= LcLatestHeight(lc, old)
               /\ lc = "attestation" =>
                      \A h \in Heights : old.consensus[h] # None =>
                          new.consensus[h] = old.consensus[h]
               /\ lc = "tendermint" =>
                      \A h \in Heights : old.consensus[h] # None =>
                          /\ new.consensus[h] # None
                          /\ new.consensus[h].root = old.consensus[h].root
                          /\ h <= old.cs.latest_height =>
                                 new.consensus[h] = old.consensus[h]
  <1> DEFINE lc == clientLcAddr[c]
             old == lcState[c]
             new == lcState'[c]
             misbehaved == CheckForMisbehaviour(lc, old, msg)
  <1>1. /\ misbehaved => new = UpdateStateOnMisbehaviour(lc, old)
        /\ ~misbehaved => new = UpdateState(lc, old, msg) /\ UpdateReturns(lc, old, msg)
    BY DEF UpdateClient, ClientInv, ClientTypeOK
  <1>2. CASE lc = "attestation"
    <2>1. old \in AttStates /\ old.cs.latest_height \in Nat
      BY <1>2 DEF ClientInv, StateFitsLightClient, AttStates, AttestorClientState
    <2>2. CASE misbehaved
      <3>1. new = AttUpdateStateOnMisbehaviour(old)
        BY <1>1, <1>2, <2>2 DEF UpdateStateOnMisbehaviour
      <3> QED BY <3>1, <1>2, <2>1, MisbehaviourKeeps DEF LcLatestHeight
    <2>3. CASE ~misbehaved
      <3>1. new = AttUpdateState(old, msg) /\ AttUpdateReturns(old, msg)
        BY <1>1, <1>2, <2>3 DEF UpdateState, UpdateReturns
      <3>2. ~AttCheckForMisbehaviour(old, msg)
        BY <1>2, <2>3 DEF CheckForMisbehaviour
      <3>3. msg.attestation_data.height \in Heights /\ ~old.cs.frozen
        BY <3>1, ClientMessagesAssumption DEF AttUpdateReturns
      <3> QED BY <3>1, <3>2, <3>3, <1>2, <2>1, AttUpdateKeeps DEF LcLatestHeight
    <2> QED BY <2>2, <2>3
  <1>3. CASE lc = "tendermint"
    <2>1. /\ old \in TmStates
          /\ old.cs.latest_height \in Nat
      BY <1>3 DEF ClientInv, StateFitsLightClient, TmStates, TmClientState
    <2>2. CASE misbehaved
      <3>1. new = TmUpdateStateOnMisbehaviour(old)
        BY <1>1, <1>3, <2>2 DEF UpdateStateOnMisbehaviour
      <3> QED BY <3>1, <1>3, <2>1, MisbehaviourKeeps DEF LcLatestHeight
    <2>3. CASE ~misbehaved
      <3>1. new = TmUpdateState(old, msg) /\ TmUpdateReturns(old, msg)
        BY <1>1, <1>3, <2>3 DEF UpdateState, UpdateReturns
      <3>2. ~TmCheckForMisbehaviour(old, msg)
        BY <1>3, <2>3 DEF CheckForMisbehaviour
      <3>3. /\ msg.target_height \in Heights
            /\ msg.timestamp_secs \in Nat
            /\ msg.app_hash \in Roots
        BY <3>1, ClientMessagesAssumption DEF TmUpdateReturns
      <3> QED BY <3>1, <3>2, <3>3, <1>3, <2>1, TmUpdateKeeps DEF LcLatestHeight
    <2> QED BY <2>2, <2>3
  <1>4. CASE lc = "mock"
    <2>1. old \in MockStates
      BY <1>4 DEF ClientInv, StateFitsLightClient
    <2>2. new = MockUpdateState(old)
      BY <1>1, <1>4 DEF CheckForMisbehaviour, UpdateState
    <2> QED BY <1>4, <2>1, <2>2 DEF MockUpdateState, MockStates, LcLatestHeight
  <1>5. lc \in LcAddresses
    BY UpdatedClient
  <1> QED BY <1>2, <1>3, <1>4, <1>5 DEF LcAddresses

(* Reading a light client's latest height gives a number. *)
LEMMA LatestHeightIsNat ==
    ASSUME ClientInv, NEW c \in ClientIds, clientLcAddr[c] # None
    PROVE  LcLatestHeight(clientLcAddr[c], lcState[c]) \in Nat
  <1>1. clientLcAddr[c] \in LcAddresses
    BY DEF ClientInv, ClientTypeOK
  <1>2. CASE clientLcAddr[c] = "attestation"
    BY <1>2 DEF ClientInv, StateFitsLightClient, AttStates, AttestorClientState, LcLatestHeight
  <1>3. CASE clientLcAddr[c] = "tendermint"
    BY <1>3 DEF ClientInv, StateFitsLightClient, TmStates, TmClientState, LcLatestHeight
  <1>4. CASE clientLcAddr[c] = "mock"
    BY <1>4 DEF ClientInv, StateFitsLightClient, MockStates, LcLatestHeight
  <1> QED BY <1>1, <1>2, <1>3, <1>4 DEF LcAddresses

(* A client's trust only grows: no step replaces what it trusts about a      *)
(* height, and its latest height never goes back.                            *)
THEOREM TrustAlwaysGrows == ClientSpec => TrustOnlyGrows
  <1>1. ClientInv /\ [ClientNext]_clientVars => [TrustKept]_clientVars
    <2> SUFFICES ASSUME ClientInv, ClientNext, NEW c \in ClientIds, clientLcAddr[c] # None
                 PROVE  LET lc  == clientLcAddr[c]
                            old == lcState[c]
                            new == lcState'[c]
                        IN  /\ LcLatestHeight(lc, new) >= LcLatestHeight(lc, old)
                            /\ lc = "attestation" =>
                                   \A h \in Heights : old.consensus[h] # None =>
                                       new.consensus[h] = old.consensus[h]
                            /\ lc = "tendermint" =>
                                   \A h \in Heights : old.consensus[h] # None =>
                                       /\ new.consensus[h] # None
                                       /\ new.consensus[h].root = old.consensus[h].root
                                       /\ h <= old.cs.latest_height =>
                                              new.consensus[h] = old.consensus[h]
      BY DEF TrustKept, clientVars
    <2>1. CASE lcState'[c] = lcState[c]
      BY <2>1, LatestHeightIsNat
    <2>2. CASE \E msg \in ClientMessages : UpdateClient(c, msg)
      BY <2>2, UpdateKeepsTrust
    <2> QED BY <2>1, <2>2, UntouchedClients
  <1> QED BY <1>1, ClientInvariant, PTL DEF ClientSpec, TrustOnlyGrows

(* No step replaces the light client or the counterparty of a client. *)
LEMMA StepKeepsBindings == ClientInv /\ [ClientNext]_clientVars => [BindingsKept]_clientVars
  <1> SUFFICES ASSUME ClientInv, ClientNext, NEW c \in ClientIds
               PROVE  /\ clientLcAddr[c] # None => clientLcAddr'[c] = clientLcAddr[c]
                      /\ counterparty[c] # None => counterparty'[c] = counterparty[c]
    BY DEF BindingsKept, clientVars
  <1>1. ASSUME NEW t \in ClientTypes, NEW in \in ClientInputs, CreateClient(t, in)
        PROVE  /\ clientLcAddr[c] # None => clientLcAddr'[c] = clientLcAddr[c]
               /\ counterparty'[c] = counterparty[c]
    BY <1>1, MintedIdUnused DEF CreateClient, ClientInv, ClientTypeOK
  <1>2. ASSUME NEW d \in ClientIds, NEW cp \in Counterparties, RegisterCounterparty(d, cp)
        PROVE  /\ clientLcAddr'[c] = clientLcAddr[c]
               /\ counterparty[c] # None => counterparty'[c] = counterparty[c]
    BY <1>2 DEF RegisterCounterparty, ClientInv, ClientTypeOK
  <1> QED BY <1>1, <1>2 DEF ClientNext, RegisterClientType, UpdateClient

(* The light client and the counterparty of a client are never replaced. *)
THEOREM BindingsAlwaysKept == ClientSpec => BindingsPermanent
  BY StepKeepsBindings, ClientInvariant, PTL DEF ClientSpec, BindingsPermanent
=============================================================================
