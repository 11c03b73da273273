-------------------------- MODULE StellarTracking --------------------------
(***************************************************************************)
(* Stellar to Cosmos: the router's ledgers, the gateway that replays them  *)
(* (StateTracker), the Stellar light client on Cosmos (WasmLightClient)    *)
(* and a relayer (external, Hermes) that carries headers and proofs from   *)
(* the one to the other.  The relayer may hold a header and a proof for as *)
(* long as it likes; meanwhile ledgers close, other queries move the       *)
(* gateway's tree, queries fail and the gateway restarts.                  *)
(*                                                                         *)
(* A query that has to replay ledgers answers when the replay ends.  The   *)
(* relayer here takes its answer by asking again, which at that moment     *)
(* gives the same answer.                                                  *)
(***************************************************************************)
EXTENDS StateTracker, WasmLightClient

VARIABLES
    header,     \* the header the relayer holds: its ledger and root
    proof,      \* the proof the relayer holds: its height, path and bytes
    accepted    \* what the light client last accepted a proof of

Claims == Values \cup {None}

relayVars == <<header, proof, accepted>>
trackingVars == <<trackerSystemVars, wasmVars, relayVars>>

\* The header as update_state reads it.  A ledger has one hash and one close
\* time, and the envelope is signed by a validator the client trusts.
HeaderMessage(h, trusted) ==
    [ledger_seq     |-> h.seq,
     trusted_height |-> trusted,
     consensus      |-> [timestamp |-> h.seq, ledger_hash |-> h.seq, root |-> h.root],
     scp_envelopes  |-> {[node_id |-> CHOOSE v \in TrustedValidators : TRUE, valid |-> TRUE]}]

-----------------------------------------------------------------------------
\* query_ibc_header: get_ledger of the height, then root_at.
query_ibc_header(seq) ==
    /\ header = None
    /\ get_ledger(seq) # None
    /\ QueryKnown(seq)
    /\ header' = [seq |-> seq, root |-> roots'[seq]]
    /\ UNCHANGED <<wasmVars, proof, accepted>>

\* query_packet_commitment, query_packet_receipt and query_acknowledgement:
\* proof_for_path of the height.
query_proof(seq, path) ==
    /\ proof = None
    /\ QueryKnown(seq)
    /\ proof' = [seq |-> seq, path |-> path, bytes |-> ProofFromTree(tree, path)]
    /\ UNCHANGED <<wasmVars, header, accepted>>

\* The client is created from a header of the gateway.
CreateWasmClient ==
    /\ header # None
    /\ instantiate(header.seq, HeaderMessage(header, None).consensus)
    /\ header' = None
    /\ UNCHANGED <<trackerSystemVars, proof, accepted>>

\* The host runs VerifyClientMessage, the query CheckForMisbehaviour and then
\* UpdateState.  The relayer trusts the latest height below the header.
HostUpdate(message) ==
    IF QueryCheckForMisbehaviour(message)
    THEN verify_client_message(message) /\ update_state_on_misbehaviour
    ELSE update_state(message)

UpdateWasmClient ==
    /\ header # None
    /\ \E trusted \in Ledgers : HostUpdate(HeaderMessage(header, trusted))
    /\ header' = None
    /\ UNCHANGED <<trackerSystemVars, proof, accepted>>

\* A header the client refuses, or does not need, is dropped.
DropHeader ==
    /\ header # None
    /\ wasm_client # None
    /\ ~\E trusted \in Ledgers : ENABLED update_state(HeaderMessage(header, trusted))
    /\ header' = None
    /\ UNCHANGED <<trackerSystemVars, wasmVars, proof, accepted>>

\* The host asks for the value that follows from the packet submitted with
\* the proof, or for absence (None).
ProofAccepted(value) ==
    IF value = None
    THEN WasmVerifyNonMembership(proof.seq, proof.bytes, proof.path)
    ELSE WasmVerifyMembership(proof.seq, proof.bytes, proof.path, value)

SubmitProof(value) ==
    /\ proof # None
    /\ ProofAccepted(value)
    /\ proof' = None
    /\ accepted' = [seq |-> proof.seq, path |-> proof.path, value |-> value]
    /\ UNCHANGED <<trackerSystemVars, wasmVars, header>>

\* A proof the client refuses for any value is dropped.
DropProof ==
    /\ proof # None
    /\ ~\E value \in Claims : ProofAccepted(value)
    /\ proof' = None
    /\ UNCHANGED <<trackerSystemVars, wasmVars, header, accepted>>

-----------------------------------------------------------------------------
TrackingInit ==
    /\ TrackerInit
    /\ WasmInit
    /\ header = None
    /\ proof = None
    /\ accepted = None

\* What the gateway and the network do by themselves.
GatewayNext ==
    \/ \E changes \in ChangeLists : CloseLedger(changes)
    \/ \E seq \in Ledgers : QueryAhead(seq)
    \/ ReplayLedger
    \/ FinishReplay
    \/ QueryTooHigh
    \/ QueryFails
    \/ Restart

TrackingNext ==
    \/ GatewayNext /\ UNCHANGED <<wasmVars, relayVars>>
    \/ \E seq \in Ledgers : query_ibc_header(seq)
    \/ \E seq \in Ledgers, path \in Keys : query_proof(seq, path)
    \/ CreateWasmClient
    \/ UpdateWasmClient
    \/ DropHeader
    \/ \E value \in Claims : SubmitProof(value)
    \/ DropProof

TrackingSpec == TrackingInit /\ [][TrackingNext]_trackingVars

\* The relayer keeps asking for the newest ledger and submits what it is
\* given; a query under way goes on.
Newest == Len(ledgers)

FairTrackingSpec ==
    /\ TrackingSpec
    /\ WF_trackingVars(Replay /\ UNCHANGED <<wasmVars, relayVars>>)
    /\ SF_trackingVars(QueryAhead(Newest) /\ UNCHANGED <<wasmVars, relayVars>>)
    /\ SF_trackingVars(query_ibc_header(Newest))
    /\ \A path \in Keys : SF_trackingVars(query_proof(Newest, path))
    /\ WF_trackingVars(CreateWasmClient \/ UpdateWasmClient \/ DropHeader)
    /\ WF_trackingVars(DropProof \/ \E value \in Claims : SubmitProof(value))

-----------------------------------------------------------------------------

(* What Cosmos accepts as a member of the router's storage the router did   *)
(* store: whatever is stale, replayed twice, half replayed or lost in a     *)
(* restart, the gateway and the light client never prove an entry that no   *)
(* ledger wrote.                                                            *)
MembershipTrue ==
    accepted # None /\ accepted.value # None =>
        \E n \in 1..Len(stored) : stored[n][accepted.path] = accepted.value

WrittenBefore(path, n) == \E m \in 1..n - 1 : stored[m][path] # None

(* A receipt that Cosmos accepts as absent at a height was absent at that   *)
(* height, so a packet that times out was not received by then: provided    *)
(* the gateway has not restarted and its first query came before the        *)
(* receipt was written.  It holds although the root and the proof may come  *)
(* from a later tree than the height names, because a receipt is never      *)
(* removed.                                                                 *)
ReceiptAbsenceTrueSinceBase ==
    (accepted # None /\ accepted.value = None /\ accepted.path \in Receipts
        /\ restarts = 0 /\ ~WrittenBefore(accepted.path, base))
    => stored[accepted.seq][accepted.path] = None

(* While the gateway runs, a header it served never conflicts with the      *)
(* consensus state the light client stored for that ledger: the client      *)
(* neither refuses it as a conflict nor would call it misbehaviour.         *)
HeadersNeverConflict ==
    header # None /\ wasm_client # None /\ restarts = 0 =>
        wasm_consensus[header.seq] \in {None, HeaderMessage(header, None).consensus}

(* A commitment that the router still holds in the newest ledger is         *)
(* eventually proved to Cosmos at that ledger, although queries fail and    *)
(* other queries move the tree under the relayer: unless the commitment was *)
(* written before the first ledger this gateway replayed.                   *)
CommitmentsEventuallyProved ==
    \A path \in Keys \ Receipts :
        (Len(ledgers) = MaxLedger /\ Last(stored)[path] # None)
        ~> \/ base # None /\ WrittenBefore(path, base)
           \/ accepted = [seq |-> MaxLedger, path |-> path, value |-> Last(stored)[path]]

(* "Every ICS-23 proof in Flows 3-5 depends on the gateway reconstructing   *)
(* the SMT at a given height": a receipt that Cosmos accepts as absent at a *)
(* height was absent from the router's storage at that height.              *)
ReceiptAbsenceTrue ==
    accepted # None /\ accepted.value = None /\ accepted.path \in Receipts =>
        stored[accepted.seq][accepted.path] = None
=============================================================================
