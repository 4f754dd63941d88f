----------------------------- MODULE Registries -----------------------------
(***************************************************************************)
(* The four on-chain registries of onchain/contracts/Registries.sol, as    *)
(* one state machine whose steps are the mined, non-reverting              *)
(* transactions.  A transaction whose require() fails reverts and changes  *)
(* nothing, so it is no step.                                              *)
(*                                                                         *)
(* Solidity mappings are total with a zero default: an unregistered DID    *)
(* has the zero record, and an issuer that never published has the zero    *)
(* root, which is also the root of the empty revocation tree.  Left out:   *)
(* events, and the record's did, endpoints and updatedAt fields, which     *)
(* nothing in the system decides on.                                       *)
(***************************************************************************)
CONSTANTS
  Accounts,      \* transaction senders
  Governance,    \* the deployer, IssuerRegistry.governance
  NoAddress,     \* address(0)
  DIDs,          \* DID registry keys, SHA3-256(did)
  Keys,          \* ML-DSA-44 public keys
  NoKey,         \* the empty bytes of an unwritten record
  Roots,         \* values a revocation root can take
  EmptyRoot,     \* the default 0
  SchemaIds,
  SchemaHashes,
  NoHash         \* the zero bytes32 of an unwritten schema

ASSUME RegistryAssumption ==
  /\ Governance \in Accounts
  /\ NoAddress \notin Accounts
  /\ EmptyRoot \in Roots

VARIABLES
  records,       \* DIDRegistry.records
  accredited,    \* IssuerRegistry.accredited
  revRoot,       \* RevocationRegistry.revRoot
  schemas        \* SchemaRegistry.schemas

vars == <<records, accredited, revRoot, schemas>>

DIDRecord == [controller : Accounts \cup {NoAddress},
              pk         : Keys \cup {NoKey},
              active     : BOOLEAN]

Schema == [hash : SchemaHashes \cup {NoHash}, exists : BOOLEAN]

ZeroRecord == [controller |-> NoAddress, pk |-> NoKey, active |-> FALSE]
ZeroSchema == [hash |-> NoHash, exists |-> FALSE]

controllerOf(d) == records[d].controller

\* The deployed contracts: governance is the deployer, every mapping is zero.
Init ==
  /\ records    = [d \in DIDs |-> ZeroRecord]
  /\ accredited = [d \in DIDs |-> FALSE]
  /\ revRoot    = [d \in DIDs |-> EmptyRoot]
  /\ schemas    = [s \in SchemaIds |-> ZeroSchema]

-----------------------------------------------------------------------------
\* Seeded defect: registerDID without its "DID exists" check.
RegisterOverwrites(sender, d, pk) ==
  /\ records' = [records EXCEPT ![d] =
                   [controller |-> sender, pk |-> pk, active |-> TRUE]]
  /\ UNCHANGED <<accredited, revRoot, schemas>>

\* The sender becomes the controller: first come, first registered.
registerDID(sender, d, pk) ==
  /\ controllerOf(d) = NoAddress
  /\ records' = [records EXCEPT ![d] =
                   [controller |-> sender, pk |-> pk, active |-> TRUE]]
  /\ UNCHANGED <<accredited, revRoot, schemas>>

\* Seeded defect: deactivation hands the controller back.
DeactivateClearsController(sender, d) ==
  /\ controllerOf(d) = sender
  /\ records' = [records EXCEPT ![d].active = FALSE, ![d].controller = NoAddress]
  /\ UNCHANGED <<accredited, revRoot, schemas>>

\* The record stays, and nothing sets active again.
deactivateDID(sender, d) ==
  /\ controllerOf(d) = sender
  /\ records' = [records EXCEPT ![d].active = FALSE]
  /\ UNCHANGED <<accredited, revRoot, schemas>>

\* The registered DID is no precondition of accreditation.
accredit(sender, d) ==
  /\ sender = Governance
  /\ accredited' = [accredited EXCEPT ![d] = TRUE]
  /\ UNCHANGED <<records, revRoot, schemas>>

revokeAccreditation(sender, d) ==
  /\ sender = Governance
  /\ accredited' = [accredited EXCEPT ![d] = FALSE]
  /\ UNCHANGED <<records, revRoot, schemas>>

\* Seeded defect: publishRevRoot without its "not issuer controller" check.
PublishUnchecked(sender, d, root) ==
  /\ revRoot' = [revRoot EXCEPT ![d] = root]
  /\ UNCHANGED <<records, accredited, schemas>>

\* Any value, any number of times, active or not: only the sender is checked.
publishRevRoot(sender, d, root) ==
  /\ controllerOf(d) = sender
  /\ revRoot' = [revRoot EXCEPT ![d] = root]
  /\ UNCHANGED <<records, accredited, schemas>>

registerSchema(s, hash) ==
  /\ ~ schemas[s].exists
  /\ schemas' = [schemas EXCEPT ![s] = [hash |-> hash, exists |-> TRUE]]
  /\ UNCHANGED <<records, accredited, revRoot>>

Next ==
  \/ \E a \in Accounts, d \in DIDs :
       \/ \E pk \in Keys : registerDID(a, d, pk)
       \/ deactivateDID(a, d)
       \/ accredit(a, d)
       \/ revokeAccreditation(a, d)
       \/ \E root \in Roots : publishRevRoot(a, d, root)
  \/ \E s \in SchemaIds, hash \in SchemaHashes : registerSchema(s, hash)

Spec == Init /\ [][Next]_vars

-----------------------------------------------------------------------------
(* The shape of the four mappings.  A record is either the zero record or  *)
(* complete: registerDID writes every field at once, so a controller never *)
(* comes without the key it registered.                                    *)
TypeOK ==
  /\ records \in [DIDs -> DIDRecord]
  /\ accredited \in [DIDs -> BOOLEAN]
  /\ revRoot \in [DIDs -> Roots]
  /\ schemas \in [SchemaIds -> Schema]
  /\ \A d \in DIDs : controllerOf(d) = NoAddress => records[d] = ZeroRecord

(* A non-default root on chain was put there under a registered DID: the   *)
(* controllerOf check of publishRevRoot also excludes unregistered DIDs,   *)
(* because controllerOf is then address(0), which never sends, and no      *)
(* later transaction takes the registration away from under the root.      *)
RootsHaveAnAuthor ==
  \A d \in DIDs : revRoot[d] # EmptyRoot => controllerOf(d) \in Accounts

(* Whatever transactions follow, a registered DID keeps its controller and *)
(* its public key and, once deactivated, never becomes active again        *)
(* (registerDID refuses an existing DID, deactivateDID keeps the record);  *)
(* a registered schema keeps its hash.  Verifiers read these at different  *)
(* moments and rely on it.                                                 *)
RegistrationsAreFinal ==
  [][/\ \A d \in DIDs : controllerOf(d) # NoAddress =>
          /\ records'[d].controller = records[d].controller
          /\ records'[d].pk = records[d].pk
          /\ records'[d].active => records[d].active
     /\ \A s \in SchemaIds : schemas[s].exists => schemas'[s] = schemas[s]
    ]_vars
=============================================================================
